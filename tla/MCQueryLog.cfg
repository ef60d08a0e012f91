CONSTANTS
  w1 = w1
  w2 = w2
  Workers <- MCWorkers
  Arguments <- MCArguments
  IsLogging = TRUE
  MaxId = 4
SPECIFICATION Spec
PROPERTY EveryQueryLogged
