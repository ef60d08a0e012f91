CONSTANTS
  q1 = q1
  q2 = q2
  Queries <- MCQueries
  MaxResponses = 3
SPECIFICATION Spec
INVARIANT InvalidIdRefused
