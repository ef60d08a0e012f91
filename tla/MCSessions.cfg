CONSTANTS
  s1 = s1
  s2 = s2
  i1 = i1
  i2 = i2
  Scripts <- MCScripts
  Ids <- MCIds
  NoScript = NoScript
  NoId = NoId
  PhpTimeout = 2
  Delay = 1
  ReapTime = 3
SPECIFICATION FairSpec
INVARIANTS
  TypeOK
  OwnSession
  OneHandlerPerSession
PROPERTIES
  ErasesOwn
  Reclaimed
