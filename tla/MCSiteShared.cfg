CONSTANTS
  w1 = w1
  w2 = w2
  w3 = w3
  c1 = c1
  c2 = c2
  c3 = c3
  x1 = x1
  f1 = f1
  f2 = f2
  p1 = p1
  p2 = p2
  Workers <- MCWorkers
  Contexts <- MCContexts
  Texts <- MCTexts
  Objects <- MCObjects
  NoKey = NoKey
  NoObject = 0
  MaxSize = 2
  Fields <- MCFields
  Paths <- MCPaths
  BadPaths <- MCBadPaths
  MaxGen = 1
  NoFile = NoFile
  Part = Part
  Nothing = Nothing
  Empty = Empty
  NoWorker = NoWorker
SPECIFICATION MCSpec
SYMMETRY SharedSymmetry
INVARIANTS
  IndexMatchesList
  RightQuery
  ServesWhole
  FallbackKept
  WholeData
