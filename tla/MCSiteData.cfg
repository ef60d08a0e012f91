CONSTANTS
  IntMax = 31
  MaxSize = 4
  Below = 2
  MaxOption = 4
  MaxPage = 8
  q1 = q1
  q2 = q2
  QueryTexts <- MCQueryTexts
  NumberParts <- MCNumberParts
  QueryContexts <- MCQueryContexts
  Permalinks <- MCPermalinks
  KnownIds <- MCKnownIds
  Queries <- MCQueries
  MaxResponses = 3
  N = 3
  MaxLinks = 2
  Documents <- MCDocuments
  MaxHeld = 1
  Lists <- MCLists
  Orders <- MCOrders
  Places = 2
  Eps = 9
SPECIFICATION MCSpec
INVARIANTS
  NodesInRange
  PagesPartition
  GroupsBalanced
  FreedOnce
  StagingHidden
  Mirrored
  ObjectsFreed
  StartsAtNamed
  StrictWeakOrder
  NumeralsByValue
  IdsNameResponses
CHECK_DEADLOCK FALSE
