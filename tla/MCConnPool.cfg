CONSTANTS
  w1 = w1
  w2 = w2
  w3 = w3
  reaper = reaper
  Workers <- MCWorkers
  Collectors <- MCCollectors
  Conns <- MCConns
  NoConn = NoConn
SPECIFICATION FairSpec
INVARIANTS
  CounterMatchesPool
  ExclusiveUse
  NoLostWakeup
PROPERTIES
  WaiterWoken
  ImplementsPool
