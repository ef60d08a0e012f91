CONSTANTS
  s1 = s1
  s2 = s2
  a = a
  b = b
  Scripts <- MCScripts
  Subdomains <- MCSubdomains
  NoScript = NoScript
  PhpTimeout = 2
  Delay = 1
  LockTTL = 2
SPECIFICATION FairSpec
INVARIANTS
  ExclusiveUnlessOverrun
PROPERTIES
  OnlyOwnRowDeleted
  StuckLockFreed
