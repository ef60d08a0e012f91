CONSTANTS
  d1 = d1
  w1 = w1
  w2 = w2
  r1 = r1
  Subdomains <- MCSubdomains
  Workers <- MCWorkers
  Reloaders <- MCReloaders
  Bus = Bus
  Nobody = Nobody
  NoSite = NoSite
  Bad = Bad
  NoJob = NoJob
  MaxGen = 1
SPECIFICATION FairSpec
INVARIANTS
  Fresh
PROPERTIES
  NoDoubleLoad
  MutexReleased
