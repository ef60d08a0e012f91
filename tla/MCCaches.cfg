CONSTANTS
  w1 = w1
  w2 = w2
  k1 = k1
  k2 = k2
  v1 = v1
  v2 = v2
  i1 = i1
  Workers <- MCWorkers
  Keys <- MCKeys
  Values <- MCValues
  NoValue = NoValue
  NoRow = NoRow
  Subdomains <- MCSubdomains
  Ids <- MCIds
  ShortKeys <- MCShortKeys
SPECIFICATION MCSpec
SYMMETRY CacheSymmetry
INVARIANTS
  Coherent
  SetNotLost
  SitesApart
