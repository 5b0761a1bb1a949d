\* Two workers, two users, two bins.
SPECIFICATION Spec
CONSTANTS
  w1 = w1
  w2 = w2
  u1 = u1
  u2 = u2
  b1 = b1
  b2 = b2
  b3 = b3
  Nobody = Nobody
  NoTask = NoTask
  Workers = {w1, w2}
  Users = {u1, u2}
  Ids = {b1, b2}
  MaxBins = 1
  BinTTL = 1
  Timeout = 1
  MaxTime = 2
  Faults = TRUE
SYMMETRY Symmetry
INVARIANTS
  TypeOK
  CacheEndsWithBin
PROPERTIES
  OnlyOwnerRemovesLiveBin
  LimitOnlyWhenFull
  OwnedBinsSpec
