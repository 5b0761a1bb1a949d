\* Two workers, one bin, and its owner.
SPECIFICATION HookSpec
CONSTANTS
  w1 = w1
  w2 = w2
  u1 = u1
  u2 = u2
  b1 = b1
  Nobody = Nobody
  NoTask = NoTask
  Workers = {w1, w2}
  Users = {u1}
  Ids = {b1}
  MaxBins = 1
  BinTTL = 1
  Timeout = 1
  MaxTime = 2
  Faults = TRUE
  HookLimit = 1
  HookWindow = 1
  MaxRestarts = 1
SYMMETRY Symmetry
INVARIANTS
  StoresBounded
  CountersOnlyForBins
  ExpiredIsGone
