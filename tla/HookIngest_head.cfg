\* A fill of the cache that overtakes a deletion; no command fails.
SPECIFICATION HookSpec
CONSTANTS
  w1 = w1
  w2 = w2
  u1 = u1
  u2 = u2
  b1 = b1
  Nobody = Nobody
  NoTask = NoTask
  Workers = {w1, w2}
  Users = {u1}
  Ids = {b1}
  MaxBins = 1
  BinTTL = 1
  Timeout = 1
  MaxTime = 2
  Faults = FALSE
  HookLimit = 1
  HookWindow = 1
  MaxRestarts = 0
SYMMETRY Symmetry
INVARIANT
  HeadConfirmsExisting
