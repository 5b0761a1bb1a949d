\* Three visits of one fingerprint.
SPECIFICATION Spec
CONSTANTS
  v1 = v1
  v2 = v2
  v3 = v3
  u1 = u1
  u2 = u2
  f1 = f1
  Nobody = Nobody
  NoRow = NoRow
  Visits = {v1, v2, v3}
  Users = {u1, u2}
  Prints = {f1}
  Timeout = 1
  MaxTime = 2
  MaxFaults = 1
SYMMETRY Symmetry
\* Every visit ends, and then nothing is left to do.
CHECK_DEADLOCK FALSE
INVARIANT
  RecordedUnlessFault
PROPERTIES
  OriginKept
  LastSeenNearby
  VisitorLogSpec
