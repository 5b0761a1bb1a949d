\* Three callers, a lost command or crash, a restart of Valkey.
SPECIFICATION FairSpec
CONSTANTS
  c1 = c1
  c2 = c2
  c3 = c3
  k1 = k1
  Callers = {c1, c2, c3}
  Keys = {k1}
  Limit = 2
  Window = 3
  Second = 3
  Timeout = 1
  MaxCount = 3
  MaxFaults = 1
  MaxRestarts = 1
INVARIANTS
  GrantsBounded
  BurstBounded
  WindowUnlessFault
  EndsOnTime
  
PROPERTIES
  FixedWindowSpec
  RefusalEnds
