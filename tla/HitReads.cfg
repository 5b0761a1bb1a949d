\* Three Ingests and a ClearHits while the owner walks through the hits.
SPECIFICATION ReadSpec
CONSTANTS
  h1 = h1
  h2 = h2
  h3 = h3
  clear = clear
  drop = drop
  NoOne = NoOne
  Ingests = {h1, h2, h3}
  Clears = {clear}
  Drops = {}
  MaxHits = 1
  MaxConns = 2
  MaxClock = 2
  MaxFails = 0
SYMMETRY Symmetry
INVARIANTS
  WalkComplete
  OvershootBounded
  NewestKept
PROPERTY
  NoHitTwice
