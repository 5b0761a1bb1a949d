\* Three Ingests, one ClearHits and one Delete on a pool of three connections.
SPECIFICATION FairSpec
CONSTANTS
  h1 = h1
  h2 = h2
  h3 = h3
  clear = clear
  drop = drop
  NoOne = NoOne
  Ingests = {h1, h2, h3}
  Clears = {clear}
  Drops = {drop}
  MaxHits = 1
  MaxConns = 3
  MaxClock = 0
  MaxFails = 1
INVARIANTS
  TypeOK
  CountExactUnlessOvertaken
PROPERTIES
  CappedBinSpec
  AllAnswered
