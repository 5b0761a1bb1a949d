\* Two visits, a request that ends, one that need not, and three starts.
SPECIFICATION FairSpec
CONSTANTS
  visit1 = visit1
  visit2 = visit2
  request = request
  smtp = smtp
  Requests = {visit1, visit2, request, smtp}
  Visits = {visit1, visit2}
  Slow = {smtp}
  MaxStarts = 3
CHECK_DEADLOCK FALSE
INVARIANTS
  CleanExitDrains
  HandlersHaveClients
PROPERTY
  StopEnds
