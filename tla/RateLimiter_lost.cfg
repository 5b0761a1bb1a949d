\* One lost command is enough for a counter without an end.
SPECIFICATION Spec
CONSTANTS
  c1 = c1
  c2 = c2
  c3 = c3
  k1 = k1
  Callers = {c1, c2}
  Keys = {k1}
  Limit = 1
  Window = 2
  Second = 1
  Timeout = 1
  MaxCount = 3
  MaxFaults = 1
  MaxRestarts = 0
INVARIANT
  CounterHasWindow
