SPECIFICATION Spec
CONSTANTS
  Reqs = {1, 2}
  Start <- DayEach
  End <- DayEach
  Affecting = {1, 2}
  Workers = {w1}
  LastDay = 2
  MaxCalls = 2
  MaxFaults = 1
INVARIANTS StatusReturns StatusShown
CHECK_DEADLOCK FALSE
