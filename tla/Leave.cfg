SPECIFICATION Spec
CONSTANTS
  Reqs = {1, 2}
  Start <- FirstDays
  End <- LastDays
  NewYear = 1
  Grants <- OneOrTwo
  Manager = TRUE
  Cap = 0
  Backdate = 1
  Workers = {w1, w2}
  LastDay = 2
  MaxMishaps = 1
SYMMETRY Sym
INVARIANTS TypeOK NeverOverbooked HeldExactly CacheIsLedger NoDoubleLeave
CHECK_DEADLOCK FALSE
