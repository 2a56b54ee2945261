SPECIFICATION Spec
CONSTANTS
  Workers = {w1}
  FirstPeriod <- November
  Horizon = 3
  Principal = 2
  Installments = 2
  MaxSeq = 4
  MaxRuns = 1
  MaxRunsInAll = 2
  MaxMishaps = 0
INVARIANTS DebtIsScheduled
CHECK_DEADLOCK FALSE
