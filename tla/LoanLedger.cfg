SPECIFICATION Spec
CONSTANTS
  Workers = {w1, w2}
  FirstPeriod <- November
  Horizon = 2
  Principal = 2
  Installments = 2
  MaxSeq = 3
  MaxRuns = 2
  MaxRunsInAll = 3
  MaxMishaps = 1
SYMMETRY Sym
INVARIANTS TypeOK DeductedIsRecorded NeverOverRepaid LedgerBacked SettledIsRepaid ScheduleSplitsDebt AccelerationMovesCalendar
PROPERTIES LoanLifecycle
CHECK_DEADLOCK FALSE
