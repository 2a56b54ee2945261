SPECIFICATION FairSpec
CONSTANTS
  Workers = {w1}
  FirstPeriod <- November
  Horizon = 2
  Principal = 2
  Installments = 2
  MaxSeq = 3
  MaxRuns = 1
  MaxRunsInAll = 2
  MaxMishaps = 1
PROPERTIES TakenIsRecorded
CHECK_DEADLOCK FALSE
