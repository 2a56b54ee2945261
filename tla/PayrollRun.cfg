SPECIFICATION Spec
CONSTANTS
  Runs = {r1, r2}
  Calls = {c1, c2}
  Users = {u1, u2}
  Periods = {1}
  Leaves = {l1}
  Span <- MCSpan
  None = None
SYMMETRY Sym
INVARIANTS TypeOK OneLiveRun TwoPeople FrozenAttendance SnapshotComplete SlicesShareEntry ForceIsCountedDays SplitKeepsPay LeaveChargedOnce
PROPERTIES ImplementsPayrollPeriod
CHECK_DEADLOCK FALSE
