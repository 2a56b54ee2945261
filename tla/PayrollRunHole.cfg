SPECIFICATION Spec
CONSTANTS
  Runs = {r1}
  Calls = {c1}
  Users = {u1}
  Periods = {1}
  Leaves = {l1}
  Span <- MCSpan
  None = None
INVARIANTS NoSilentHole
CHECK_DEADLOCK FALSE
