SPECIFICATION Spec
CONSTANTS
  Regs = {r1}
  Workers = {w1, w2}
  Device = Device
  LastMinute = 2
  Clocked = {2}
  Proposal <- Sooner
  MaxRows = 2
  MaxGrants = 1
  MaxMoves = 1
  None = None
SYMMETRY Sym
INVARIANTS TypeOK FeedNeverMoves CeilingHolds RegularizedOnce
PROPERTY FrozenForGood
CHECK_DEADLOCK FALSE
