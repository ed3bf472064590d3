SPECIFICATION Spec
CONSTANTS
  N = 2
  Ops = {o1, o2}
  o1 = o1
  o2 = o2
  NoOp = NoOp
  MaxSchedules = 1
INVARIANTS
  OnePlace
  BlockedIsFindable
  NoStrandedWork
SYMMETRY Symmetry
CHECK_DEADLOCK FALSE
