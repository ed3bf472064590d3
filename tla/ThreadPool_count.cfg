SPECIFICATION Spec
CONSTANTS
  N = 3
  Ops = {o1, o2}
  o1 = o1
  o2 = o2
  NoOp = NoOp
  MaxSchedules = 0
INVARIANT ZeroMeansNoSleepers
SYMMETRY Symmetry
CHECK_DEADLOCK FALSE
