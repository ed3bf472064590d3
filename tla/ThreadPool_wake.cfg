SPECIFICATION FairSpec
CONSTANTS
  N = 2
  Ops = {o1}
  NoOp = NoOp
  MaxSchedules = 1
CHECK_DEADLOCK FALSE
PROPERTY WakeReturns
