SPECIFICATION Spec
CONSTANTS
  Worker = worker
  Thieves = {t1, t2}
  Ops = {o1, o2, o3, o4}
  NoOp = NoOp
  W = 4
  InitialSize = 2
  MaxSize = 2
  MemoryLimit = 4
INVARIANTS
  SlotsHoldTheDeque
PROPERTIES
  TakesFromItsEnd
SYMMETRY Symmetry
