SPECIFICATION AnySpec
CONSTANTS
  Queues = {a, b}
  Clients = {m1, m2}
  Tasks = {x, y, z}
  NoTask = NoTask
  MaxSpurious = 1
  Waiters = {x, y, z}
  Setters = {a, b}
  MaxCalls = 2
INVARIANTS
  NoLostTaskWakeup
  TakenInPushOrder
  OneOwnerOfTheWaiters
  OneAwaitPerSet
PROPERTIES
  ReturnsOnlyDrained
CHECK_DEADLOCK FALSE
SYMMETRY Symmetry
