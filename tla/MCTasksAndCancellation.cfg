SPECIFICATION AnySpec
CONSTANTS
  NoResult = NoResult
  Users <- MCUsers
  Threads <- MCThreads
  Coros <- MCCoros
  ThreadOf <- MCThreadOf
  Main = 0
  Implementations = {"futex", "address", "kernel"}
  t1 = t1
  t2 = t2
  t3 = t3
  Callers = {t1, t2, t3}
  NoThread = NoThread
  Registrations = {r1, r2}
  Empty = Empty
  ListCount = 2
  ListOf <- TwoLists
  ChunkSize = 1
  MaxSlots = 2
  MaxSources = 2
INVARIANTS
  OneActivation
  FramesOutliveUsers
  ParentFindsTheResults
  StateOutlivesItsUsers
  CalledAtMostOnce
  NobodyIsPassedOver
PROPERTIES
  WaitsEnd
  DestructorOutlastsCallback
CHECK_DEADLOCK FALSE
