SPECIFICATION AnySpec
CONSTANTS
  writer = writer
  network = network
  ui = ui
  main = main
  NoTask = NoTask
  NoQueue = NoQueue
  Tasks = {1, 2, 3, 4}
  Queues = {writer, network, ui}
  Clients = {main}
  MaxSpurious = 1
  Coros = {c1, c2, c3, c4}
  NotLocked = NotLocked
  NoWaiters = NoWaiters
INVARIANTS
  OneCarrier
  CleanBetweenTests
  MutualExclusion
  SuspendedAreQueued
PROPERTIES
  StraightLine
  ShutdownFindsTheLoopRunning
  EveryoneGoesOn
  FirstComeFirstServed
CHECK_DEADLOCK FALSE
