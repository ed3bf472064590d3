SPECIFICATION Spec
CONSTANTS
  Coros = {1, 2}
  Threads = {0, 3, 4}
  Main = 0
  IoThreads = {3, 4}
  Pollers = {4}
  MaxTime = 2
  MaxResets = 1
  Scenarios <- MCScenarios
INVARIANTS
  OneActivation
  NothingUsesAFinishedOperation
  StopReachesEveryThread
  TimerThreadIsWoken
PROPERTY ServiceEnds
CHECK_DEADLOCK FALSE
