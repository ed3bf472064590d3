SPECIFICATION AnySpec
CONSTANTS
  End = End
  Clients = {c1, c2}
  BufferSize = 2
  MaxBytes = 3
  LatchCount = 2
  MaxResets = 1
  Workers <- MCWorkers
  Threads <- MCThreads
  Coros <- MCCoros
INVARIANTS
  GeneratorEndsAgree
  OneActivation
  WaitersFindWhatTheyWaitedFor
  SignalIsNotLost
  EchoIsTheStream
PROPERTIES
  ProgramsEnd
CHECK_DEADLOCK FALSE
