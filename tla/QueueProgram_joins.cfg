SPECIFICATION FairProgramSpec
CONSTANTS
  writer = writer
  network = network
  ui = ui
  main = main
  NoTask = NoTask
  NoQueue = NoQueue
  Tasks = {1, 2, 3, 4}
  Queues = {writer, network, ui}
  Clients = {main}
  MaxSpurious = 1
PROPERTY JoinsReturn
CHECK_DEADLOCK FALSE
