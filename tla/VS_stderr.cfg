SPECIFICATION LiveChildSpec
CONSTANTS
  Calls = {c1, c2}
  WorkerThreads = 1
  PipeSize = 1
PROPERTIES CargoAnswered
CHECK_DEADLOCK FALSE
