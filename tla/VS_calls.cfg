SPECIFICATION FairSpec
CONSTANTS
  Calls = {c1, c2}
  WorkerThreads = 1
  PipeSize = 1
INVARIANTS TypeOK ResultComplete NoOrphan
PROPERTIES WorkerComesFree CargoAnsweredIfServed ExitedChildReaped ServerStops
CHECK_DEADLOCK FALSE
