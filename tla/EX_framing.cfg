SPECIFICATION FairSpec
CONSTANTS
  Requests <- AllRequests
  Statuses <- SomeStatuses
  MaxBody = 2
  MaxSent = 2
  MaxRead = 2
  BUFFERED = 1
  THRESHOLD = 2
  None = None
INVARIANTS TypeOK EofMeansEnd ResponseUnderstood
PROPERTIES FramingKept WaitsEnd
CHECK_DEADLOCK FALSE
