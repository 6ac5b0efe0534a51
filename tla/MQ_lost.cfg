SPECIFICATION FairSpec
CONSTANTS
  Consumers = {c1, c2}
  Values = {v1}
  Unblock = Unblock
  None = None
  Calls <- TimedCalls
  Timeout = 1
  MaxSent = 2
PROPERTIES BlockedPopReturns
CHECK_DEADLOCK FALSE
