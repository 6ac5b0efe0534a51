SPECIFICATION FairSpec
CONSTANTS
  Consumers = {c1, c2, c3}
  Values = {v1}
  Unblock = Unblock
  None = None
  Calls <- AllCalls
  Timeout = 2
  MaxSent = 2
INVARIANTS TypeOK NoLostWakeup BlocksLessThanTwice
PROPERTIES ImplementsLog PopReturnsUnlessStranded
CHECK_DEADLOCK FALSE
