SPECIFICATION FairSpec
CONSTANTS
  Users = {u1, u2}
  MaxSlots = 3
  Requests <- MixedRequests
  Failures <- Failing
  UserOps <- AllOps
  HoldMany = FALSE
INVARIANTS TypeOK OneNotification
PROPERTIES OrderKept EveryRequestAnswered BodyIsNotParsed ConnectionCloses RespondReturns
CHECK_DEADLOCK FALSE
