SPECIFICATION FairSpec
CONSTANTS
  Clients = {a, b}
  Silent = {b}
  Self = Self
  NoClient = NoClient
  Receivers = {r1}
  Error = Error
  Unblock = Unblock
  None = None
  MaxRequests = 2
  MaxUnblocks = 1
INVARIANTS TypeOK AtMostOneAfterClose OneInFlight
PROPERTIES AcceptThreadEnds RequestServed
CHECK_DEADLOCK FALSE
