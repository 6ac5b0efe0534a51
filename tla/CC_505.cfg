SPECIFICATION FairSpec
CONSTANTS
  Users = {u1}
  MaxSlots = 3
  Requests <- Plain
  Failures <- VersionOnly
  UserOps <- NoOps
  HoldMany = FALSE
PROPERTIES VersionAnswered
CHECK_DEADLOCK FALSE
