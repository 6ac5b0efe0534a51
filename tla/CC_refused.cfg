SPECIFICATION Spec
CONSTANTS
  Users = {u1}
  MaxSlots = 3
  Requests <- Plain
  Failures <- RefusedOnly
  UserOps <- NoOps
  HoldMany = TRUE
PROPERTIES ResponsesInOrder
CHECK_DEADLOCK FALSE
