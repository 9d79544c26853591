SPECIFICATION Spec
CONSTANTS
  MaxPayments = 4
  MaxTime = 2
  Service = {"orders", "rides"}
  defaultLimit = 1
  maxPageSize = 2
INVARIANTS NewestFirst NoneSkipped
CHECK_DEADLOCK FALSE
