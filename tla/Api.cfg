SPECIFICATION ApiFairSpec
CONSTANTS
  r1 = r1
  d1 = d1
  d2 = d2
  c1 = c1
  None = None
  RunnerStatus = {"Finished"}
  Request <- OneRequest
  Tested = {}
  Delivery <- TwoDeliveries
  Call <- OneCall
  File = {"output"}
  MaxAttempts = 2
  Faults = {"queue", "repo", "redeliver", "crash"}
CHECK_DEADLOCK FALSE
INVARIANTS
  ReadConsistent
  SourceLoaded
  RowHasMessage
  IdIsUsable
PROPERTIES
  Handled
