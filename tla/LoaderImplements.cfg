SPECIFICATION Spec
CONSTANTS
  r1 = r1
  r2 = r2
  d1 = d1
  d2 = d2
  d3 = d3
  None = None
  Tested <- OneRequest
  Late <- OneRequest
  RunnerStatus = {"Finished", "TimeLimitExceeded"}
  Request <- OneRequest
  Delivery <- TwoDeliveries
  MaxConcurrentContainers = 2
  MaxAttempts = 2
  MaxCrashes = 1
  Faults = {"error", "lostReply", "kill", "stream", "files", "repo", "remove"}
SYMMETRY DeliverySymmetry
CHECK_DEADLOCK FALSE
INVARIANTS
  IInv
  SlotAccounting
  NoDoubleClose
PROPERTIES
  Implements
