SPECIFICATION FairSpec
CONSTANTS
  r1 = r1
  r2 = r2
  d1 = d1
  d2 = d2
  d3 = d3
  None = None
  Tested <- OneRequest
  Late = {}
  RunnerStatus = {"Finished", "TimeLimitExceeded"}
  Request <- TwoRequests
  Delivery <- ThreeDeliveries
  MaxConcurrentContainers = 1
  MaxAttempts = 2
  MaxCrashes = 0
  Faults = {"error", "lostReply", "kill", "redeliver"}
CHECK_DEADLOCK FALSE
INVARIANTS
  BlockedOnlyByLeak
PROPERTIES
  HandlerReturns
  RemovalHandled
  Implements
