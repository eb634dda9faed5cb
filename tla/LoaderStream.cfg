SPECIFICATION FairSpec
CONSTANTS
  r1 = r1
  r2 = r2
  d1 = d1
  d2 = d2
  d3 = d3
  None = None
  Tested <- OneRequest
  Late = {}
  RunnerStatus = {"Finished", "TimeLimitExceeded"}
  Request <- OneRequest
  Delivery <- TwoDeliveries
  MaxConcurrentContainers = 2
  MaxAttempts = 2
  MaxCrashes = 0
  Faults = {}
CHECK_DEADLOCK FALSE
PROPERTIES
  StreamCompletes
