SPECIFICATION ApiSpec
CONSTANTS
  r1 = r1
  d1 = d1
  d2 = d2
  c1 = c1
  None = None
  RunnerStatus = {"Finished", "TimeLimitExceeded"}
  Request <- OneRequest
  Tested <- OneRequest
  Delivery <- TwoDeliveries
  Call <- OneCall
  File = {"output", "outputErr"}
  MaxAttempts = 2
  Faults = {}
CHECK_DEADLOCK FALSE
INVARIANTS
  ResultVisible
