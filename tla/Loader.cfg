SPECIFICATION Spec
CONSTANTS
  r1 = r1
  r2 = r2
  d1 = d1
  d2 = d2
  d3 = d3
  None = None
  Tested <- OneRequest
  Late = {}
  RunnerStatus = {"Finished", "TimeLimitExceeded"}
  Request <- TwoRequests
  Delivery <- ThreeDeliveries
  MaxConcurrentContainers = 2
  MaxAttempts = 2
  MaxCrashes = 0
  Faults = {"error", "lostReply", "kill"}
SYMMETRY DeliverySymmetry
CHECK_DEADLOCK FALSE
INVARIANTS
  TypeOK
  ResponseRegistered
  VerdictFaithful
  AnsweredMeansReported
  ResultIsOwn
  FilesBeforeRecord
PROPERTIES
  ClosedFrozen
  ResultStable
