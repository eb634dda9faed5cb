SPECIFICATION FairSpec
CONSTANTS
  Message = {"m1", "m2", "m3"}
  EmptyBody = {"m3"}
  Worker = {"w1", "w2", "w3"}
  MaxInFlight = 2
  MaxCrashes = 1
  None = None
INVARIANTS
  TypeOK
  NoOverlap
  DeletedMeansHandled
PROPERTIES
  BatchEnds
CHECK_DEADLOCK FALSE
