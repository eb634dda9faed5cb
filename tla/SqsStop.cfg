SPECIFICATION FairSpec
CONSTANTS
  Message = {"m1", "m2"}
  EmptyBody = {"m2"}
  Worker = {"w1", "w2"}
  MaxInFlight = 2
  MaxCrashes = 0
  None = None
PROPERTIES
  StopEndsPolling
CHECK_DEADLOCK FALSE
