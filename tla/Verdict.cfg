SPECIFICATION Spec
CONSTANTS
  Body = {"a", "b", "long"}
  TooLong = {"long"}
  MaxLines = 2
  MaxWritten = 3
CHECK_DEADLOCK FALSE
INVARIANTS
  KeptExact
  VerdictExact
