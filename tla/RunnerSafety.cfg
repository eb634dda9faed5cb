SPECIFICATION FairSpec
CONSTANTS
  CompileSteps = 2
  ExecutionMemory = 2
  MaxMemory = 2
  Page = {1, 2}
  MaxWords = 3
CHECK_DEADLOCK FALSE
INVARIANTS
  TypeOK
  UsageAfterWait
  FinishedIsClean
  MemoryVerdictSound
  KilledIsReported
PROPERTIES
  RunnerEnds
