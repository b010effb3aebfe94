SPECIFICATION FairSpec
CONSTANTS
  RUNS = 2
  PATIENT = TRUE
  SLOW = FALSE
INVARIANTS
  TypeOK
  LoopHasHandler
  OneReceiver
  CleanEnd
PROPERTY StopEndsRun
CHECK_DEADLOCK FALSE
