SPECIFICATION Spec
CONSTANTS
  RUNS = 1
  PATIENT = TRUE
  SLOW = TRUE
INVARIANT LoopHasHandler
CHECK_DEADLOCK FALSE
