SPECIFICATION Spec
CONSTANTS
  RUNS = 1
  PATIENT = TRUE
  SLOW = FALSE
INVARIANT NobodyStrays
CHECK_DEADLOCK FALSE
