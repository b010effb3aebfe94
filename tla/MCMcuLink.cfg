SPECIFICATION Spec
CONSTANTS
  SENDS <- MCSends
  BULK_SIZE = 3
  REQ_MAX = 4
  REQ_MOD = 5
  GPIO_NB = 2
  JUNK_TYPES = {"none", "multi"}
  JUNK_SIZES = {0, 1}
  STREAM_MAX = 1
INVARIANTS
  TypeOK
  InSync
  CleanBetweenCalls
  OnlyRequestsSent
PROPERTIES
  CallReturns
  Promised
