SPECIFICATION Spec
CONSTANTS
  W = 16
  TX_START_DELAY = 0
  TX_MARGIN_DELAY = 0
  TX_JIT_DELAY = 2
  TX_MAX_ADVANCE_DELAY = 7
  BEACON_GUARD = 1
  BEACON_RESERVED = 1
  JIT_QUEUE_MAX = 2
  TOA <- MCTOA
  GPS_REF_MAX_AGE = 1
  NB_CHAN = 2
  PERIOD = 2
  JIT_NUM_BEACON_IN_QUEUE = 1
  XERR_INIT_AVG = 1
  SETTINGS <- MCSettings
  CLOCK_ERRORS <- MCClock
  NoTx = NoTx
  NOW_MAX = 5
  FAULT_MAX = 1
  SLOT_MAX = 8
  OFFSET = 12
  MISREADS <- MCMisreads
  DOWNLINKS <- MCDownlinks
  MEMORY <- MCMemory
  UNSET <- MCUnset
VIEW View
INVARIANTS
  TypeOK
  BeaconAtItsTime
  BeaconSlot
  ReferenceRecent
  ScanExclusive
  ScanReported
CHECK_DEADLOCK FALSE
PROPERTIES
  ThreadsEnd
