SPECIFICATION Spec
CONSTANTS
  W = 64
  TX_START_DELAY = 1
  TX_MARGIN_DELAY = 1
  TX_JIT_DELAY = 3
  TX_MAX_ADVANCE_DELAY = 13
  BEACON_GUARD = 3
  BEACON_RESERVED = 2
  JIT_QUEUE_MAX = 3
  BEACON_ADVANCE = 12
  POLL_MAX = 1
  TOA <- MCTOA
PROPERTIES
  DropsOnlyMissed
