SPECIFICATION FairSpec
CONSTANTS
  W = 40
  TX_START_DELAY = 1
  TX_MARGIN_DELAY = 1
  TX_JIT_DELAY = 2
  TX_MAX_ADVANCE_DELAY = 8
  BEACON_GUARD = 1
  BEACON_RESERVED = 2
  JIT_QUEUE_MAX = 3
  BEACON_ADVANCE = 8
  POLL_MAX = 6
  TOA <- MCTOA
INVARIANTS
  NoOverlap
  BeaconCount
  Sorted
PROPERTIES
  QueuedPacketLeaves
  Refines
