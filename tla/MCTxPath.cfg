SPECIFICATION Spec
CONSTANTS
  W = 64
  TX_START_DELAY = 1
  TX_MARGIN_DELAY = 1
  TX_JIT_DELAY = 4
  TX_MAX_ADVANCE_DELAY = 10
  BEACON_GUARD = 3
  BEACON_RESERVED = 2
  JIT_QUEUE_MAX = 2
  TOA <- MCTOA
  Producers = {p1, p2}
  NoTx = NoTx
  LAG_MAX = 3
  POLL_MAX = 2
  RUN_MAX = 1
  PENDING_MAX = 2
  MISREADS <- MCMisreads
  MISREAD_MAX = 1
VIEW Relative
SYMMETRY Symmetric
INVARIANTS
  TypeOK
  NoOverlap
  IndexInUse
  TakesDuePacket
  HandedOverInTime
  BusyMeansForgotten
