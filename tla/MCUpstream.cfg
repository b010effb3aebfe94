SPECIFICATION Spec
CONSTANTS
  PERIOD = 3
  WRAPS = 2
  LOW = 2
  PACKETS = 3
  RESTARTS = 1
  FORWARD <- ValidOnly
VIEW View
INVARIANTS
  TypeOK
  StampExact
  MetaOfPayload
  OverwrittenByLater
  HeldOnce
  CountersAgree
PROPERTIES
  InOrder
  Examined
CHECK_DEADLOCK FALSE
