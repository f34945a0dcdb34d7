SPECIFICATION Spec
CONSTANTS
  HEARTBEAT_TICKS = 2
  RECONNECT_TICKS = 2
  MAX_MISSED = 3
  MAX_ATTEMPTS = 3
  BackoffAfter = 1
  TickSize = 6
  Bytes = {0, 1}
  Watch = 6
INVARIANTS
  TypeOK
  DeadPeerNoticed
PROPERTIES
  NoEarlyDrop
  OnlySentPayloads
