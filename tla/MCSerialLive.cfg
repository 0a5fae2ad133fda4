SPECIFICATION FairSpec
CONSTANTS
  RX_CAPACITY = 3
  Byte <- MCByte
  FIFO_DEPTH = 2
  POLL_LIMIT = 2
  MaxBytes = 4
  Faults = {"break"}
INVARIANTS
  LineServed
PROPERTIES
  InputConsumed
