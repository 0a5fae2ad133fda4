SPECIFICATION FairSpec
CONSTANTS
  RX_CAPACITY = 2
  Byte <- MCByte
  FIFO_DEPTH = 2
  POLL_LIMIT = 2
  MaxBytes = 6
  Faults = {"overrun"}
PROPERTIES
  InputRecovers
