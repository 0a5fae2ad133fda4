SPECIFICATION Spec
CONSTANTS
  RX_CAPACITY = 3
  Byte <- MCByte
  FIFO_DEPTH = 2
  POLL_LIMIT = 2
  MaxBytes = 5
  Faults = {"overrun", "break", "device"}
INVARIANTS
  SerialTypeOK
  NoSleepWithInput
  BoundMeansLoss
PROPERTIES
  StreamContract
