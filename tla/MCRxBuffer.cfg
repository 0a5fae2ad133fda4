SPECIFICATION RxSpec
CONSTANTS
  RX_CAPACITY = 4
  Byte = {b1, b2}
INVARIANTS
  RxTypeOK
  FailedIsEmpty
PROPERTIES
  RingIsQueue
