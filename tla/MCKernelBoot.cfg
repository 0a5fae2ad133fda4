SPECIFICATION Spec
CONSTANTS
  Lines <- MCLines
  MaxTicks = 2
  Drivers = {7, 15}
  MaxDriverCalls = 2
INVARIANTS
  EventsHandled
  EveryInterruptEnded
  UnexpectedBounded
  NoFalseStop
PROPERTIES
  InterruptsServed
