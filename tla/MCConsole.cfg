SPECIFICATION RefSpec
CONSTANTS
  LINE_SIZE = 3
  MaxTyped = 4
  HaltText <- MCHaltText
  Leftover = {"1", "NUL"}
INVARIANTS
  ConsoleTypeOK
  ScreenShowsLine
PROPERTIES
  ExecutesWhatWasTyped
