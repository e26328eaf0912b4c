SPECIFICATION Spec
CONSTANTS
  Timeouts <- MCTimeouts
  MaxTimers = 2
  MaxDepth = 2
  MaxIds = 3
  MaxClock = 3
INVARIANTS
  TableMatchesHandles
PROPERTIES
  NeverEarly
  Punctual
CHECK_DEADLOCK FALSE
