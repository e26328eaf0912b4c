SPECIFICATION Spec
CONSTANTS
  MaxPollFds = 3
  MaxFds = 2
  MaxSessions = 3
  MaxDepth = 2
INVARIANTS
  EntriesMatch
  NoneForgotten
  WriteInterest
  DanglesOnlyNested
CHECK_DEADLOCK FALSE
