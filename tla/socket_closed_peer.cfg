SPECIFICATION FairSpec
CONSTANTS
  MaxPollFds = 3
  MaxFds = 2
  MaxSessions = 1
  MaxDepth = 1
PROPERTIES
  ClosedPeerGoes
CHECK_DEADLOCK FALSE
