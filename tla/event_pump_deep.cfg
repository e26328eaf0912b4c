SPECIFICATION Spec
CONSTANTS
  owning = owning
  plain = plain
  h1 = h1
  h2 = h2
  EventIds <- MCEventIds
  OwnsData <- MCOwnsData
  Keys <- MCKeys
  NoId = NoId
  MaxQueueSize = 2
  PurgeBatch = 1
  MaxDepth = 3
  MaxEvents = 3
  MaxRegs = 2
PROPERTIES
  TakenAtMostOnce
