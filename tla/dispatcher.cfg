SPECIFICATION DFairSpec
CONSTANTS
  ready = ready
  change = change
  scene = scene
  a1 = a1
  a2 = a2
  EventIds <- MCEventIds
  OwnsData <- MCOwnsData
  Keys <- MCKeys
  Addresses <- MCAddresses
  WaitIds <- MCWaitIds
  SceneId = change
  SceneKey = scene
  NoId = NoId
  MaxQueueSize = 2
  PurgeBatch = 2
  MaxDepth = 2
  MaxEvents = 2
  MaxRegs = 4
  MaxTimers = 2
  MaxWaits = 2
PROPERTIES
  WaitsUnwind
  LoneWaitSound
