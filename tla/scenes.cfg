SPECIFICATION FairSpec
CONSTANTS
  NoItem = NoItem
  DefaultHashSize = 7
  KeyBound = 32
  Names <- MCNames
  Crc <- MCCrc
  Startup <- MCStartup
  DeviceEvents <- MCDeviceEvents
  Services <- MCServices
  NewSources <- MCNewSources
  NewConditions <- MCNewConditions
  NewActions <- MCNewActions
  NewArguments <- MCNewArguments
  MaxEvents = 2
  MaxEdits = 2
  MaxInputs = 3
INVARIANTS
  ArgumentsHold
  NothingLeftBehind
PROPERTIES
  EachSceneOnce
  RunsEnd
CHECK_DEADLOCK FALSE
