CONSTANTS
  TimerTargets <- MCTargets
  Timeouts = {1}
  MaxStarted = 3
  MaxConfigured = 1
  TimeLists <- MCDatedLists
  Readings <- MCDates
  JobActions = {"a", "b"}
  MaxJobs = 2
  WeatherSettings = {u, v}
  CacheTimeouts = {1, 2}
  WeatherClock = 2
  DeviceNames = {a, b}
  DeviceInstances = {1}
  UserNames = {u0}
  PumpEntries = 2
  MaxAdded = 2
  StationSettings = {s, t}
  StationCameras <- MCCameras
  MaxEvents = 2
  MaxCells = 5
  Installed <- MCCommands
  Kind <- MCKind
  Short <- MCShort
  Numbers <- MCNumbers
  TypedLines <- MCLines
  Letters <- MCLetters
  Reads <- MCReads
  Keywords <- MCKeywords
  LineSize = 3
  HistorySizes = {1}
  Editors = {A, B}
  EditLines <- MCEditLines
  StartupFiles <- MCStartupFiles
  MaxEdits = 3
  MaxSaves = 2
  MaxForks = 3
  StoredScripts = 1
  ZWaveDevices = {d1, d2}
  Called <- MCCalled
  MaxRequests = 2
  MaxAsking = 2
  HolderChildren = {c1, c2}
  MaxListeners = 2
  MaxMissed = 2
  NoItem = NoItem
  DefaultHashSize = 7
  KeyBound = 64
  Keys = {3, 10, 20, 44}
  Data = {d1, d2}
  MaxSize = 60
INIT Init
NEXT Next
INVARIANTS TimersListed NamesResolve MotionEnds SessionCurrent StationMotionEnds ListsAreSequences RunsWhatIsTyped
  ScreenShowsLine RestartKeepsScenes LastSaveKept
  OneHomebridge LoneAnswerFresh MissesAtMostOne
PROPERTIES JobsAsWritten WeatherCurrent ImplementsMap IterationComplete
SYMMETRY Symmetry
CHECK_DEADLOCK FALSE
