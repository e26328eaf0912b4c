SPECIFICATION Spec
CONSTANTS
  Alphabets <- MCAlphabets
  Methods <- MCMethods
  Undefined <- MCUndefined
  Reserved <- MCReserved
INVARIANTS
  MeansWhatItSays
  CallsAsWritten
  AcceptsOnlyClosed
CHECK_DEADLOCK FALSE
