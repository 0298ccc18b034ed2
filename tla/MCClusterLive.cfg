CONSTANTS
  WorldSize = 2
  Arys <- MCArys
  Nelem <- MCNelem
  Val = {1, 2}
  Undef = 9
  NULL = NULL
  BhIRs <- MCBhIRs
  Writes <- MCWrites
  MaxCalls = 2
SPECIFICATION FairSpec
CHECK_DEADLOCK FALSE
PROPERTIES
  CallsReturn
  ShutdownReachesAll
