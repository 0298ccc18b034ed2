CONSTANTS
  WorldSize = 3
  Arys <- MCArys
  Nelem <- MCNelem
  Val = {1, 2}
  Undef = 9
  NULL = NULL
  BhIRs <- MCBhIRs
  Writes <- MCWrites
  MaxCalls = 3
SPECIFICATION Spec
INVARIANTS
  TablesAgree
  MessagesMatch
PROPERTY
  ImplementsVem
