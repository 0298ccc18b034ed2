CONSTANTS
  Base = {"a", "b", "s"}
  Imports = {"a", "b"}
  Lists <- MCLists
  Undef = Undef
  NULL = NULL
  Modulus = 5
  MaxCalls = 2
  MaxThreads = 8
SPECIFICATION Spec
INVARIANT
  HostIsCurrent
