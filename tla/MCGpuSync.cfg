CONSTANTS
  Base = {"a", "b", "s"}
  Imports = {"a"}
  Lists <- SyncsElsewhere
  Undef = Undef
  NULL = NULL
  Modulus = 5
  MaxCalls = 2
  MaxThreads = 8
SPECIFICATION Spec
INVARIANT
  NoDangling
