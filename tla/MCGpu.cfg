CONSTANTS
  Base = {"a", "b", "s"}
  Imports = {"a"}
  Lists <- MCLists
  Undef = Undef
  NULL = NULL
  Modulus = 5
  MaxCalls = 2
  MaxThreads = 8
SPECIFICATION FairSpec
INVARIANTS
  NoDangling
  ConflictsAreOrdered
  HostIsCurrent
  NothingLeaks
PROPERTIES
  Progress
