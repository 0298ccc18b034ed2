CONSTANTS
  Batches <- PairBatches
  Fusers = {"singleton", "topological", "gentle", "greedy"}
  Models <- MCModels
  Deactivated = FALSE
  MaxInstrs = 4
  MaxSessions = 2
SPECIFICATION Spec
CHECK_DEADLOCK FALSE
INVARIANTS
  DagIsValid
  NothingLost
  OrderIsKept
  FusedLoopsAgree
  OwnKernelsAreFusible
  ViewsAreSound
PROPERTY
  GreedyAdvances
