CONSTANTS
  Batches <- TransposedBatches
  Fusers = {"topological"}
  Models = {"BROADEST"}
  Deactivated = TRUE
  MaxInstrs = 2
  MaxSessions = 1
SPECIFICATION Spec
CHECK_DEADLOCK FALSE
INVARIANT
  DisjointIsSound
