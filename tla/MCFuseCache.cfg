CONSTANTS
  Batches <- CacheBatches
  Fusers = {"topological"}
  Models = {"BROADEST"}
  Deactivated = FALSE
  MaxInstrs = 4
  MaxSessions = 2
SPECIFICATION Spec
CHECK_DEADLOCK FALSE
INVARIANT
  KernelsAreFusible
