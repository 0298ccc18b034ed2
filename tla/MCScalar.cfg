CONSTANTS
  Undef = Undef
  NoConst = NoConst
  FirstTemp = 10
  Batches <- MCCounted
  Initial <- MCInitial
  Stacks <- MCStacks
  Levels = {0, 1, 2, 3}
  Threshold = 1
  Threads = 2
  MaxBatches = 2
  MaxSessions = 2
  MaxFailures = 1
SPECIFICATION Spec
CHECK_DEADLOCK FALSE
PROPERTY
  ImplementsMachine
