SPECIFICATION FairSpec
CONSTANTS
  Threads = {t1, t2, t3}
  N = 3
  NoTask = NoTask
  Problems <- MCProblems
INVARIANTS FinishedIsRight FoundOptimal
PROPERTY Terminates
CHECK_DEADLOCK FALSE
