CONSTANTS
  Named = {x, y}
  Temp = {s, t}
  BhBase = {b1, b2}
  BH_CPP_QUEUE_MAX = 2
SYMMETRY Symmetry
CHECK_DEADLOCK FALSE
SPECIFICATION Spec
INVARIANTS
  QueueFits
  NothingDangles
  RefCountsAgree
  NothingLeaks
