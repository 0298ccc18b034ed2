CONSTANTS
  Rank = {0, 1, 2}
  Comms <- MCComms
SPECIFICATION Spec
INVARIANTS
  RightMessage
  NeverStuck
