CONSTANTS
  Base = {"a", "b"}
  View = {"v", "w"}
  BaseOf <- MCBaseOf
  Address <- MCAddress
  Bytes = 8
  Offset = {0, 1}
  MaxGen = 3
  MaxWrites = 3
SPECIFICATION Spec
INVARIANTS
  NeverKilled
