CONSTANTS
  b1 = b1
  b2 = b2
  b3 = b3
  Base <- MCBase
  Bytes <- MCBytes
  Addr = {a1, a2, a3, a4}
  NULL = NULL
  Size = 2
SYMMETRY AddrSymmetry
SPECIFICATION Spec
INVARIANTS
  SoleOwner
  SizesAgree
  NoLeak
