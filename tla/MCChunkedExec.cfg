CONSTANTS
  WorldSize = 3
  Garbage = Garbage
  InNelem = 11
  InStrides = {0, 1, 2, 3}
  Shapes1 = {1, 2, 4, 7}
  Shapes2 = {2, 3}
  Ops = {"IDENTITY", "RANGE", "REDUCE"}
  Inst <- MCInst
SPECIFICATION Spec
INVARIANTS
  ResultIsExpected
  ChunksAreRight
  MtmpFits
