--------------------------- MODULE MCChunkedExec ----------------------------
(***************************************************************************)
(* All views with small strides of two base arrays over three processes,   *)
(* with one and two dimensions.  The input base is not a multiple of the   *)
(* number of processes, and one output base is smaller than it.            *)
(***************************************************************************)
EXTENDS ChunkedExec

CONSTANTS
  InNelem,      \* the number of elements of the input base array
  InStrides,    \* the strides of input views
  Shapes1,      \* the number of elements of one-dimensional views
  Shapes2,      \* the number of rows and columns of two-dimensional views
  Ops           \* the operations

\* The views of a base array whose elements all lie in it.
Views(nelem, strides, shape) ==
  {v \in [nelem : {nelem}, start : 0 .. nelem - 1, stride : [1 .. Len(shape) -> strides]] :
     \A x \in Box(Origin(shape), shape) : Position(v, x) \in 0 .. nelem - 1}

\* Contiguous views at a small offset, row-major and column-major.
Contiguous(shape) ==
  IF Len(shape) = 1
  THEN {[nelem |-> shape[1] + e, start |-> s, stride |-> <<1>>] : e \in 1 .. 2, s \in 0 .. 1}
  ELSE {[nelem |-> shape[1] * shape[2] + 1, start |-> s, stride |-> st] :
          s \in 0 .. 1, st \in {<<shape[2], 1>>, <<1, shape[1]>>}}

Shapes == {<<n>> : n \in Shapes1} \union {<<m, n>> : m \in Shapes2, n \in Shapes2}

OutViews(op, shape, axis) ==
  IF op # "REDUCE" THEN Contiguous(shape)
  ELSE IF Len(shape) = 1
       THEN {[nelem |-> n, start |-> n - 1, stride |-> <<1>>] : n \in {1, 4}}
       ELSE Contiguous(RemoveAt(shape, axis))

Insts(op, shape, axis) ==
  [op : {op}, shape : {shape}, axis : {axis},
   out : OutViews(op, shape, axis), in : Views(InNelem, InStrides, shape)]

MCInst ==
  UNION {Insts(op, shape, axis) :
           op \in Ops \ {"RANGE"}, shape \in Shapes, axis \in {1}}
    \union UNION {Insts(op, <<m, n>>, 2) :
           op \in Ops \intersect {"REDUCE", "ACCUMULATE"}, m \in Shapes2, n \in Shapes2}
    \union UNION {Insts(op, <<n>>, 1) : op \in Ops \intersect {"RANGE"}, n \in Shapes1}
=============================================================================
