------------------------------ MODULE Mapping -------------------------------
(***************************************************************************)
(* How the cluster VEM splits an instruction on global arrays into chunks  *)
(* (vem/cluster/mapping.cpp).  A base array of nelem elements is           *)
(* distributed in consecutive blocks over the processes; a chunk is a box  *)
(* of the iteration space together with the process that holds the         *)
(* elements of each operand.                                               *)
(*                                                                         *)
(* An operand is a record [nelem, start, stride]: the size of its base     *)
(* array, the position of its first element and one stride per dimension.  *)
(* Constant operands map to no process and are left out.  Dimensions are   *)
(* counted from 1 and coordinates, positions and ranks from 0.             *)
(***************************************************************************)
EXTENDS Integers, Sequences, FiniteSetsExt

CONSTANT WorldSize     \* pgrid_worldsize, the number of processes

ASSUME WorldSizeAssumption == WorldSize \in Nat \ {0}

Rank == 0 .. WorldSize - 1

\* The number of elements of a base array that one process holds.
array_local_nelem(rank, nelem) ==
  nelem \div WorldSize + IF rank = WorldSize - 1 THEN nelem % WorldSize ELSE 0

\* The process that holds position pos of a base array.
RankOf(nelem, pos) ==
  IF nelem \div WorldSize > 0
  THEN Min({pos \div (nelem \div WorldSize), WorldSize - 1})
  ELSE WorldSize - 1

\* The position, in the block of that process, of position pos.
LocalPos(nelem, pos) == pos - RankOf(nelem, pos) * (nelem \div WorldSize)

\* The position in the base array of one coordinate of the operand.
Position(op, coord) ==
  FoldFunction(+, op.start, [d \in 1 .. Len(op.stride) |-> coord[d] * op.stride[d]])

\* One sequence after the other.
Concat(seqs) ==
  LET upto[i \in 0 .. Len(seqs)] == IF i = 0 THEN <<>> ELSE upto[i - 1] \o seqs[i]
  IN  upto[Len(seqs)]

CeilDiv(x, y) == -((-x) \div y)

(***************************************************************************)
(* The extent of the box for one operand: dimension by dimension, as many  *)
(* elements as the block has room for after the offset of the dimensions   *)
(* before it.                                                              *)
(***************************************************************************)
\* Mutant: the offset of the earlier dimensions is forgotten.
ExtentNoOffset(op, start, end) ==
  LET pos  == Position(op, start)
      room == array_local_nelem(RankOf(op.nelem, pos), op.nelem)
                - LocalPos(op.nelem, pos)
  IN  [d \in 1 .. Len(start) |->
         IF op.stride[d] > 0
         THEN Min({CeilDiv(room, op.stride[d]), end[d] - start[d]})
         ELSE end[d] - start[d]]

Extent(op, start, end) ==
  LET pos  == Position(op, start)
      room == array_local_nelem(RankOf(op.nelem, pos), op.nelem)
                - LocalPos(op.nelem, pos)
      grow(prev, d) ==
        LET max_dim == end[d] - start[d]
            dim     == IF op.stride[d] > 0
                       THEN Min({CeilDiv(room - prev.offset, op.stride[d]), max_dim})
                       ELSE max_dim
        IN  [dims   |-> Append(prev.dims, dim),
             offset |-> prev.offset + (dim - 1) * op.stride[d]]
      acc[d \in 0 .. Len(start)] ==
        IF d = 0 THEN [dims |-> <<>>, offset |-> 0] ELSE grow(acc[d - 1], d)
  IN  acc[Len(start)].dims

(***************************************************************************)
(* find_largest_chunk: the box that starts at coordinate start and stays   *)
(* within one process for every operand, at most up to end.                *)
(***************************************************************************)
\* Mutant: the box does not grow beyond its first element.
SmallestChunk(ops, start, end) ==
  [coord |-> start,
   shape |-> [d \in 1 .. Len(start) |-> 1],
   rank  |-> [o \in 1 .. Len(ops) |-> RankOf(ops[o].nelem, Position(ops[o], start))]]

find_largest_chunk(ops, start, end) ==
  [coord |-> start,
   shape |-> [d \in 1 .. Len(start) |->
                Min({Extent(ops[o], start, end)[d] : o \in 1 .. Len(ops)})],
   rank  |-> [o \in 1 .. Len(ops) |-> RankOf(ops[o].nelem, Position(ops[o], start))]]

(***************************************************************************)
(* get_chunks: the box at the start coordinate, then in the same way each  *)
(* of the other corners of the space it leaves, the last dimension first.  *)
(***************************************************************************)
\* Mutant: the corner opposite to the box is never visited.
LastCornerMissed(ndim) == 2^ndim - 2

\* The corners other than the box itself.
LastCorner(ndim) == 2^ndim - 1

get_chunks(ops, start, end) ==
  LET ndim  == Len(start)
      Coord == [1 .. ndim -> 0 .. Max(Range(end) \union {0})]
      get[r \in Coord \X Coord] ==
        IF \E d \in 1 .. ndim : r[1][d] >= r[2][d]
        THEN <<>>
        ELSE LET chunk == find_largest_chunk(ops, r[1], r[2])
                 next  == [d \in 1 .. ndim |-> r[1][d] + chunk.shape[d]]
                 far(k, d)  == (k \div 2^(ndim - d)) % 2 = 1
                 corner(k)  ==
                   get[<<[d \in 1 .. ndim |-> IF far(k, d) THEN next[d] ELSE r[1][d]],
                         [d \in 1 .. ndim |-> IF far(k, d) THEN r[2][d] ELSE next[d]]>>]
             IN  <<chunk>> \o Concat([k \in 1 .. LastCorner(ndim) |-> corner(k)])
  IN  get[<<start, end>>]

mapping_chunks(ops, shape) ==
  get_chunks(ops, [d \in 1 .. Len(shape) |-> 0], shape)

-----------------------------------------------------------------------------
\* The coordinates of a box.
Box(coord, shape) ==
  {c \in [1 .. Len(shape) -> 0 .. Max({coord[d] + shape[d] : d \in 1 .. Len(shape)})] :
     \A d \in 1 .. Len(shape) : coord[d] <= c[d] /\ c[d] < coord[d] + shape[d]}

Origin(shape) == [d \in 1 .. Len(shape) |-> 0]
=============================================================================
