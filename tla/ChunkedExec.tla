---------------------------- MODULE ChunkedExec -----------------------------
(***************************************************************************)
(* One instruction of the cluster VEM, executed chunk by chunk on arrays   *)
(* that are distributed over the processes: execute_regular of             *)
(* vem/cluster/exec.cpp, and reduce_vector and ufunc_reduce of             *)
(* vem/cluster/ufunc_reduce.cpp.                                           *)
(*                                                                         *)
(* An element of the input is identified by its position in the input      *)
(* base array.  A value is the bag of input elements that were combined    *)
(* into it, so that an element lost, used twice or read from the wrong     *)
(* place shows.  The messages between the processes are in module Cluster. *)
(***************************************************************************)
EXTENDS Mapping, SequencesExt, Bags

CONSTANTS
  Inst,       \* the instructions: records [op, out, in, shape, axis]
  Garbage     \* what a process reads outside its block

VARIABLES
  inst,       \* the instruction
  chunks,     \* the chunks of mapping_chunks
  c,          \* the next chunk, 0 before the instruction is mapped
  rest,       \* in ufunc_reduce: FALSE in the first loop, TRUE in the second
  local,      \* the blocks of the output base array: <<rank, index>> -> value
  mtmp        \* the master-tmp array of reduce_vector

vars == <<inst, chunks, c, rest, local, mtmp>>

One(x) == SetToBag({x})

(***************************************************************************)
(* The axis that a reduction runs along is put into the output view with   *)
(* stride zero, so that the output can be mapped with the input.           *)
(***************************************************************************)
Broadcast(i) ==
  [i.out EXCEPT !.stride = IF Len(i.shape) = 1 THEN <<0>>
                           ELSE InsertAt(i.out.stride, i.axis, 0)]

IsReduce(i) == i.op = "REDUCE"

Operands(i) ==
  IF i.op = "RANGE" THEN <<i.out>>
  ELSE <<IF IsReduce(i) THEN Broadcast(i) ELSE i.out, i.in>>

Locations(nelem) ==
  {l \in Rank \X (0 .. nelem - 1) : l[2] < array_local_nelem(l[1], nelem)}

Init ==
  /\ inst \in Inst
  /\ chunks = <<>>
  /\ c = 0
  /\ rest = FALSE
  /\ local = [l \in Locations(inst.out.nelem) |-> One(Garbage)]
  /\ mtmp = <<>>

\* Every process maps the instruction to the same chunks.
Map ==
  /\ c = 0
  /\ chunks' = mapping_chunks(Operands(inst), inst.shape)
  /\ c' = 1
  /\ UNCHANGED <<inst, rest, local, mtmp>>

\* Where the code looks for coordinate x of operand o in a chunk: at an offset
\* from the start of the chunk in the block of the process of the chunk.
At(chunk, o, x) ==
  LET op == Operands(inst)[o]
  IN  <<chunk.rank[o],
        LocalPos(op.nelem, Position(op, chunk.coord))
          + Position(op, x) - Position(op, chunk.coord)>>

\* The element of the input that is found there.
Read(loc) ==
  IF loc \in Locations(inst.in.nelem)
  THEN loc[1] * (inst.in.nelem \div WorldSize) + loc[2]
  ELSE Garbage

BoxOf(chunk) == Box(chunk.coord, chunk.shape)

(***************************************************************************)
(* execute_regular: the owner of the output chunk computes it.  BH_RANGE   *)
(* counts from zero in each chunk, so that an offset is added afterwards   *)
(* on every process but the first.                                         *)
(***************************************************************************)
RegularValue(chunk, x) ==
  CASE inst.op = "RANGE" ->
         One(x[1] - chunk.coord[1]
               + IF chunk.rank[1] > 0 THEN chunk.coord[1] ELSE 0)
    [] inst.op = "IDENTITY" -> One(Read(At(chunk, 2, x)))
    [] inst.op = "ACCUMULATE" ->
         BagOfAll(LAMBDA y : Read(At(chunk, 2, y)),
                  SetToBag({y \in BoxOf(chunk) :
                              /\ y[inst.axis] <= x[inst.axis]
                              /\ \A d \in DOMAIN x : d # inst.axis => y[d] = x[d]}))

execute_regular ==
  /\ ~IsReduce(inst)
  /\ c \in 1 .. Len(chunks)
  /\ local' = [l \in DOMAIN local |->
                 LET hits == {x \in BoxOf(chunks[c]) : At(chunks[c], 1, x) = l}
                 IN  IF hits = {} THEN local[l]
                     ELSE RegularValue(chunks[c], CHOOSE x \in hits : TRUE)]
  /\ c' = c + 1
  /\ UNCHANGED <<inst, chunks, rest, mtmp>>

(***************************************************************************)
(* ufunc_reduce: reduce_chunk on the owner of the input chunk, the result  *)
(* sent to the owner of the output chunk.  The chunks of the first row are *)
(* written to the output in a first loop, the others are combined with it  *)
(* in a second one.                                                        *)
(***************************************************************************)
reduce_chunk(chunk, hits) ==
  BagOfAll(LAMBDA y : Read(At(chunk, 2, y)), SetToBag(hits))

\* Mutant: only the first chunk is taken to compute the first row.
FirstChunk(chunk) == chunk = chunks[1]

FirstRow(chunk) == chunk.coord[inst.axis] = 0

InThisLoop(chunk) == FirstRow(chunk) = ~rest

ufunc_reduce ==
  /\ IsReduce(inst) /\ Len(inst.shape) > 1
  /\ c > 0
  /\ IF c > Len(chunks)
     THEN ~rest /\ rest' = TRUE /\ c' = 1 /\ UNCHANGED local
     ELSE /\ local' =
               IF ~InThisLoop(chunks[c]) THEN local
               ELSE [l \in DOMAIN local |->
                       LET hits == {x \in BoxOf(chunks[c]) : At(chunks[c], 1, x) = l}
                       IN  IF hits = {} THEN local[l]
                           ELSE IF FirstRow(chunks[c])
                                THEN reduce_chunk(chunks[c], hits)
                                ELSE local[l] (+) reduce_chunk(chunks[c], hits)]
          /\ c' = c + 1
          /\ UNCHANGED rest
  /\ UNCHANGED <<inst, chunks, mtmp>>

(***************************************************************************)
(* reduce_vector: one scalar per chunk goes to the master-tmp array of the *)
(* owner of the output, which reduces that array in the end.               *)
(***************************************************************************)
reduce_vector ==
  /\ IsReduce(inst) /\ Len(inst.shape) = 1
  /\ c > 0 /\ ~rest
  /\ IF c <= Len(chunks)
     THEN /\ mtmp' = Append(mtmp, reduce_chunk(chunks[c], BoxOf(chunks[c])))
          /\ c' = c + 1
          /\ UNCHANGED <<rest, local>>
     ELSE /\ local' = [local EXCEPT ![At(chunks[1], 1, chunks[1].coord)] =
                         FoldLeft(LAMBDA a, b : a (+) b, EmptyBag, mtmp)]
          /\ rest' = TRUE
          /\ UNCHANGED <<c, mtmp>>
  /\ UNCHANGED <<inst, chunks>>

Finished == c > 0 /\ c > Len(chunks) /\ (IsReduce(inst) => rest)

\* The instruction is done; the next one is another behaviour.
Done == Finished /\ UNCHANGED vars

Next == Map \/ execute_regular \/ ufunc_reduce \/ reduce_vector \/ Done

Spec == Init /\ [][Next]_vars

-----------------------------------------------------------------------------
(***************************************************************************)
(* Reference: what the instruction means on an array that is not           *)
(* distributed.                                                            *)
(***************************************************************************)
Elements(coords) == BagOfAll(LAMBDA y : Position(inst.in, y), SetToBag(coords))

SameBut(x, y, axis) == \A d \in DOMAIN y : d # axis => x[d] = y[d]

Space == Box(Origin(inst.shape), inst.shape)

Expected(x) ==
  CASE inst.op = "RANGE"      -> One(x[1])
    [] inst.op = "IDENTITY"   -> Elements({x})
    [] inst.op = "REDUCE"     -> Elements({y \in Space : SameBut(x, y, inst.axis)})
    [] inst.op = "ACCUMULATE" ->
         Elements({y \in Space : SameBut(x, y, inst.axis) /\ y[inst.axis] <= x[inst.axis]})

\* The element of the output that coordinate x of the iteration space writes.
Result(x) ==
  LET pos == Position(Operands(inst)[1], x)
  IN  local[<<RankOf(inst.out.nelem, pos), LocalPos(inst.out.nelem, pos)>>]

(***************************************************************************)
(* The distributed execution computes what the instruction means: when the *)
(* last chunk of execute_regular, ufunc_reduce or reduce_vector is done,   *)
(* every output element holds the right input elements, each counted once. *)
(***************************************************************************)
ResultIsExpected == Finished => \A x \in Space : Result(x) = Expected(x)

(***************************************************************************)
(* get_chunks covers the view: every coordinate is in one chunk, and in    *)
(* one only, so that no element is computed twice or not at all.           *)
(***************************************************************************)
ChunksPartition ==
  c > 0 => \A x \in Space : Cardinality({k \in 1 .. Len(chunks) : x \in BoxOf(chunks[k])}) = 1

(***************************************************************************)
(* "Finds the largest possible array chunk that is only located on one     *)
(* process" (mapping.cpp:35): every element of every operand of a chunk is *)
(* in the block of the process of the chunk.                               *)
(***************************************************************************)
OnOneProcess ==
  \A k \in 1 .. Len(chunks) : \A o \in 1 .. Len(Operands(inst)) :
    \A x \in BoxOf(chunks[k]) :
      LET op == Operands(inst)[o]
      IN  RankOf(op.nelem, Position(op, x)) = chunks[k].rank[o]

(***************************************************************************)
(* The chunks divide the view, each on one process.                        *)
(***************************************************************************)
ChunksAreRight == ChunksPartition /\ OnOneProcess

(***************************************************************************)
(* The assertion of reduce_vector (ufunc_reduce.cpp:149): the scalars that *)
(* arrive fit in a master-tmp array of pgrid_worldsize elements.           *)
(***************************************************************************)
MtmpFits == Len(mtmp) <= WorldSize
=============================================================================
