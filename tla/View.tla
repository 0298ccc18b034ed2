------------------------------- MODULE View ---------------------------------
(***************************************************************************)
(* Views and instructions (core/bh.cpp).  A view selects elements of a     *)
(* base array: a start and, per dimension, a shape and a stride.  Shapes   *)
(* are positive and strides natural numbers: empty and reversed views are  *)
(* not modelled.                                                           *)
(*                                                                         *)
(* An instruction has an opcode and its views, the output first.  Constant *)
(* operands touch no array and are left out.  A filter that removes an     *)
(* instruction changes the opcode to BH_NONE and leaves the operands.      *)
(***************************************************************************)
EXTENDS Integers, Sequences, FiniteSets, SequencesExt, FiniteSetsExt

\* Opcodes are given by their class: a system instruction, "ELEMENTWISE", "REDUCE", "ACCUMULATE",
\* the generators "RANGE" and "RANDOM", "MATMUL", or "EXTENSION".
SystemOp == {"NONE", "SYNC", "FREE", "DISCARD"}

bh_opcode_is_system(op) == op \in SystemOp
bh_opcode_is_sweep(op) == op \in {"REDUCE", "ACCUMULATE"}

\* The operands that count, and the bases they belong to.
operands(instr) == IF instr.opcode = "NONE" THEN <<>> ELSE instr.operand
Bases(instr) == {v.base : v \in ToSet(operands(instr))}

-----------------------------------------------------------------------------
(***************************************************************************)
(* The elements a view stands for, in the order of its iterations.         *)
(***************************************************************************)
shape(view) == [i \in DOMAIN view.dim |-> view.dim[i].shape]
ndim(view) == Len(view.dim)
bh_nelements(view) == FoldLeft(LAMBDA n, d : n * d.shape, 1, view.dim)

Pattern(view) ==
  LET Inner(i) == FoldLeft(LAMBDA n, d : n * d.shape, 1, SubSeq(view.dim, i + 1, ndim(view)))
      At(k, i) == ((k \div Inner(i)) % view.dim[i].shape) * view.dim[i].stride
  IN  [k \in 0 .. bh_nelements(view) - 1 |->
         view.start + MapThenSumSet(LAMBDA i : At(k, i), DOMAIN view.dim)]

Elements(view) == Range(Pattern(view))

Overlap(a, b) == a.base = b.base /\ Elements(a) \intersect Elements(b) # {}

-----------------------------------------------------------------------------
bh_nelements_nbcast(view) ==
  FoldLeft(LAMBDA n, d : IF d.stride > 0 THEN n * d.shape ELSE n, 1, view.dim)

bh_is_scalar(view) == bh_nelements(view) = 1

gcd[p \in Nat \X Nat] == IF p[2] = 0 THEN p[1] ELSE gcd[<<p[2], p[1] % p[2]>>]

\* Mutant: dimensions are merged whenever their strides are multiples.
MergeMultiples(res, d) ==
  IF d.shape = 1 THEN res
  ELSE IF d.stride > 0 /\ Last(res).stride % d.stride = 0
  THEN [res EXCEPT ![Len(res)] = [shape |-> @.shape * d.shape, stride |-> d.stride]]
  ELSE Append(res, d)

\* Dimension d after the dimensions res: skipped, merged into the last, or added.
Merge(res, d) ==
  IF d.shape = 1 THEN res
  ELSE IF d.shape * d.stride = Last(res).stride
  THEN [res EXCEPT ![Len(res)] = [shape |-> @.shape * d.shape, stride |-> d.stride]]
  ELSE Append(res, d)

bh_view_simplify(view) ==
  LET n == ndim(view)
      i == Min({n} \union {j \in 1 .. n : view.dim[j].shape # 1})
  IN  [view EXCEPT !.dim = FoldLeft(Merge, <<view.dim[i]>>, SubSeq(view.dim, i + 1, n))]

bh_view_aligned(a, b) == bh_view_simplify(a) = bh_view_simplify(b)

\* Mutant: the starts are not reduced by the dimensions that were compared.
CompareStarts(a, b, before, i) ==
  LET stride == gcd[<<a.dim[i].stride, b.dim[i].stride>>]
      as == before.a \div stride
      bs == before.b \div stride
      ae == as + a.dim[i].shape * (a.dim[i].stride \div stride)
      be == bs + b.dim[i].shape * (b.dim[i].stride \div stride)
  IN  IF before.apart \/ stride = 0 THEN before
      ELSE [before EXCEPT !.apart = ae < bs \/ be < as, !.stride = stride]

\* Dimension i of a and b, where the starts and the common stride of the
\* dimensions before it are given: whether they are found to be apart.
Compare(a, b, before, i) ==
  LET stride == gcd[<<a.dim[i].stride, b.dim[i].stride>>]
      as == before.a \div stride
      bs == before.b \div stride
      ae == as + a.dim[i].shape * (a.dim[i].stride \div stride)
      be == bs + b.dim[i].shape * (b.dim[i].stride \div stride)
  IN  IF before.apart THEN before
      ELSE IF stride = 0 THEN [before EXCEPT !.stride = 0]
      ELSE [apart |-> ae < bs \/ be < as, stride |-> stride,
            a |-> before.a % stride, b |-> before.b % stride]

\* The comparison of all dimensions ends with last.
Apart(a, b, last) ==
  \/ last.apart
  \/ last.stride > 1 /\ a.start % last.stride # b.start % last.stride

bh_view_disjoint(a, b) ==
  LET first == [apart |-> FALSE, stride |-> 1, a |-> a.start, b |-> b.start]
      dims == [i \in DOMAIN a.dim |-> i]
  IN  \/ a.base # b.base
      \/ ndim(a) = ndim(b) /\ Apart(a, b, FoldLeft(LAMBDA c, i : Compare(a, b, c, i), first, dims))

bh_instr_dependency(a, b) ==
  /\ operands(a) # <<>> /\ operands(b) # <<>>
  /\ \/ \E v \in ToSet(operands(a)) : ~bh_view_disjoint(b.operand[1], v)
     \/ \E v \in ToSet(operands(b)) : ~bh_view_disjoint(a.operand[1], v)

(***************************************************************************)
(* What the dependency stands for: one of two instructions writes an       *)
(* element the other uses.                                                 *)
(***************************************************************************)
Conflict(a, b) ==
  /\ operands(a) # <<>> /\ operands(b) # <<>>
  /\ \/ \E v \in ToSet(operands(a)) : Overlap(b.operand[1], v)
     \/ \E v \in ToSet(operands(b)) : Overlap(a.operand[1], v)
=============================================================================
