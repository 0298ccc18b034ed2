------------------------------ MODULE Kernel --------------------------------
(***************************************************************************)
(* Fuse models (core/bh_fuse.cpp) and kernels (core/bh_ir.cpp).  A fuse    *)
(* model says which pairs of instructions may share a kernel.  A kernel    *)
(* has the indexes of its instructions in the batch and the sets that      *)
(* add_instr keeps up with them.  What only the code generators read       *)
(* (constants, sweep dimensions, the largest and smallest shape) is left   *)
(* out.  An element costs 1.                                               *)
(***************************************************************************)
EXTENDS View

FuseModel == {"BROADEST", "NO_XSWEEP", "NO_XSWEEP_SCALAR_SEPERATE",
              "NO_XSWEEP_SCALAR_SEPERATE_SHAPE_MATCH", "SAME_SHAPE", "SAME_SHAPE_RANGE",
              "SAME_SHAPE_RANDOM", "SAME_SHAPE_RANGE_RANDOM", "SAME_SHAPE_GENERATE_1DREDUCE"}

System(a, b) == bh_opcode_is_system(a.opcode) \/ bh_opcode_is_system(b.opcode)

\* Mutant: only what b writes is compared.
BroadestOneWay(a, b) ==
  System(a, b) \/ \A v \in ToSet(a.operand) : \/ bh_view_disjoint(b.operand[1], v)
                                              \/ bh_view_aligned(b.operand[1], v)

fuse_broadest(a, b) ==
  LET Fits(out, v) == bh_view_disjoint(out, v) \/ bh_view_aligned(out, v)
  IN  \/ System(a, b)
      \/ /\ \A v \in ToSet(a.operand) : Fits(b.operand[1], v)
         /\ \A v \in ToSet(b.operand) : Fits(a.operand[1], v)

fuse_no_xsweep(a, b) ==
  /\ fuse_broadest(a, b)
  /\ ~ /\ bh_opcode_is_sweep(a.opcode) /\ bh_opcode_is_sweep(b.opcode)
       /\ ndim(a.operand[2]) = ndim(b.operand[2]) /\ a.axis # b.axis

scalar(i) == \/ bh_is_scalar(i.operand[1])
             \/ i.opcode = "ACCUMULATE" /\ ndim(i.operand[1]) = 1

fuse_no_xsweep_scalar_seperate(a, b) == fuse_no_xsweep(a, b) /\ scalar(a) = scalar(b)

\* The view whose shape counts: what is swept, or the output.
Swept(i) == IF bh_opcode_is_sweep(i.opcode) THEN i.operand[2] ELSE i.operand[1]

fuse_no_xsweep_scalar_seperate_shape_match(a, b) ==
  LET va == shape(Swept(a))
      vb == shape(Swept(b))
  IN  \/ System(a, b)
      \/ /\ \A i \in 1 .. Min({Len(va), Len(vb)}) : va[Len(va) + 1 - i] = vb[Len(vb) + 1 - i]
         /\ fuse_no_xsweep_scalar_seperate(a, b)

\* The four models of same shape, by the generators they allow.
SameShape(a, b, generators) ==
  \/ System(a, b)
  \/ /\ {a.opcode, b.opcode} \subseteq {"ELEMENTWISE"} \union generators
     /\ \A v \in ToSet(a.operand) \union ToSet(b.operand) : shape(v) = shape(a.operand[1])
     /\ fuse_broadest(a, b)

fuse_same_shape(a, b) == SameShape(a, b, {})
fuse_same_shape_range(a, b) == SameShape(a, b, {"RANGE"})
fuse_same_shape_random(a, b) == SameShape(a, b, {"RANDOM"})
fuse_same_shape_range_random(a, b) == SameShape(a, b, {"RANGE", "RANDOM"})

fuse_same_shape_generate_1dreduce(a, b) ==
  LET Beside(red, i) == \A v \in ToSet(i.operand) : /\ v.base # red.operand[1].base
                                                    /\ shape(v) = shape(red.operand[2])
      scalar1(v) == shape(v) = <<1>>
  IN  \/ System(a, b)
      \/ /\ {a.opcode, b.opcode} \subseteq {"ELEMENTWISE", "RANGE", "RANDOM", "REDUCE"}
         /\ ~(a.opcode = "REDUCE" /\ b.opcode = "REDUCE")
         /\ b.opcode = "REDUCE" => Beside(b, a)
         /\ a.opcode = "REDUCE" => Beside(a, b)
         /\ "REDUCE" \notin {a.opcode, b.opcode} /\ ~scalar1(a.operand[1]) =>
              \A v \in ToSet(b.operand) : shape(v) = shape(a.operand[1])
         /\ fuse_broadest(a, b)

check_fusible(model, a, b) ==
  CASE model = "BROADEST" -> fuse_broadest(a, b)
    [] model = "NO_XSWEEP" -> fuse_no_xsweep(a, b)
    [] model = "NO_XSWEEP_SCALAR_SEPERATE" -> fuse_no_xsweep_scalar_seperate(a, b)
    [] model = "NO_XSWEEP_SCALAR_SEPERATE_SHAPE_MATCH" ->
         fuse_no_xsweep_scalar_seperate_shape_match(a, b)
    [] model = "SAME_SHAPE" -> fuse_same_shape(a, b)
    [] model = "SAME_SHAPE_RANGE" -> fuse_same_shape_range(a, b)
    [] model = "SAME_SHAPE_RANDOM" -> fuse_same_shape_random(a, b)
    [] model = "SAME_SHAPE_RANGE_RANDOM" -> fuse_same_shape_range_random(a, b)
    [] model = "SAME_SHAPE_GENERATE_1DREDUCE" -> fuse_same_shape_generate_1dreduce(a, b)

-----------------------------------------------------------------------------
(***************************************************************************)
(* Kernels.  instr_list is the batch the indexes refer to.                 *)
(***************************************************************************)
EmptyKernel == [instr_indexes |-> <<>>, input_set |-> {}, output_set |-> {}, views |-> {},
                temps |-> {}, frees |-> {}, discards |-> {}, syncs |-> {}, parameters |-> {}]

OfBase(views, base) == {v \in views : v.base = base}

\* BH_DISCARD of base: an array that the kernel writes and does not read
\* becomes a temporary array, unless it is synchronised.
discard(k, base) ==
  LET synced == base \in k.syncs
      temp == ~synced /\ OfBase(k.output_set, base) # {} /\ OfBase(k.input_set, base) = {}
      kept == IF synced THEN k.output_set ELSE k.output_set \ OfBase(k.output_set, base)
  IN  IF temp
      THEN [k EXCEPT !.output_set = kept, !.temps = @ \union {base}, !.frees = @ \ {base},
                     !.parameters = @ \ {base}]
      ELSE [k EXCEPT !.output_set = kept, !.discards = @ \union {base}]

\* Any other instruction.  An input that the kernel has seen before is not
\* an input of the kernel.
compute(k, instr) ==
  LET Add(acc, v) == IF bh_view_simplify(v) \in acc.views THEN acc
                     ELSE [acc EXCEPT !.views = @ \union {bh_view_simplify(v)},
                                      !.input_set = @ \union {v},
                                      !.parameters = @ \union {v.base}]
      in == FoldLeft(Add, k, Tail(instr.operand))
      out == instr.operand[1]
  IN  [in EXCEPT !.views = @ \union {bh_view_simplify(out)}, !.output_set = @ \union {out},
                 !.parameters = @ \union {out.base}]

add_instr(instr_list, k, idx) ==
  LET instr == instr_list[idx]
      base == instr.operand[1].base
      with == CASE instr.opcode = "NONE"    -> k
                [] instr.opcode = "SYNC"    -> [k EXCEPT !.syncs = @ \union {base}]
                [] instr.opcode = "DISCARD" -> discard(k, base)
                [] instr.opcode = "FREE"    -> IF base \in k.temps THEN k
                                               ELSE [k EXCEPT !.frees = @ \union {base}]
                [] OTHER                    -> compute(k, instr)
  IN  [with EXCEPT !.instr_indexes = Append(@, idx)]

\* Kernel k followed by the instructions of a list of indexes.
Extended(instr_list, k, idxs) == FoldLeft(LAMBDA acc, i : add_instr(instr_list, acc, i), k, idxs)
NewKernel(instr_list, idxs) == Extended(instr_list, EmptyKernel, idxs)

Indexes(k) == ToSet(k.instr_indexes)

\* Mutant: only_system_opcodes in its place.
IsSystem(instr_list, k) == \A i \in Indexes(k) : bh_opcode_is_system(instr_list[i].opcode)

is_noop(instr_list, k) == \A i \in Indexes(k) : instr_list[i].opcode = "NONE"

\* An instruction and those of a kernel, given by their indexes.
fusible_instr(model, instr_list, indexes, idx) ==
  \A i \in indexes : check_fusible(model, instr_list[idx], instr_list[i])

fusible(model, instr_list, k, other) ==
  \A i \in Indexes(k), j \in Indexes(other) : check_fusible(model, instr_list[i], instr_list[j])

\* The topological fuser: a kernel gets the instructions that follow as long as they are fusible.
do_fusion(model, instr_list) ==
  LET n == Len(instr_list)
      End(idx) == Max({j \in idx .. n : \A h \in idx .. j : fusible_instr(model, instr_list, idx .. h - 1, h)})
      Kernels[idx \in 1 .. n + 1] ==
        IF idx > n THEN <<>>
        ELSE <<NewKernel(instr_list, [i \in 1 .. End(idx) + 1 - idx |-> idx + i - 1])>> \o Kernels[End(idx) + 1]
  IN  Kernels[1]

input_and_output_subset_of(k, other) ==
  k.input_set \subseteq other.input_set /\ k.output_set \subseteq other.output_set

\* 1 where k depends on other, -1 where other depends on k.  Both at once is
\* a cyclic dependency: the code asserts that there is none, and which of
\* the two would be returned is left open.
Dependencies(instr_list, k, other) ==
  {IF p[1] >= p[2] THEN 1 ELSE -1 : p \in
     {q \in Indexes(k) \X Indexes(other) : bh_instr_dependency(instr_list[q[2]], instr_list[q[1]])}}

dependency(instr_list, k, other) ==
  LET deps == Dependencies(instr_list, k, other)
  IN  IF deps = {} THEN 0 ELSE CHOOSE d \in deps : TRUE

\* What a, which depends on b, saves when it follows b in one kernel.
Savings(instr_list, a, b) ==
  LET Aligned(i, views) == Cardinality({o \in views : bh_view_aligned(i, o)})
      Shared(i) == bh_nelements_nbcast(i)
                     * (Aligned(i, b.output_set) + Aligned(i, b.input_set))
      discarded == {instr_list[i].operand[1].base :
                      i \in {j \in Indexes(a) : instr_list[j].opcode = "DISCARD"}}
  IN  MapThenSumSet(Shared, a.input_set)
        + MapThenSumSet(bh_nelements_nbcast, {o \in b.output_set : o.base \in discarded})

merge_cost_savings(model, instr_list, k, other) ==
  IF ~fusible(model, instr_list, k, other) THEN -1
  ELSE IF dependency(instr_list, k, other) = 1 THEN Savings(instr_list, k, other)
  ELSE Savings(instr_list, other, k)
=============================================================================
