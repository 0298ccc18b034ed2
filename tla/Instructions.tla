---------------------------- MODULE Instructions ----------------------------
(***************************************************************************)
(* Instruction lists and what they compute, for the contract of a vector   *)
(* engine manager (Vem) and for the cluster that has to meet it (Cluster). *)
(*                                                                         *)
(* An instruction is [op, out, ins, v, n]: a view of n elements, the views *)
(* it is computed from, and a constant.  All computations are a maximum:   *)
(* of the inputs and the constant, element by element ("ELEMENTWISE") or   *)
(* over a whole view ("REDUCE").  Undef, the value of memory that was      *)
(* never written, is larger than all other values and so absorbs them.     *)
(***************************************************************************)
EXTENDS Integers, Sequences, FiniteSetsExt

CONSTANTS
  Arys,      \* the base arrays
  Nelem,     \* the number of elements of each
  Undef,     \* an element that was never written
  NULL       \* a base array without data

Blank(a) == [i \in 0 .. Nelem[a] - 1 |-> Undef]

\* The position of element k, counted from 1, of a view.
Pos(view, k) == view.start + (k - 1) * view.stride

Bases(inst) == <<inst.out.base>> \o [j \in 1 .. Len(inst.ins) |-> inst.ins[j].base]

ArysOf(bhir) == UNION {Range(Bases(bhir[i])) : i \in DOMAIN bhir}

\* The elements of an array when the manager first hears of it.
Imported(a, data) == IF data[a] = NULL THEN Blank(a) ELSE data[a]

\* The elements of an output array after a computation.
Computed(inst, mem) ==
  LET in(j, k) == mem[inst.ins[j].base][Pos(inst.ins[j], k)]
      all(k)   == Max({inst.v} \union {in(j, k) : j \in 1 .. Len(inst.ins)})
      value(k) == IF inst.op = "REDUCE" THEN Max({all(l) : l \in 1 .. inst.n}) ELSE all(k)
      n        == IF inst.op = "REDUCE" THEN 1 ELSE inst.n
      a        == inst.out.base
  IN  [i \in 0 .. Nelem[a] - 1 |->
         IF \E k \in 1 .. n : Pos(inst.out, k) = i
         THEN value(CHOOSE k \in 1 .. n : Pos(inst.out, k) = i)
         ELSE mem[a][i]]
=============================================================================
