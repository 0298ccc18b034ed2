----------------------------- MODULE Bytecode -------------------------------
(***************************************************************************)
(* What the instructions compute (core/codegen/opcodes.json).              *)
(*                                                                         *)
(* A base is [id, nelem, type].  The data of a base is a function from the *)
(* positions that were written to their values; a base that is not in the  *)
(* domain of the data has none (base->data is NULL).  An instruction has   *)
(* its class in opcode, what it computes in oper, the views of its         *)
(* operands, the axis of a sweep, and the constant among its operands,     *)
(* [val, type], which comes last, or NoConst.                              *)
(* A value is a complex number, the pair of its parts; only numbers on the *)
(* axes have an absolute value here.                                       *)
(***************************************************************************)
EXTENDS View

CONSTANTS
  Undef,      \* the value of memory that was not written
  NoConst     \* an instruction has no constant

-----------------------------------------------------------------------------
Real(r) == <<r, 0>>
Plus(x, y) == <<x[1] + y[1], x[2] + y[2]>>
Minus(x, y) == <<x[1] - y[1], x[2] - y[2]>>
Times(x, y) == <<x[1] * y[1] - x[2] * y[2], x[1] * y[2] + x[2] * y[1]>>
Size(x) == Max({x[1], -x[1], x[2], -x[2]})
Over(x, n) == [i \in {1, 2} |-> IF x[i] < 0 THEN -((-x[i]) \div n) ELSE x[i] \div n]
Holds(p) == IF p THEN Real(1) ELSE Real(0)
Power(x, n) == FoldLeft(LAMBDA z, i : Times(z, x), Real(1), [i \in 1 .. n |-> i])

\* One element: x and y are the first and the second input.
Calc(oper, x, y) ==
  IF Undef \in {x, y} THEN Undef
  ELSE CASE oper = "IDENTITY" -> x
         [] oper = "ADD" -> Plus(x, y)
         [] oper = "SUBTRACT" -> Minus(x, y)
         [] oper = "MULTIPLY" -> Times(x, y)
         [] oper = "DIVIDE" -> Over(x, y[1])
         [] oper = "POWER" -> Power(x, y[1])
         [] oper = "GREATER" -> Holds(x[1] > y[1])
         [] oper = "LESS" -> Holds(x[1] < y[1])
         [] oper = "EQUAL" -> Holds(x = y)
         [] oper = "ABSOLUTE" -> Real(Size(x))
         [] oper = "SIGN" -> IF x = Real(0) THEN x ELSE Over(x, Size(x))

Neutral(oper) == IF oper = "MULTIPLY" THEN Real(1) ELSE Real(0)

-----------------------------------------------------------------------------
Elem(data, base, p) ==
  IF base \in DOMAIN data /\ p \in DOMAIN data[base] THEN data[base][p] ELSE Undef

At(data, view, k) == Elem(data, view.base, Pattern(view)[k])

\* The inputs of iteration k; an instruction without a second input gets 0 for it.
Inputs(data, instr, k) ==
  [i \in 1 .. Len(instr.operand) - 1 |-> At(data, instr.operand[i + 1], k)]
    \o (IF instr.const = NoConst THEN <<>> ELSE <<instr.const.val>>) \o <<Real(0)>>

\* The iteration of the output of a reduction that iteration k of its input
\* goes to.  Axes and iterations count from 0.
Into(in, axis, out, k) ==
  LET inner == FoldLeft(LAMBDA n, d : n * d.shape, 1, SubSeq(in.dim, axis + 2, ndim(in)))
  IN  IF bh_is_scalar(out) THEN 0
      ELSE (k \div (inner * in.dim[axis + 1].shape)) * inner + (k % inner)

Iterations(n) == [i \in 1 .. n |-> i - 1]

Reduced(data, instr, k) ==
  LET in == instr.operand[2]
      With(acc, i) == IF Into(in, instr.axis, instr.operand[1], i) = k
                      THEN Calc(instr.oper, acc, At(data, in, i)) ELSE acc
  IN  FoldLeft(With, Neutral(instr.oper), Iterations(bh_nelements(in)))

\* Row k \div n of a times column k % n of b.
Product(data, a, b, k) ==
  LET n == b.dim[2].shape
      m == a.dim[2].shape
      Term(l) == Calc("MULTIPLY", At(data, a, (k \div n) * m + l), At(data, b, l * n + (k % n)))
  IN  FoldLeft(LAMBDA acc, l : Calc("ADD", acc, Term(l)), Real(0), Iterations(m))

\* What an instruction computes for element k of its output.  An extension
\* method stands for a computation that is not element-wise.
Value(data, instr, k) ==
  CASE instr.opcode = "RANGE" -> Real(k)
    [] instr.opcode = "REDUCE" -> Reduced(data, instr, k)
    [] instr.opcode = "MATMUL" -> Product(data, instr.operand[2], instr.operand[3], k)
    [] instr.opcode = "EXTENSION" ->
         At(data, instr.operand[2], bh_nelements(instr.operand[2]) - 1 - k)
    [] OTHER -> Calc(instr.oper, Inputs(data, instr, k)[1], Inputs(data, instr, k)[2])

\* data with new elements of a base.
Put(data, base, new) ==
  (base :> (IF base \in DOMAIN data THEN new @@ data[base] ELSE new)) @@ data

Computed(data, instr, pattern) ==
  Put(data, instr.operand[1].base,
      [p \in Range(pattern) |-> Value(data, instr, CHOOSE k \in DOMAIN pattern : pattern[k] = p)])

Freed(data, base) == Restrict(data, DOMAIN data \ {base})

Apply(data, instr) ==
  CASE instr.opcode \in {"NONE", "SYNC", "DISCARD"} -> data
    [] instr.opcode = "FREE" -> Freed(data, instr.operand[1].base)
    [] OTHER -> Computed(data, instr, Pattern(instr.operand[1]))

Run(data, instr_list) == FoldLeft(Apply, data, instr_list)

\* The bases of a list that are not discarded by it.
Know(bases, instr) ==
  IF instr.opcode = "DISCARD" THEN bases \ Bases(instr) ELSE bases \union Bases(instr)

\* An array of which no element was written has nothing to show.
Shown(data) == RestrictValues(data, LAMBDA f : f # <<>>)
=============================================================================
