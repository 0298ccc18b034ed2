------------------------------- MODULE Filter -------------------------------
(***************************************************************************)
(* The filters, which rewrite the instruction list of a batch on its way   *)
(* to the engine: bcexp replaces composite instructions by simpler ones    *)
(* that use arrays of its own, bccon replaces a chain of reductions by one *)
(* reduction, and dimclean drops the dimensions of one element.            *)
(*                                                                         *)
(* A base that bcexp makes has an identifier of FirstTemp or above: the    *)
(* address that new returns.                                               *)
(***************************************************************************)
EXTENDS Bytecode

CONSTANT FirstTemp

Instr(opcode, oper, operand, const) ==
  [opcode |-> opcode, oper |-> oper, operand |-> operand, const |-> const, axis |-> 0]
Elementwise(oper, operand) == Instr("ELEMENTWISE", oper, operand, NoConst)
WithConst(oper, operand, val, type) ==
  Instr("ELEMENTWISE", oper, operand, [type |-> type, val |-> Real(val)])
System1(opcode, view) == Instr(opcode, "", <<view>>, NoConst)
Done(view) == <<System1("FREE", view), System1("DISCARD", view)>>
Nop(instr) == [instr EXCEPT !.opcode = "NONE"]

-----------------------------------------------------------------------------
(***************************************************************************)
(* bcexp.                                                                  *)
(***************************************************************************)
\* A view of the same shape that is contiguous and starts at 0.
Contiguous(dims) ==
  [i \in DOMAIN dims |->
     [shape |-> dims[i].shape,
      stride |-> FoldLeft(LAMBDA n, d : n * d.shape, 1, SubSeq(dims, i + 1, Len(dims)))]]

\* The new base that is made next, with bases_ in use.
make_base(bases, type, nelem) ==
  [id |-> Min({i \in FirstTemp .. FirstTemp + Len(bases) : \A b \in ToSet(bases) : b.id # i}),
   type |-> type, nelem |-> nelem]

\* bases_ and the temporary views that are made for the types, one after the other.
Temps(bases, dims, types) ==
  LET nelem == bh_nelements([dim |-> dims])
  IN  FoldLeft(LAMBDA bs, t : Append(bs, make_base(bs, t, nelem)), bases, types)
make_temp(base, dims) == [base |-> base, start |-> 0, dim |-> Contiguous(dims)]

\* Mutant: the transposition of b is left out.
MatmulStraight(a, b) ==
  LET n == a.dim[1]
      m == a.dim[2]
      k == b.dim[2]
  IN  <<[a EXCEPT !.dim = <<n, [shape |-> k.shape, stride |-> 0], m>>],
        [b EXCEPT !.dim = <<[shape |-> n.shape, stride |-> 0],
                            [shape |-> k.shape, stride |-> b.dim[1].stride],
                            [shape |-> m.shape, stride |-> k.stride]>>]>>

\* Both factors in three dimensions, rows of a, columns of b, and what is summed.
Broadcast(a, b) ==
  LET n == a.dim[1]
      m == a.dim[2]
      k == b.dim[2]
  IN  <<[a EXCEPT !.dim = <<n, [shape |-> k.shape, stride |-> 0], m>>],
        [b EXCEPT !.dim = <<[shape |-> n.shape, stride |-> 0], k,
                            [shape |-> m.shape, stride |-> b.dim[1].stride]>>]>>

expand_matmul(instr, bases) ==
  LET both == Broadcast(instr.operand[2], instr.operand[3])
      bs == Temps(bases, both[2].dim, <<both[2].base.type>>)
      c == make_temp(Last(bs), both[2].dim)
  IN  [bases |-> bs,
       list |-> <<Nop(instr), Elementwise("MULTIPLY", <<c>> \o both),
                  [Instr("REDUCE", "ADD", <<instr.operand[1], c>>, NoConst) EXCEPT !.axis = 2]>>
                  \o Done(c)]

\* -1 where the constant is not a natural number of a type that is looked at.
bh_get_integer(const) ==
  IF const.type \in {"FLOAT32", "FLOAT64"} /\ const.val[1] >= 0 THEN const.val[1] ELSE -1

Repeat(n, instr) == [i \in 1 .. n |-> instr]

\* The instructions for an exponent above 1.
Multiplications(out, in, exponent) ==
  LET square == Elementwise("MULTIPLY", <<out, in, in>>)
      again == Elementwise("MULTIPLY", <<out, out, out>>)
      once == Elementwise("MULTIPLY", <<out, out, in>>)
  IN  CASE exponent = 4 -> <<square, again>>
        [] exponent = 5 -> <<square, again, once>>
        [] OTHER -> <<square>> \o Repeat(exponent - 2, once)

expand_powk(instr, bases) ==
  LET out == instr.operand[1]
      in == instr.operand[2]
      exponent == bh_get_integer(instr.const)
      list == CASE exponent = 0 -> <<WithConst("IDENTITY", <<out>>, 1, out.base.type)>>
                [] exponent = 1 -> <<Elementwise("IDENTITY", <<out, in>>)>>
                [] OTHER -> Multiplications(out, in, exponent)
      applies == instr.const # NoConst /\ exponent \in 0 .. 100 /\ out.base # in.base
  IN  [bases |-> bases, list |-> IF applies THEN <<Nop(instr)>> \o list ELSE <<instr>>]

\* sign(x) = (x > 0) - (x < 0)
SignReal(out, in, lss, gtr, t_bool) ==
  <<WithConst("GREATER", <<t_bool, in>>, 0, in.base.type), Elementwise("IDENTITY", <<lss, t_bool>>)>>
    \o Done(t_bool)
    \o <<WithConst("LESS", <<t_bool, in>>, 0, in.base.type), Elementwise("IDENTITY", <<gtr, t_bool>>)>>
    \o Done(t_bool)
    \o <<Elementwise("SUBTRACT", <<out, lss, gtr>>)>> \o Done(lss) \o Done(gtr)

\* sign(z) = z / (|z| + (z = 0))
SignComplex(out, in, f_abs, b_zero, f_zero) ==
  <<Elementwise("ABSOLUTE", <<f_abs, in>>), WithConst("EQUAL", <<b_zero, f_abs>>, 0, f_abs.base.type),
    Elementwise("IDENTITY", <<f_zero, b_zero>>)>>
    \o Done(b_zero) \o <<Elementwise("ADD", <<f_abs, f_abs, f_zero>>)>>
    \o Done(f_zero) \o <<Elementwise("IDENTITY", <<out, f_abs>>)>>
    \o Done(f_abs) \o <<Elementwise("DIVIDE", <<out, in, out>>)>>

expand_sign(instr, bases) ==
  LET out == instr.operand[1]
      in == instr.operand[2]
      complex == in.base.type \in {"COMPLEX64", "COMPLEX128"}
      float == IF in.base.type = "COMPLEX64" THEN "FLOAT32" ELSE "FLOAT64"
      types == IF complex THEN <<float, "BOOL", float>> ELSE <<in.base.type, in.base.type, "BOOL">>
      bs == Temps(bases, out.dim, types)
      temp(i) == make_temp(bs[Len(bases) + i], out.dim)
  IN  [bases |-> bs,
       list |-> <<Nop(instr)>> \o (IF complex THEN SignComplex(out, in, temp(1), temp(2), temp(3))
                                   ELSE SignReal(out, in, temp(1), temp(2), temp(3)))]

\* The instructions in the place of one, for the composites that are turned on.
Expansion(instr, bases, on) ==
  CASE instr.oper = "POWER" /\ on.powk -> expand_powk(instr, bases)
    [] instr.opcode = "MATMUL" /\ on.matmul -> expand_matmul(instr, bases)
    [] instr.oper = "SIGN" /\ on.sign -> expand_sign(instr, bases)
    [] OTHER -> [bases |-> bases, list |-> <<instr>>]

expand(instr_list, bases, on) ==
  LET With(acc, new) == [bases |-> new.bases, list |-> acc.list \o new.list]
  IN  FoldLeft(LAMBDA acc, instr : With(acc, Expansion(instr, acc.bases, on)),
               [bases |-> bases, list |-> <<>>], instr_list)

\* After a batch, the bases above the threshold are deleted, the newest first.
gc(bases, threshold) ==
  IF threshold # 0 /\ Len(bases) > threshold THEN SubSeq(bases, 1, threshold) ELSE bases

-----------------------------------------------------------------------------
(***************************************************************************)
(* bccon.                                                                  *)
(***************************************************************************)
\* Instruction i after the chain of reductions that begins with first.
Link(instr_list, first, chain, i) ==
  LET instr == instr_list[i]
      reduced == instr.opcode = "REDUCE" /\ instr.oper = instr_list[first].oper
      continues == reduced \/ instr.opcode \in {"FREE", "DISCARD"}
  IN  IF Bases(instr) \intersect chain.bases = {} THEN chain
      ELSE IF ~continues THEN [bases |-> {}, links |-> {}, last |-> 0, broken |-> TRUE]
      ELSE IF instr.operand[1].base.nelem = 1 THEN [chain EXCEPT !.last = i]
      ELSE [chain EXCEPT !.links = @ \union {i},
                         !.bases = IF reduced THEN @ \union {instr.operand[1].base} ELSE @]

rewrite_chain(instr_list, first, chain) ==
  IF chain.broken \/ chain.last = 0 THEN instr_list
  ELSE [i \in DOMAIN instr_list |->
          IF i = first THEN [instr_list[i] EXCEPT !.operand[1] = instr_list[chain.last].operand[1]]
          ELSE IF i \in chain.links \union {chain.last} THEN Nop(instr_list[i])
          ELSE instr_list[i]]

\* The chain that begins with a reduction to an array.
Contract(instr_list, i) ==
  LET none == [bases |-> {instr_list[i].operand[1].base}, links |-> {}, last |-> 0, broken |-> FALSE]
      rest == [j \in 1 .. Len(instr_list) - i |-> i + j]
  IN  IF instr_list[i].opcode = "REDUCE" /\ instr_list[i].operand[1].base.nelem > 1
      THEN rewrite_chain(instr_list, i, FoldLeft(LAMBDA c, j : Link(instr_list, i, c, j), none, rest))
      ELSE instr_list

contract(instr_list) == FoldLeft(Contract, instr_list, [i \in DOMAIN instr_list |-> i])

-----------------------------------------------------------------------------
(***************************************************************************)
(* dimclean.                                                               *)
(***************************************************************************)
CleanView(view) ==
  LET kept == SelectSeq(view.dim, LAMBDA d : d.shape # 1)
  IN  [view EXCEPT !.dim = IF kept = <<>> THEN <<view.dim[1]>> ELSE kept]

\* The axis of a sweep, counted without the dimensions that are dropped.
CleanAxis(instr) ==
  Cardinality({i \in 1 .. instr.axis : instr.operand[2].dim[i].shape # 1})

Clean(instr) ==
  LET sweep == bh_opcode_is_sweep(instr.opcode)
      copy == sweep /\ instr.operand[2].dim[instr.axis + 1].shape = 1
      views == [i \in DOMAIN operands(instr) |-> CleanView(instr.operand[i])]
  IN  IF operands(instr) = <<>> THEN instr
      ELSE IF copy THEN Elementwise("IDENTITY", views)
      ELSE [instr EXCEPT !.operand = views, !.axis = IF sweep THEN CleanAxis(instr) ELSE @]

dimclean(instr_list) == [i \in DOMAIN instr_list |-> Clean(instr_list[i])]
=============================================================================
