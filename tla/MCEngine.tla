------------------------------ MODULE MCEngine ------------------------------
(***************************************************************************)
(* The arrays of the bridge have four elements, or two rows of two, and    *)
(* one element, or two complex ones.                                       *)
(***************************************************************************)
EXTENDS Engine

Base(id, nelem, type) == [id |-> id, nelem |-> nelem, type |-> type]
a == Base(1, 4, "FLOAT64")
b == Base(2, 4, "FLOAT64")
t == Base(3, 4, "FLOAT64")
u == Base(4, 2, "FLOAT64")
s == Base(5, 1, "FLOAT64")
c == Base(6, 2, "COMPLEX128")
d == Base(7, 2, "COMPLEX128")

Values(q) == [p \in 0 .. Len(q) - 1 |-> q[p + 1]]
MCInitial == a :> Values(<<<<2, 0>>, <<-1, 0>>, <<0, 0>>, <<3, 0>>>>)
               @@ c :> Values(<<<<0, -2>>, <<0, 0>>>>)

Dim(n, k) == [shape |-> n, stride |-> k]
View1(base, dims) == [base |-> base, start |-> 0, dim |-> dims]
Line(base) == View1(base, <<Dim(base.nelem, 1)>>)
Square(base) == View1(base, <<Dim(2, 2), Dim(2, 1)>>)
Transposed(base) == View1(base, <<Dim(2, 1), Dim(2, 2)>>)
Half(base) == View1(base, <<Dim(2, 1)>>)
Most(base) == View1(base, <<Dim(3, 1)>>)
Even(base) == View1(base, <<Dim(2, 2)>>)
Thin(base) == View1(base, <<Dim(2, 2), Dim(1, 2), Dim(2, 1)>>)

Op(opcode, oper, operand, const, axis) ==
  [opcode |-> opcode, oper |-> oper, operand |-> operand, const |-> const, axis |-> axis]
Set(oper, operand) == Elementwise(oper, operand)
Sum(out, in, axis) == Op("REDUCE", "ADD", <<out, in>>, NoConst, axis)
One(base) == WithConst("IDENTITY", <<Line(base)>>, 1, "FLOAT64")
Sync(base) == System1("SYNC", Line(base))
End(base) == Done(Line(base))
Reversed(out, in) == Instr("EXTENSION", "reverse", <<Line(out), Line(in)>>, NoConst)

MCBatches == {
  \* powers
  <<WithConst("POWER", <<Line(b), Line(a)>>, 3, "FLOAT64"), Sync(b)>>,
  <<WithConst("POWER", <<Square(b), Transposed(a)>>, 5, "FLOAT64"), Sync(b)>>,
  <<WithConst("POWER", <<Line(b), Line(a)>>, 2, "INT64")>>,
  \* matrix product
  <<Instr("MATMUL", "", <<Square(b), Square(a), Transposed(a)>>, NoConst), Sync(b)>>,
  <<Instr("MATMUL", "", <<Square(t), Square(a), Square(a)>>, NoConst), Set("ADD", <<Line(b), Line(t), Line(t)>>)>>
    \o End(t),
  \* signs
  <<Elementwise("SIGN", <<Line(b), Line(a)>>)>>,
  <<Elementwise("SIGN", <<Line(d), Line(c)>>), Sync(d)>>,
  \* chains of reductions
  <<Sum(Line(u), Square(a), 0), Sum(Line(s), Line(u), 0)>> \o End(u),
  <<Sum(Line(u), Square(a), 1), Set("ADD", <<Half(b), Half(a), Line(u)>>), Sum(Line(s), Line(u), 0)>> \o End(u),
  <<Sum(Half(b), Thin(a), 2), Sum(Half(b), Thin(a), 0), Sum(Square(b), Thin(a), 1)>>,
  \* temporary arrays
  <<Set("ADD", <<Line(t), Line(a), Line(a)>>), Set("MULTIPLY", <<Line(b), Line(t), Line(t)>>), One(s)>> \o End(t),
  <<Instr("RANGE", "", <<Line(t)>>, NoConst), Set("ADD", <<Line(b), Line(t), Line(a)>>), Sum(Line(s), Line(b), 0)>>
    \o End(t),
  \* the same instructions on views of other layouts
  <<WithConst("ADD", <<Most(b), Most(a)>>, 1, "FLOAT64")>>,
  <<WithConst("ADD", <<Half(b), Even(a)>>, 1, "FLOAT64")>>,
  <<WithConst("MULTIPLY", <<Square(b), Transposed(a)>>, 1, "FLOAT64")>>,
  \* a scalar beside an array that is not contiguous
  <<WithConst("ADD", <<Square(b), Transposed(a)>>, 1, "FLOAT64"), One(s)>>,
  \* extension methods, and the end of an array
  <<Reversed(b, a), Sync(b)>>,
  End(b) \o <<Reversed(t, a)>>,
  End(b) }

\* An array ends in the kernel of an extension method.
MCEndsBehind == {<<Reversed(b, a), Sync(b)>>, <<Reversed(t, a)>> \o End(b)}

\* A scalar is updated beside an array.
MCCounted == {<<One(s)>>,
              <<WithConst("ADD", <<Line(b), Line(a)>>, 1, "FLOAT64"), WithConst("ADD", <<Line(s), Line(s)>>, 1, "FLOAT64")>>}

On(matmul, powk, sign) == [matmul |-> matmul, powk |-> powk, sign |-> sign]
MCStacks == {[filters |-> <<"bcexp", "bccon">>, on |-> On(TRUE, TRUE, FALSE)],
             [filters |-> <<"bcexp", "dimclean">>, on |-> On(TRUE, TRUE, TRUE)]}
=============================================================================
