------------------------------ MODULE MCFuser -------------------------------
(***************************************************************************)
(* The arrays have six elements, or two rows of three.                     *)
(***************************************************************************)
EXTENDS Fuser

Line(base, start, n) == [base |-> base, start |-> start, dim |-> <<[shape |-> n, stride |-> 1]>>]
Block(base, start, rows, cols) ==
  [base |-> base, start |-> start,
   dim |-> <<[shape |-> rows, stride |-> 3], [shape |-> cols, stride |-> 1]>>]
Transposed(base, start, rows, cols) ==
  [base |-> base, start |-> start,
   dim |-> <<[shape |-> rows, stride |-> 1], [shape |-> cols, stride |-> 3]>>]

Instr(op, out, ins) == [opcode |-> op, operand |-> <<out>> \o ins, axis |-> 0]
Set(out, ins) == Instr("ELEMENTWISE", out, ins)
System1(op, base) == Instr(op, Line(base, 0, 6), <<>>)

Low(b) == Line(b, 0, 4)
High(b) == Line(b, 2, 4)
First(b) == Line(b, 0, 1)
Spread(b) == [base |-> b, start |-> 0, dim |-> <<[shape |-> 4, stride |-> 0]>>]

\* Aligned, overlapping and shifted views of one dimension.
LineInstrs == {Set(Low(1), <<Low(2)>>), Set(High(1), <<Low(1)>>), Set(Low(2), <<High(1)>>),
               Set(Low(3), <<Low(1), Low(2)>>), System1("FREE", 2), System1("DISCARD", 2)}

\* Sweeps, a generator, a broadcast, scalars, and an instruction that was removed.
SweepInstrs == {Instr("REDUCE", First(4), <<Low(1)>>), Instr("ACCUMULATE", Low(2), <<Low(1)>>),
                Instr("RANGE", Low(1), <<>>),
                Set(Low(1), <<Spread(4)>>), Set(First(4), <<First(1)>>),
                Instr("NONE", Low(2), <<Low(1)>>), System1("SYNC", 1)}

\* Two dimensions.
BlockInstrs == {Set(Block(1, 0, 2, 2), <<Block(2, 0, 2, 2)>>),
                Set(Block(1, 2, 2, 1), <<Block(1, 1, 2, 1)>>),
                Set(Block(1, 3, 1, 3), <<Block(1, 0, 1, 3)>>),
                Set(Line(2, 0, 6), <<Line(1, 0, 6)>>), Set(Block(2, 0, 2, 3), <<Block(1, 0, 2, 3)>>)}

\* No instruction uses an array that one before it discards.
Legal(s) == \A i, j \in DOMAIN s :
              i < j /\ s[i].opcode = "DISCARD" => s[i].operand[1].base \notin Bases(s[j])

Lists(S, n) == {s \in [1 .. n -> S] : Legal(s)}

MCBatches == Lists(LineInstrs, 4) \union Lists(SweepInstrs, 3) \union Lists(BlockInstrs, 3)

\* Two batches in one session or in two.
PairInstrs == {Instr("RANGE", Low(1), <<>>), Set(Low(3), <<Low(1)>>), Set(Low(3), <<High(1)>>)}
PairBatches == MCBatches \union Lists(PairInstrs, 2)

\* The same operands by their order, on other arrays.
CacheBatches == Lists({Set(Low(1), <<Low(2)>>), Set(Low(3), <<High(1)>>), Set(Low(3), <<Low(4)>>)}, 2)

\* A column of an array with its dimensions swapped, and an element of it.
TransposedBatches ==
  Lists({Set(Transposed(1, 0, 1, 2), <<Transposed(2, 0, 1, 2)>>), Set(Block(3, 0, 1, 1), <<Block(1, 3, 1, 1)>>)}, 2)

MCModels == {"BROADEST", "SAME_SHAPE", "SAME_SHAPE_RANGE", "NO_XSWEEP_SCALAR_SEPERATE_SHAPE_MATCH"}
=============================================================================
