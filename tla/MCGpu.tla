------------------------------- MODULE MCGpu --------------------------------
(***************************************************************************)
(* Two arrays, of which one may have data from the bridge, and a scalar.   *)
(***************************************************************************)
EXTENDS Gpu

Kernel(fid, lit, ins, outs) ==
  [fid |-> fid, lit |-> lit, ins |-> ins, outs |-> outs, c |-> fid, scalar |-> FALSE,
   syncs |-> {}, discards |-> {}, frees |-> {}]

System(syncs, discards, frees) ==
  [Kernel(0, 0, {}, {}) EXCEPT !.syncs = syncs, !.discards = discards, !.frees = frees]

\* b = f(a); a = g(a, b); b = f(b), with other sizes.
Copy == Kernel(1, 1, {"a"}, {"b"})
Update == Kernel(2, 1, {"a", "b"}, {"a"})
CopyOther == Kernel(1, 2, {"b"}, {"b"})

MCLists == {
  <<Copy, Update>>,
  <<CopyOther, System({"b"}, {}, {})>>,
  <<[Update EXCEPT !.discards = {"b"}, !.frees = {"b"}], Copy>>,
  <<Copy, System({}, {"b"}, {"b"})>>,
  <<[Update EXCEPT !.syncs = {"a"}, !.discards = {"a", "b"}, !.frees = {"b"}]>>,
  <<[Kernel(3, 1, {"a"}, {"s"}) EXCEPT !.scalar = TRUE], [Copy EXCEPT !.ins = {"s"}]>> }

\* A kernel that computes on "a" and "b" syncs "s", of which the engine knows nothing, and discards "b".
SyncsElsewhere == {<<[Update EXCEPT !.syncs = {"s"}, !.discards = {"b"}]>>}
=============================================================================
