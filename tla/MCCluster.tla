----------------------------- MODULE MCCluster ------------------------------
(***************************************************************************)
(* Two arrays of three elements and a scalar on two or three processes.    *)
(* The lists move data between the processes in both directions, export an *)
(* array (BH_SYNC, BH_DISCARD), delete one (BH_FREE, BH_DISCARD) and use   *)
(* arrays that were exported before.                                       *)
(***************************************************************************)
EXTENDS ClusterVem, TLC

View(b, s, t) == [base |-> b, start |-> s, stride |-> t]
Fill(out, n, v) == [op |-> "ELEMENTWISE", out |-> out, ins |-> <<>>, v |-> v, n |-> n]
Compute(out, ins, n) == [op |-> "ELEMENTWISE", out |-> out, ins |-> ins, v |-> 0, n |-> n]
Reduce(out, in, n) == [op |-> "REDUCE", out |-> out, ins |-> <<in>>, v |-> 0, n |-> n]
System(op, b) == [op |-> op, out |-> View(b, 0, 1), ins |-> <<>>, v |-> 0, n |-> 0]

All(b) == View(b, 0, 1)

MCArys == {"a", "b", "s"}
MCNelem == [a |-> 3, b |-> 3, s |-> 1]
MCWrites == [a |-> {NULL, 0 :> 2 @@ 1 :> 1 @@ 2 :> 2}, b |-> {0 :> 1 @@ 1 :> 2 @@ 2 :> 1}, s |-> {}]

\* b[0:2] = a[1:3], and a[1:3] = max(b[0:2], a[0:1] broadcast).
ShiftDown == Compute(View("b", 0, 1), <<View("a", 1, 1)>>, 2)
ShiftUp == Compute(View("a", 1, 1), <<View("b", 0, 1), View("b", 0, 0)>>, 2)

MCBhIRs == {
  <<Reduce(All("s"), All("b"), 3)>>,
  <<ShiftDown, ShiftUp>>,
  <<Fill(View("b", 1, 1), 2, 2), ShiftDown, System("SYNC", "b")>>,
  <<Reduce(All("s"), All("a"), 3), System("SYNC", "s"), System("FREE", "s"), System("DISCARD", "s")>>,
  <<ShiftUp, System("FREE", "a"), System("DISCARD", "a")>>,
  <<System("FREE", "b"), System("DISCARD", "b"), System("SYNC", "a"), System("DISCARD", "a")>> }
=============================================================================
