------------------------------ MODULE Machine -------------------------------
(***************************************************************************)
(* What a stack of components promises to the bridge on top of it: when a  *)
(* call returns, the instructions of its batch have been applied one after *)
(* the other, and the arrays that were used and not discarded are known.   *)
(***************************************************************************)
EXTENDS Bytecode

CONSTANTS
  Batches,    \* the instruction lists of the bridge
  Initial     \* the data of the arrays that the bridge made itself

VARIABLES arrays, known,
          batch     \* of the call that has not returned, or <<>>

vars == <<arrays, known, batch>>

Init == arrays = Initial /\ known = {} /\ batch = <<>>

Call == batch = <<>> /\ batch' \in Batches /\ UNCHANGED <<arrays, known>>

Return ==
  /\ batch # <<>> /\ batch' = <<>>
  /\ arrays' = Shown(Run(arrays, batch))
  /\ known' = FoldLeft(Know, known, batch)

\* The process ends, in a call or between two, and another one starts.
Restart == arrays' = Initial /\ known' = {} /\ batch' = <<>>

Next == Call \/ Return \/ Restart

Spec == Init /\ [][Next]_vars
=============================================================================
