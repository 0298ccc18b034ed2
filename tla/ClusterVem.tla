----------------------------- MODULE ClusterVem -----------------------------
(***************************************************************************)
(* The cluster VEM meets the contract of a vector engine manager: the list *)
(* is the one of the master, the memory the history variable mem.          *)
(***************************************************************************)
EXTENDS Cluster

CONSTANT Val     \* the values of elements

V == INSTANCE Vem WITH todo <- ir[0]

(***************************************************************************)
(* The cluster behaves as one memory: what a BH_SYNC brings to base->data  *)
(* is what the instructions so far compute, in program order, although the *)
(* processes hold only their blocks, run the list at their own speed and   *)
(* exchange blocks only when they flush.                                   *)
(***************************************************************************)
ImplementsVem == V!Spec
=============================================================================
