----------------------------- MODULE MCNpArray ------------------------------
(***************************************************************************)
(* A base array with two views and another base array after it in memory.  *)
(***************************************************************************)
EXTENDS NpArray, TLC

MCBaseOf == [o \in Obj |-> IF o \in Base THEN o ELSE "a"]
MCAddress == [a |-> 0, b |-> 8]
=============================================================================
