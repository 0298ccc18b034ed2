------------------------------ MODULE MCVcache ------------------------------
(***************************************************************************)
(* Three base arrays, two of them of the same size, over a cache of two    *)
(* slots: hits, misses, evictions and memory of an unwanted size all occur.*)
(***************************************************************************)
EXTENDS Vcache, TLC

CONSTANTS b1, b2, b3

MCBase == {b1, b2, b3}
AddrSymmetry == Permutations(Addr)
MCBytes == b1 :> 1 @@ b2 :> 1 @@ b3 :> 2
=============================================================================
