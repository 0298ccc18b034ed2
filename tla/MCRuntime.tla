----------------------------- MODULE MCRuntime ------------------------------
EXTENDS Runtime, TLC

\* Arrays of the program, temporaries and base arrays are each alike.
Symmetry == Permutations(Named) \cup Permutations(Temp) \cup Permutations(BhBase)
=============================================================================
