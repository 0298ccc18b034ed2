----------------------------- MODULE MCOptimal ------------------------------
EXTENDS Optimal, FiniteSetsExt

\* Costs of masks: 6 less what the merged edges save, the second one more than the others.
Gain(i) == IF i = 1 THEN 2 ELSE 1
Cost == [m \in Mask |-> 6 - MapThenSumSet(Gain, m)]

\* Which masks are legal: merging nothing is, merging everything is not; of the masks that leave out
\* the first edge or the second one, which differ in cost, any set.
Legals == {[m \in Mask |-> m \in legal \union {{}}] : legal \in SUBSET {Edge \ {0}, Edge \ {1}}}

\* All edges; or a preloaded path without the first edge, with a guess that is better.
MCProblems ==
  [graph : {1}, cost : {Cost}, legal : Legals, guess : {6}, first : {[mask |-> Edge, offset |-> 0]}]
  \union [graph : {1}, cost : {Cost}, legal : Legals, guess : {5}, first : {[mask |-> Edge \ {0}, offset |-> 0]}]
=============================================================================
