----------------------- MODULE MCClassificationReview -----------------------
(***************************************************************************)
(* The classification of a product on small instances.                     *)
(***************************************************************************)
EXTENDS ClassificationReview, TLC

\* Rules for one dimension: sources that agree confirm a value.
MCClassify ==
  [obs \in [Sources -> Values \cup {None}] |->
     LET told == {obs[s] : s \in Sources} \ {None}
     IN  CASE told = {} -> "UNKNOWN"
           [] Cardinality(told) = 1 -> CHOOSE v \in Values : told = {v}
           [] OTHER -> "CONFLICT"]

Symmetry == Permutations(Workers) \cup Permutations(Reviewers) \cup Permutations(Values)
=============================================================================
