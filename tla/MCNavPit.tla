------------------------------ MODULE MCNavPit ------------------------------
(* Small instances of NavPit *)
EXTENDS NavPit, TLC

Symmetry == Permutations(Workers) \cup Permutations(Values)
=============================================================================
