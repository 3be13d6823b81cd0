----------------------------- MODULE MCCommands -----------------------------
(***************************************************************************)
(* The command endpoints on small instances: two requests that may use the *)
(* same key, and one worker.                                               *)
(***************************************************************************)
EXTENDS Commands, TLC

MCReaders == [p \in Portfolios |-> Clients]

\* Requests, portfolios and keys are interchangeable.
Symmetry ==
  Permutations(Clients) \cup Permutations(Portfolios) \cup Permutations(Keys)
=============================================================================
