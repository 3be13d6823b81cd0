----------------------------- MODULE MCJobQueue -----------------------------
(***************************************************************************)
(* The job queue on small instances: two API threads and two workers.      *)
(***************************************************************************)
EXTENDS JobQueue, TLC

\* Threads, and workers, are interchangeable (not used for the liveness run).
Symmetry == Permutations(Clients) \cup Permutations(Workers)
=============================================================================
