-------------------------- MODULE MCScopedIngestion --------------------------
(***************************************************************************)
(* Scoped ingestion on small instances.                                    *)
(***************************************************************************)
EXTENDS ScopedIngestion, TLC

\* Threads, workers and previews are interchangeable (not in the liveness run).
Symmetry ==
  Permutations(Requests) \cup Permutations(Workers) \cup Permutations(Previews)
=============================================================================
