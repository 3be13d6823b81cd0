----------------------------- MODULE JobLedger -----------------------------
(***************************************************************************)
(* What the job queue promises its callers, without transactions, ids,     *)
(* locks or leases: one job per idempotency key, an atomic chunk of work   *)
(* at a time, one terminal status that nothing changes, and an answer that *)
(* only ever names a registered job.                                       *)
(***************************************************************************)
EXTENDS Naturals

CONSTANTS Keys, Clients, Statuses, Final, MaxChunks, Nothing

VARIABLES
  ledger,  \* what is registered under each key: Nothing, or status and work done
  told     \* the key whose job a client was last answered with

vars == <<ledger, told>>

Init ==
  /\ ledger = [k \in Keys |-> Nothing]
  /\ told = [c \in Clients |-> Nothing]

\* A client is answered with the job of its key, which is registered with its
\* answer unless an earlier submission did it.
Register(c, k) ==
  /\ ledger' = IF ledger[k] = Nothing
               THEN [ledger EXCEPT ![k] = [status |-> "RUNNING", work |-> 0]]
               ELSE ledger
  /\ told' = [told EXCEPT ![c] = k]

\* A client begins another request, or loses the one it has.
Forget(c) ==
  /\ told' = [told EXCEPT ![c] = Nothing]
  /\ UNCHANGED ledger

\* A running job takes one step: a chunk of work or none, and perhaps its end.
Advance(k, status, n) ==
  /\ ledger[k] # Nothing
  /\ ledger[k].status \notin Final
  /\ ledger[k].work + n <= MaxChunks
  /\ ledger' = [ledger EXCEPT ![k] = [status |-> status, work |-> @.work + n]]
  /\ UNCHANGED told

Next ==
  \/ \E c \in Clients, k \in Keys : Register(c, k)
  \/ \E c \in Clients : Forget(c)
  \/ \E k \in Keys, s \in Statuses, n \in {0, 1} : Advance(k, s, n)

Spec == Init /\ [][Next]_vars
=============================================================================
