------------------------------ MODULE Commands ------------------------------
(***************************************************************************)
(* The command endpoints of src/src/fip/api/routers/commands.py over the   *)
(* job queue: optimisations and backtest runs are submitted under the      *)
(* client's Idempotency-Key, one key space for both, and end in the hands  *)
(* of the queue's workers; decisions are reviewed.                         *)
(*                                                                         *)
(* A request is a client of the queue (JobSubmitter), which keeps one more *)
(* record beside its job: what it has been asked.  An optimisation holds   *)
(* an advisory lock on its key until its first session ends; a backtest    *)
(* run does not.                                                           *)
(***************************************************************************)
EXTENDS JobQueue, Sequences

CONSTANTS
  Portfolios,
  Backtests,    \* ids that create_backtest may hand out
  Decisions,    \* decisions the pipeline has proposed
  Readers,      \* who may read each portfolio
  Actions,      \* what reviewers may do with a decision
  MaxReviews    \* bound: committed reviews

\* What a request may ask.
Asked ==
  [kind: {"optimization"}, target: Portfolios] \cup
  [kind: {"backtest"}, target: Backtests]

ASSUME CommandsAssumption ==
  /\ Readers \in [Portfolios -> SUBSET Clients]
  /\ Actions \subseteq {"APPROVED", "REJECTED", "OVERRIDDEN"} /\ MaxReviews \in Nat
  /\ None \notin Asked

VARIABLES
  asked,          \* what an open request asks: optimise a portfolio, run a backtest
  about,          \* job_type and resource_id of each committed job
  optimizations,  \* OptimizationRecord rows: portfolio, and the key of the request
  backtests,      \* ids of BacktestRecord rows
  decision,       \* the status a decision's payload shows, and who reviewed it
  trail,          \* audit rows of the reviews of each decision
  review          \* what a reviewer has written to an open transaction

commandVars == <<asked, about, optimizations, backtests>>
reviewVars == <<decision, trail, review>>
allVars == <<vars, commandVars, reviewVars>>

Proposed == [status |-> "PROPOSED", by |-> None]

CommandsInit ==
  /\ Init
  /\ asked = [c \in Clients |-> None]
  /\ about = [j \in JobIds |-> None]
  /\ optimizations = <<>>
  /\ backtests = {}
  /\ decision = [d \in Decisions |-> Proposed]
  /\ trail = [d \in Decisions |-> <<>>]
  /\ review = [c \in Clients |-> None]

-----------------------------------------------------------------------------
(* Submitting an optimisation or a backtest run.                           *)

Optimises(c) == asked[c] # None /\ asked[c].kind = "optimization"

\* Mutant of Locks: an optimisation takes no lock.
LocksNothing(c, k) == FALSE

\* pg_advisory_xact_lock(hashtext(key)), held while the session that looked for
\* the key and found nothing is open.
Locks(c, k) == Optimises(c) /\ fresh[c] /\ ckey[c] = k

Ask(c, kind, target) ==
  asked' = [asked EXCEPT ![c] = [kind |-> kind, target |-> target]]

\* submit_optimization: wait for the lock, check the portfolio and its reader,
\* look for a job under the key.  A job that is found ends the session, and with
\* it the lock; the request goes on in a second session.
SubmitOptimization(c, p, k) ==
  /\ \A d \in Clients \ {c} : ~Locks(d, k)
  /\ c \in Readers[p]
  /\ Lookup(c, k)
  /\ Ask(c, "optimization", p)
  /\ UNCHANGED <<about, optimizations, backtests, reviewVars>>

\* create_backtest.
CreateBacktest(b) ==
  /\ b \notin backtests
  /\ backtests' = backtests \cup {b}
  /\ UNCHANGED <<vars, asked, about, optimizations, reviewVars>>

\* run_backtest: the record is looked for in a session of its own.
RunBacktest(c, b, k) ==
  /\ b \in backtests
  /\ Lookup(c, k)
  /\ Ask(c, "backtest", b)
  /\ UNCHANGED <<about, optimizations, backtests, reviewVars>>

\* JobSubmitter.submit, statement by statement.
SelectJob(c) == Select(c) /\ UNCHANGED <<commandVars, reviewVars>>
InsertJob(c) == Insert(c) /\ UNCHANGED <<commandVars, reviewVars>>
ReselectJob(c) == Reselect(c) /\ UNCHANGED <<commandVars, reviewVars>>

\* An optimisation that found no job has added its record, which the session
\* flushes before any later statement.
Files(c) == Optimises(c) /\ fresh[c]

\* The resource a new job names.
Resource(c) ==
  IF Optimises(c) THEN Len(optimizations) + 1 ELSE asked[c].target

\* The new job names what its request is about.
NameJob(c) ==
  about' = IF draft[c] = None THEN about
           ELSE [about EXCEPT ![draft[c]] =
                   [kind |-> asked[c].kind, resource |-> Resource(c)]]

\* Mutant of CommitCommand: the job is committed without the record.
CommitJobOnly(c) ==
  /\ CommitJob(c) /\ NameJob(c)
  /\ asked' = [asked EXCEPT ![c] = None]
  /\ UNCHANGED <<audits, optimizations, backtests, reviewVars>>

\* session.commit(): the job, if this request inserted one, and the record, if it
\* added one.  The caller is answered with the job of its key.
CommitCommand(c) ==
  /\ CommitJob(c) /\ NameJob(c)
  /\ optimizations' =
       IF Files(c)
       THEN Append(optimizations, [portfolio |-> asked[c].target, key |-> ckey[c]])
       ELSE optimizations
  /\ asked' = [asked EXCEPT ![c] = None]
  /\ UNCHANGED <<audits, backtests, reviewVars>>

\* The request fails, or its process dies, before the commit.
AbortCommand(c) ==
  /\ AbortSubmit(c)
  /\ asked' = [asked EXCEPT ![c] = None]
  /\ UNCHANGED <<about, optimizations, backtests, reviewVars>>

-----------------------------------------------------------------------------
(* review_decision.                                                        *)

\* The decision is read, without a lock, and its status is not looked at; the
\* audit row is flushed and the new payload made from the copy that was read.
Review(c, d, action) ==
  /\ review[c] = None
  /\ review' = [review EXCEPT ![c] = [decision |-> d, status |-> action]]
  /\ UNCHANGED <<vars, commandVars, decision, trail>>

\* session.commit(): audit row and payload.  Whoever commits last is shown.
CommitReview(c) ==
  /\ review[c] # None
  /\ LET d == review[c].decision
         shown == [status |-> review[c].status, by |-> c]
     IN  /\ Len(trail[d]) < MaxReviews
         /\ decision' = [decision EXCEPT ![d] = shown]
         /\ trail' = [trail EXCEPT ![d] = Append(@, shown)]
  /\ review' = [review EXCEPT ![c] = None]
  /\ UNCHANGED <<vars, commandVars>>

AbortReview(c) ==
  /\ review[c] # None
  /\ review' = [review EXCEPT ![c] = None]
  /\ UNCHANGED <<vars, commandVars, decision, trail>>

-----------------------------------------------------------------------------
Command(c) ==
  \/ \E k \in Keys : \/ \E p \in Portfolios : SubmitOptimization(c, p, k)
                    \/ \E b \in Backtests : RunBacktest(c, b, k)
  \/ SelectJob(c) \/ InsertJob(c) \/ ReselectJob(c)
  \/ CommitCommand(c) \/ AbortCommand(c)
  \/ \E d \in Decisions, a \in Actions : Review(c, d, a)
  \/ CommitReview(c) \/ AbortReview(c)

\* The workers of the queue take the jobs; no handler is registered for them.
Execute(w) == Work(w) /\ UNCHANGED <<commandVars, reviewVars>>

CommandsNext ==
  \/ \E c \in Clients : Command(c)
  \/ \E b \in Backtests : CreateBacktest(b)
  \/ \E w \in Workers : Execute(w)

CommandsSpec == CommandsInit /\ [][CommandsNext]_allVars

-----------------------------------------------------------------------------
(* Properties.                                                             *)

Named(j) == Exists(j) /\ about[j].kind = "optimization"

\* The job of an optimisation names the record that its own request added, which
\* no other job names: record and job are committed together, whatever fails.  A
\* record that no job names is left only where a backtest run took the key in
\* between: of two optimisations under one key, which the lock keeps apart, the
\* second adds none.
RecordsMatchJobs ==
  /\ \A i, j \in JobIds :
      /\ Named(j) => /\ about[j].resource \in DOMAIN optimizations
                     /\ optimizations[about[j].resource].key = job[j].key
      /\ i # j /\ Named(i) /\ Named(j) => about[i].resource # about[j].resource
  /\ \A i \in DOMAIN optimizations :
      \E j \in Committed(optimizations[i].key) :
        about[j] = [kind |-> "optimization", resource |-> i] \/ about[j].kind = "backtest"
=============================================================================
