------------------------------ MODULE JobQueue ------------------------------
(***************************************************************************)
(* The durable calculation-job queue of src/fip/platform/jobs:             *)
(* API requests that submit a job under an idempotency key                 *)
(* (submitter.py, called as in routers/fund_ingestions.py), and worker     *)
(* processes that claim a job, run its handler and record the outcome      *)
(* (executor.py, worker.py).                                               *)
(*                                                                         *)
(* Both sides are PostgreSQL transactions at READ COMMITTED: one action is *)
(* one statement that reads or locks, a transaction's writes stay private  *)
(* (draft, held row) until its commit, and a crash or an error loses them. *)
(***************************************************************************)
EXTENDS Naturals

CONSTANTS
  Keys,          \* idempotency keys, already scoped by user, target and data set
  Clients,       \* API request threads
  Workers,       \* worker processes
  Unhandled,     \* keys whose job type has no registered handler
  Poison,        \* keys whose handler raises every time
  MaxJobs,       \* bound: ids the sequence hands out
  MaxChunks,     \* bound: handler runs that a job needs at most
  MaxNow,        \* bound: the clock
  LeaseSeconds,  \* worker_lease_seconds
  None           \* SQL NULL / no value

ASSUME NoneAssumption ==
  None \notin Keys \cup Workers \cup Nat

ASSUME BoundsAssumption ==
  MaxJobs \in Nat /\ MaxChunks \in Nat \ {0} /\ MaxNow \in Nat
  /\ LeaseSeconds \in Nat \ {0}

ASSUME KindsAssumption ==
  Unhandled \subseteq Keys /\ Poison \subseteq Keys

VARIABLES
  job,      \* committed rows of governance.calculation_job, by id
  lastId,   \* the id sequence: never rolled back
  now,      \* wall clock
  applied,  \* committed effects of a job's handler (NAV rows, revisions...)
  audits,   \* committed SUBMITTED rows of the audit log, by job id
  cpc,      \* where a request is in submit_fund_ingestion / JobSubmitter.submit
  ckey,     \* its idempotency key
  began,    \* start of its transaction: now() for the whole transaction
  fresh,    \* its own first SELECT found no job ("existing is None")
  draft,    \* id of the row it has inserted and not committed
  answer,   \* the job it is about to return, or has last returned
  wpc,      \* where a worker is in execute_one / run_once
  locked,   \* rows it holds FOR UPDATE
  held,     \* id of the job it executes
  row,      \* its uncommitted version of that job
  effect    \* effects of the handler in its open transaction

clientVars == <<cpc, ckey, began, fresh, draft, answer>>
workerVars == <<wpc, locked, held, row, effect>>
vars == <<job, lastId, now, applied, audits, clientVars, workerVars>>

JobIds == 1 .. MaxJobs
Terminal == {"COMPLETED", "BLOCKED", "FAILED", "CANCELLED"}
ExecutionStatus == {"RUNNING"} \cup Terminal

\* The columns of calculation_job that steer the queue.
CalculationJob ==
  [key: Keys, created: 0..MaxNow, status: ExecutionStatus,
   claimedBy: Workers \cup {None}, lease: Nat \cup {None},
   error: BOOLEAN, chunks: 0..MaxChunks]

ASSUME RowAssumption == None \notin CalculationJob

Exists(j) == job[j] # None
Committed(k) == {j \in JobIds : Exists(j) /\ job[j].key = k}
JobOf(k) == IF Committed(k) = {} THEN None ELSE CHOOSE j \in Committed(k) : TRUE

-----------------------------------------------------------------------------
Init ==
  /\ job = [j \in JobIds |-> None]
  /\ lastId = 0
  /\ now = 0
  /\ applied = [j \in JobIds |-> 0]
  /\ audits = [j \in JobIds |-> 0]
  /\ cpc = [c \in Clients |-> "idle"]
  /\ ckey = [c \in Clients |-> None]
  /\ began = [c \in Clients |-> 0]
  /\ fresh = [c \in Clients |-> FALSE]
  /\ draft = [c \in Clients |-> None]
  /\ answer = [c \in Clients |-> None]
  /\ wpc = [w \in Workers |-> "idle"]
  /\ locked = [w \in Workers |-> {}]
  /\ held = [w \in Workers |-> None]
  /\ row = [w \in Workers |-> None]
  /\ effect = [w \in Workers |-> 0]

-----------------------------------------------------------------------------
(* Submission: submit_fund_ingestion and the JobSubmitter it calls.        *)

\* A request opens its transaction and looks for a job under its key; what it
\* sees only decides, later, whether it writes an audit row.
Lookup(c, k) ==
  /\ cpc[c] = "idle"
  /\ cpc' = [cpc EXCEPT ![c] = "select"]
  /\ ckey' = [ckey EXCEPT ![c] = k]
  /\ began' = [began EXCEPT ![c] = now]
  /\ fresh' = [fresh EXCEPT ![c] = Committed(k) = {}]
  /\ answer' = [answer EXCEPT ![c] = None]
  /\ UNCHANGED <<job, lastId, now, applied, audits, draft, workerVars>>

\* JobSubmitter.submit: SELECT by key, return the existing job if there is one.
Select(c) ==
  /\ cpc[c] = "select"
  /\ answer' = [answer EXCEPT ![c] = JobOf(ckey[c])]
  /\ cpc' = [cpc EXCEPT ![c] = IF answer'[c] = None THEN "insert" ELSE "commit"]
  /\ UNCHANGED <<job, lastId, now, applied, audits, ckey, began, fresh, draft,
                 workerVars>>

\* INSERT inside a SAVEPOINT.  The unique index makes it wait for an open
\* transaction that has inserted the same key; a committed duplicate raises
\* IntegrityError, which rolls back to the savepoint only.
Insert(c) ==
  /\ cpc[c] = "insert"
  /\ \A d \in Clients : draft[d] # None => ckey[d] # ckey[c]
  /\ IF Committed(ckey[c]) # {}
     THEN /\ cpc' = [cpc EXCEPT ![c] = "reselect"]
          /\ UNCHANGED <<lastId, draft, answer>>
     ELSE /\ lastId < MaxJobs
          /\ lastId' = lastId + 1
          /\ draft' = [draft EXCEPT ![c] = lastId + 1]
          /\ answer' = [answer EXCEPT ![c] = lastId + 1]
          /\ cpc' = [cpc EXCEPT ![c] = "commit"]
  /\ UNCHANGED <<job, now, applied, audits, ckey, began, fresh, workerVars>>

\* except IntegrityError: SELECT the winner's row; with none, raise again.
Reselect(c) ==
  /\ cpc[c] = "reselect"
  /\ answer' = [answer EXCEPT ![c] = JobOf(ckey[c])]
  /\ cpc' = [cpc EXCEPT ![c] = IF answer'[c] = None THEN "raised" ELSE "commit"]
  /\ UNCHANGED <<job, lastId, now, applied, audits, ckey, began, fresh, draft,
                 workerVars>>

NewJob(k, t) ==
  [key |-> k, created |-> t, status |-> "RUNNING", claimedBy |-> None,
   lease |-> None, error |-> FALSE, chunks |-> 0]

\* The session closes: nothing of its transaction is left.
EndRequest(c) ==
  /\ cpc' = [cpc EXCEPT ![c] = "idle"]
  /\ ckey' = [ckey EXCEPT ![c] = None]
  /\ began' = [began EXCEPT ![c] = 0]
  /\ fresh' = [fresh EXCEPT ![c] = FALSE]
  /\ draft' = [draft EXCEPT ![c] = None]

\* session.commit(): the new row, if this request inserted one.
CommitJob(c) ==
  /\ cpc[c] = "commit"
  /\ job' = IF draft[c] = None THEN job
            ELSE [job EXCEPT ![draft[c]] = NewJob(ckey[c], began[c])]
  /\ EndRequest(c)
  /\ UNCHANGED <<lastId, now, applied, answer, workerVars>>

\* With it, the SUBMITTED audit row, if this request's first SELECT found no job.
CommitSubmit(c) ==
  /\ CommitJob(c)
  /\ audits' = IF fresh[c] THEN [audits EXCEPT ![answer[c]] = @ + 1] ELSE audits

\* The request fails anywhere before its commit (error, lost connection,
\* process killed): PostgreSQL rolls the transaction back.
AbortSubmit(c) ==
  /\ cpc[c] # "idle"
  /\ EndRequest(c)
  /\ answer' = [answer EXCEPT ![c] = None]
  /\ UNCHANGED <<job, lastId, now, applied, audits, workerVars>>

-----------------------------------------------------------------------------
(* Execution: JobExecutor.execute_one inside worker.run_once.              *)

\* Mutant of Eligible: the status is not part of the WHERE clause.
EligibleAnyStatus(j) ==
  /\ Exists(j)
  /\ job[j].lease = None \/ job[j].lease <= now
  /\ \A w \in Workers : j \notin locked[w]

\* The SELECT of claim_one: RUNNING, no lease or a lease that has run out, and
\* (SKIP LOCKED) no other transaction's lock on the row.
Eligible(j) ==
  /\ Exists(j)
  /\ job[j].status = "RUNNING"
  /\ job[j].lease = None \/ job[j].lease <= now
  /\ \A w \in Workers : j \notin locked[w]

\* Mutant of Claimable: plain SELECT, no FOR UPDATE SKIP LOCKED.
ClaimableUnlocked ==
  {j \in JobIds : Exists(j) /\ job[j].status = "RUNNING"
                   /\ (job[j].lease = None \/ job[j].lease <= now)}

Claimable == {j \in JobIds : Eligible(j)}

\* ORDER BY created_at, id.
Before(i, j) ==
  \/ job[i].created < job[j].created
  \/ job[i].created = job[j].created /\ i < j

\* Mutant of Claim: newest first.
ClaimNewest(w) ==
  /\ wpc[w] = "idle"
  /\ \E j \in Claimable :
       /\ \A i \in Claimable \ {j} : Before(i, j)
       /\ held' = [held EXCEPT ![w] = j]
       /\ row' = [row EXCEPT ![w] = [job[j] EXCEPT !.claimedBy = w,
                                                   !.lease = now + LeaseSeconds]]
  /\ locked' = [locked EXCEPT ![w] = Claimable]
  /\ wpc' = [wpc EXCEPT ![w] = "handling"]
  /\ UNCHANGED <<job, lastId, now, applied, audits, clientVars, effect>>

\* The statement has no LIMIT: it locks every claimable row and keeps the first.
Claim(w) ==
  /\ wpc[w] = "idle"
  /\ \E j \in Claimable :
       /\ \A i \in Claimable \ {j} : Before(j, i)
       /\ held' = [held EXCEPT ![w] = j]
       /\ row' = [row EXCEPT ![w] = [job[j] EXCEPT !.claimedBy = w,
                                                   !.lease = now + LeaseSeconds]]
  /\ locked' = [locked EXCEPT ![w] = Claimable]
  /\ wpc' = [wpc EXCEPT ![w] = "handling"]
  /\ UNCHANGED <<job, lastId, now, applied, audits, clientVars, effect>>

\* execute_one after the handler: outcome written, claim and lease cleared.
Release(w, status, error, n) ==
  /\ row' = [row EXCEPT ![w] = [row[w] EXCEPT !.status = status, !.error = error,
                                              !.claimedBy = None, !.lease = None,
                                              !.chunks = row[w].chunks + n]]
  /\ effect' = [effect EXCEPT ![w] = n]
  /\ wpc' = [wpc EXCEPT ![w] = "commit"]
  /\ UNCHANGED <<job, lastId, now, applied, audits, clientVars, locked, held>>

\* The handler returns an outcome; what it wrote stays in the transaction.
\* A handler that answers RUNNING has more chunks to do.
Return(w, status) ==
  /\ wpc[w] = "handling"
  /\ row[w].key \notin Unhandled \cup Poison
  /\ row[w].chunks < MaxChunks
  /\ status = "RUNNING" => row[w].chunks + 1 < MaxChunks
  /\ Release(w, status, status \in {"FAILED", "BLOCKED"}, 1)

\* The handler raises: the SAVEPOINT takes back what it wrote and the job
\* stays RUNNING with HANDLER_EXCEPTION.
Raise(w) ==
  /\ wpc[w] = "handling"
  /\ row[w].key \notin Unhandled
  /\ Release(w, "RUNNING", TRUE, 0)

\* outcome_for finds no handler: FAILED with HANDLER_UNAVAILABLE.
NoHandler(w) ==
  /\ wpc[w] = "handling"
  /\ row[w].key \in Unhandled
  /\ Release(w, "FAILED", TRUE, 0)

Unlock(w) ==
  /\ wpc' = [wpc EXCEPT ![w] = "idle"]
  /\ locked' = [locked EXCEPT ![w] = {}]
  /\ held' = [held EXCEPT ![w] = None]
  /\ row' = [row EXCEPT ![w] = None]
  /\ effect' = [effect EXCEPT ![w] = 0]
  /\ UNCHANGED <<lastId, now, audits, clientVars>>

\* run_once's single commit publishes the row and the handler's effects.
CommitWork(w) ==
  /\ wpc[w] = "commit"
  /\ job' = [job EXCEPT ![held[w]] = row[w]]
  /\ applied' = [applied EXCEPT ![held[w]] = @ + effect[w]]
  /\ Unlock(w)

\* Mutant of CrashWork: the handler commits what it wrote in its own session.
CrashKeepsEffects(w) ==
  /\ wpc[w] # "idle"
  /\ applied' = [applied EXCEPT ![held[w]] = @ + effect[w]]
  /\ UNCHANGED job
  /\ Unlock(w)

\* The worker dies or its commit fails: everything it did is rolled back.
CrashWork(w) ==
  /\ wpc[w] # "idle"
  /\ UNCHANGED <<job, applied>>
  /\ Unlock(w)

Tick ==
  /\ now < MaxNow
  /\ now' = now + 1
  /\ UNCHANGED <<job, lastId, applied, audits, clientVars, workerVars>>

-----------------------------------------------------------------------------
Submit(c) ==
  \/ \E k \in Keys : Lookup(c, k)
  \/ Select(c)
  \/ Insert(c)
  \/ Reselect(c)
  \/ CommitSubmit(c)
  \/ AbortSubmit(c)

Work(w) ==
  \/ Claim(w)
  \/ \E s \in ExecutionStatus : Return(w, s)
  \/ Raise(w)
  \/ NoHandler(w)
  \/ CommitWork(w)
  \/ CrashWork(w)

Next ==
  \/ \E c \in Clients : Submit(c)
  \/ \E w \in Workers : Work(w)
  \/ Tick

Spec == Init /\ [][Next]_vars

-----------------------------------------------------------------------------
(* Properties.                                                             *)

\* Every variable stays in its type.
TypeOK ==
  /\ job \in [JobIds -> CalculationJob \cup {None}]
  /\ lastId \in 0..MaxJobs
  /\ now \in 0..MaxNow
  /\ applied \in [JobIds -> Nat]
  /\ audits \in [JobIds -> Nat]
  /\ cpc \in [Clients -> {"idle", "select", "insert", "reselect", "commit", "raised"}]
  /\ ckey \in [Clients -> Keys \cup {None}]
  /\ began \in [Clients -> 0..MaxNow]
  /\ fresh \in [Clients -> BOOLEAN]
  /\ draft \in [Clients -> JobIds \cup {None}]
  /\ answer \in [Clients -> JobIds \cup {None}]
  /\ wpc \in [Workers -> {"idle", "handling", "commit"}]
  /\ locked \in [Workers -> SUBSET JobIds]
  /\ held \in [Workers -> JobIds \cup {None}]
  /\ row \in [Workers -> CalculationJob \cup {None}]
  /\ effect \in [Workers -> {0, 1}]

\* However submissions race, commit and roll back, a key has one job at most.
UniqueKeys ==
  \A i, j \in JobIds :
    Exists(i) /\ Exists(j) /\ job[i].key = job[j].key => i = j

\* After an IntegrityError the second SELECT always finds the winner's row:
\* submit never raises again, because the INSERT has waited for the winner.
NeverRaises == \A c \in Clients : cpc[c] # "raised"

\* No worker works from a stale copy: the job it executes is still RUNNING, no
\* other worker executes it, and nobody has recorded progress behind its back.
NoStaleWork ==
  \A w \in Workers :
    held[w] # None =>
      /\ Exists(held[w])
      /\ job[held[w]].status = "RUNNING"
      /\ row[w].chunks = job[held[w]].chunks + effect[w]
      /\ \A v \in Workers \ {w} : held[v] # held[w]

\* The effects a handler has committed are those its job's progress records,
\* through handler exceptions (savepoint) and worker crashes alike.
EffectsMatchProgress ==
  \A j \in JobIds : Exists(j) => applied[j] = job[j].chunks

\* A claim never outlives its transaction: a RUNNING job that no live worker
\* has locked can be claimed at once, without waiting for a lease to run out.
CrashFreesJob ==
  \A j \in JobIds :
    /\ Exists(j)
    /\ job[j].status = "RUNNING"
    /\ \A w \in Workers : j \notin locked[w]
    => Eligible(j)

\* A job and its SUBMITTED audit row are committed together: neither exists
\* without the other.
AuditTrail == \A j \in JobIds : audits[j] > 0 <=> Exists(j)

-----------------------------------------------------------------------------
(* The queue implements the ledger.                                        *)

ASSUME EntryAssumption == None \notin [status: ExecutionStatus, work: Nat]

LedgerEntry(k) ==
  LET j == JobOf(k)
  IN  IF j = None THEN None ELSE [status |-> job[j].status, work |-> applied[j]]

\* A client knows its answer once its request is over.
Told(c) ==
  IF cpc[c] = "idle" /\ answer[c] # None THEN job[answer[c]].key ELSE None

Ledger == INSTANCE JobLedger WITH
  ledger <- [k \in Keys |-> LedgerEntry(k)],
  told <- [c \in Clients |-> Told(c)],
  Statuses <- ExecutionStatus, Final <- Terminal, Nothing <- None

\* Every step of the queue is a step of the ledger or changes nothing in it.
LedgerSpec == Ledger!Spec

-----------------------------------------------------------------------------
(* Liveness.                                                               *)

\* Workers are run again and again (the loop of worker.main), a job's worker
\* does not crash in every run, and a handler outside Poison does not raise in
\* every run.
Fairness ==
  /\ \A w \in Workers : WF_vars(Claim(w))
  /\ \A j \in JobIds :
       /\ SF_vars(\E w \in Workers : held[w] = j /\ NoHandler(w))
       /\ SF_vars(\E w \in Workers, s \in ExecutionStatus : held[w] = j /\ Return(w, s))
       /\ SF_vars(\E w \in Workers : /\ held[w] = j
                                     /\ row[w].status # "RUNNING" \/ effect[w] = 1
                                     /\ CommitWork(w))
  \* A poisoned handler still ends, and so frees the rows its worker locks.
  /\ \A w \in Workers : WF_vars(Raise(w)) /\ WF_vars(CommitWork(w))

FairSpec == Spec /\ Fairness

\* Every job ends, unless a job whose handler always raises is ahead of it:
\* that one stays RUNNING at the head of the order and is claimed each time.
HealthyJobsEnd ==
  \A j \in JobIds :
    (Exists(j) /\ job[j].key \notin Poison) ~>
      \/ Exists(j) /\ job[j].status \in Terminal
      \/ \E i \in JobIds : Exists(i) /\ Exists(j)
                            /\ job[i].key \in Poison /\ Before(i, j)
=============================================================================
