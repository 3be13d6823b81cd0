--------------------------- MODULE ScopedIngestion ---------------------------
(***************************************************************************)
(* Scoped data ingestion (routers/fund_ingestions.py, and the handler in   *)
(* jobs/fund_ingestion.py): a user previews a set of funds, submits the    *)
(* preview as an operation with one item per fund, a worker runs the items *)
(* a chunk at a time, and the user may cancel the operation or retry its   *)
(* failed items as an operation of its own.                                *)
(*                                                                         *)
(* The operation is a job of JobQueue.tla.  What that module proves is     *)
(* used here: JobSubmitter.submit is one step that waits for an open       *)
(* transaction with the same key and then finds its job or inserts one,    *)
(* and a worker's lock on a job lasts until its transaction ends.          *)
(***************************************************************************)
EXTENDS Naturals, FiniteSets

CONSTANTS
  NumFunds,    \* funds, numbered in the order of their codes
  ChunkSize,   \* items a handler run takes (50 in the code)
  Previews,    \* preview ids
  SubmitKeys,  \* idempotency keys of submissions (fund-ingestion-scoped|...)
  RetryKeys,   \* idempotency keys of retries (fund-ingestion-retry|...)
  Requests,    \* API request threads
  Workers,     \* worker processes
  MaxOps,      \* bound: ids the sequence hands out
  None         \* SQL NULL / no value

ASSUME SizeAssumption ==
  NumFunds \in Nat /\ ChunkSize \in Nat \ {0} /\ MaxOps \in Nat

ASSUME KeyAssumption ==
  SubmitKeys \cap RetryKeys = {}
  /\ None \notin SubmitKeys \cup RetryKeys \cup Previews \cup Nat

VARIABLES
  catalogue,  \* what each fund resolves to: absent, unmapped or mapped to AKSHARE
  preview,    \* stored previews: the frozen members, and whether they expired
  op,         \* committed rows of calculation_job, by id in order of creation
  items,      \* committed status of the operation's item for each fund
  attempts,   \* committed attempts of that item
  submitted,  \* SUBMITTED and RETRY audit rows of an operation
  lastOp,     \* the id sequence: never rolled back
  req,        \* the open transaction of each request
  tx,         \* the open transaction of each worker: its copy of what it executes
  locked      \* operations it holds FOR UPDATE

vars == <<catalogue, preview, op, items, attempts, submitted, lastOp,
          req, tx, locked>>

Funds == 1 .. NumFunds
Ops == 1 .. MaxOps
Keys == SubmitKeys \cup RetryKeys
Settled == {"SUCCESS", "FAILED", "SKIPPED", "CANCELLED"}
ItemStatus == {"PENDING"} \cup Settled
Resolution == [Funds -> {"absent", "unmapped", "mapped"}]
Items == [Funds -> {"NONE"} \cup ItemStatus]

\* A calculation_job row of an operation, and a stored preview.
Op ==
  [key: Keys, preview: Previews, parent: Ops \cup {None},
   status: {"RUNNING", "COMPLETED", "FAILED", "CANCELLED"}, cancel: BOOLEAN,
   progress: Nat, counts: [Settled -> Nat]]
Scoped == [members: Resolution, expired: BOOLEAN]

ASSUME RowAssumption == None \notin Op /\ None \notin Scoped

Exists(o) == op[o] # None
Committed(k) == {o \in Ops : Exists(o) /\ op[o].key = k}
With(list, status) == {f \in Funds : list[f] = status}
NoItems == [f \in Funds |-> "NONE"]
Counts(list) == [s \in Settled |-> Cardinality(With(list, s))]
NumSettled(list) == Cardinality({f \in Funds : list[f] \in Settled})

NoRequest == [pc |-> "idle", key |-> None, preview |-> None, parent |-> None,
              failed |-> {}, answer |-> None]

Init ==
  /\ catalogue \in Resolution
  /\ preview = [p \in Previews |-> None]
  /\ op = [o \in Ops |-> None]
  /\ items = [o \in Ops |-> NoItems]
  /\ attempts = [o \in Ops |-> [f \in Funds |-> 0]]
  /\ submitted = [o \in Ops |-> 0]
  /\ lastOp = 0
  /\ req = [r \in Requests |-> NoRequest]
  /\ tx = [w \in Workers |-> None]
  /\ locked = [w \in Workers |-> {}]

opVars == <<op, items, attempts, submitted, lastOp>>
workVars == <<tx, locked>>

-----------------------------------------------------------------------------
(* Scope: the catalogue and the previews taken of it.                      *)

\* A request that has re-resolved its scope holds SHARE locks on the tables the
\* scope is read from, until its transaction ends.
Freezes(r) == req[r].pc \in {"insert", "commit"} /\ req[r].parent = None

\* Somebody edits the catalogue or a provider mapping; SHARE locks keep it out.
Remap(f, state) ==
  /\ \A r \in Requests : ~Freezes(r)
  /\ catalogue[f] # state
  /\ catalogue' = [catalogue EXCEPT ![f] = state]
  /\ UNCHANGED <<preview, opVars, req, workVars>>

\* preview_fund_ingestion: resolve the scope under SHARE locks and store it.
Preview(p) ==
  /\ preview[p] = None
  /\ preview' = [preview EXCEPT ![p] = [members |-> catalogue, expired |-> FALSE]]
  /\ UNCHANGED <<catalogue, opVars, req, workVars>>

\* Fifteen minutes pass.
Expire(p) ==
  /\ preview[p] # None
  /\ ~preview[p].expired
  /\ preview' = [preview EXCEPT ![p].expired = TRUE]
  /\ UNCHANGED <<catalogue, opVars, req, workVars>>

-----------------------------------------------------------------------------
(* Requests.  One that finds a job under its key answers with it, or with a *)
(* conflict when it belongs to another preview or parent: no step here.     *)

End(r) == req' = [req EXCEPT ![r] = NoRequest]

\* submit_scoped_fund_ingestion up to the expiry check.
LookSubmit(r, k, p) ==
  /\ req[r].pc = "idle"
  /\ preview[p] # None
  /\ Committed(k) = {}
  /\ ~preview[p].expired
  /\ req' = [req EXCEPT ![r].pc = "freeze", ![r].key = k, ![r].preview = p]
  /\ UNCHANGED <<catalogue, preview, opVars, workVars>>

\* Mutant of Freeze: the hash of the scope is not compared.
FreezeTrusting(r) ==
  /\ req[r].pc = "freeze"
  /\ req' = [req EXCEPT ![r].pc = "insert"]
  /\ UNCHANGED <<catalogue, preview, opVars, workVars>>

\* Lock the scope's tables, resolve it again and compare the hash; a scope that
\* changed since the preview is a conflict.
Freeze(r) ==
  /\ req[r].pc = "freeze"
  /\ IF catalogue = preview[req[r].preview].members
     THEN req' = [req EXCEPT ![r].pc = "insert"]
     ELSE End(r)
  /\ UNCHANGED <<catalogue, preview, opVars, workVars>>

\* Mutant of LookRetry: an operation that still runs can be retried.
LookRetryRunning(r, k, o) ==
  /\ req[r].pc = "idle"
  /\ Exists(o)
  /\ \A w \in Workers : o \notin locked[w]
  /\ \A q \in Requests : req[q].parent # o
  /\ Committed(k) = {}
  /\ With(items[o], "FAILED") # {}
  /\ req' = [req EXCEPT ![r].pc = "insert", ![r].key = k, ![r].parent = o,
                        ![r].failed = With(items[o], "FAILED")]
  /\ UNCHANGED <<catalogue, preview, opVars, workVars>>

\* retry_ingestion_failures up to JobSubmitter: it waits for the parent's row and
\* keeps it locked, and reads the parent's failed items.
LookRetry(r, k, o) ==
  /\ req[r].pc = "idle"
  /\ Exists(o)
  /\ \A w \in Workers : o \notin locked[w]
  /\ \A q \in Requests : req[q].parent # o
  /\ op[o].status # "RUNNING"
  /\ Committed(k) = {}
  /\ With(items[o], "FAILED") # {}
  /\ req' = [req EXCEPT ![r].pc = "insert", ![r].key = k, ![r].parent = o,
                        ![r].failed = With(items[o], "FAILED")]
  /\ UNCHANGED <<catalogue, preview, opVars, workVars>>

\* A request has inserted a job and not committed it.
Drafts(r) == req[r].pc = "commit" /\ ~Exists(req[r].answer)

\* The preview or the parent that the operation under the key was made for.
SameTarget(r, o) ==
  IF req[r].parent = None THEN op[o].preview = req[r].preview
  ELSE op[o].parent = req[r].parent

\* Mutant of Insert: the job that won the race is returned unseen.
InsertTrusting(r) ==
  /\ req[r].pc = "insert"
  /\ \A q \in Requests : req[q].key = req[r].key => ~Drafts(q)
  /\ IF Committed(req[r].key) = {}
     THEN lastOp < MaxOps /\ lastOp' = lastOp + 1
     ELSE UNCHANGED lastOp
  /\ \E o \in Ops :
       /\ IF Committed(req[r].key) = {} THEN o = lastOp'
          ELSE o \in Committed(req[r].key)
       /\ req' = [req EXCEPT ![r].pc = "commit", ![r].answer = o]
  /\ UNCHANGED <<catalogue, preview, op, items, attempts, submitted,
                 workVars>>

\* JobSubmitter.submit: a new row, or the row of the request that won the race
\* for the key; one made for another target is a conflict.
Insert(r) ==
  /\ req[r].pc = "insert"
  /\ \A q \in Requests : req[q].key = req[r].key => ~Drafts(q)
  /\ IF Committed(req[r].key) = {}
     THEN /\ lastOp < MaxOps
          /\ lastOp' = lastOp + 1
          /\ req' = [req EXCEPT ![r].pc = "commit", ![r].answer = lastOp + 1]
     ELSE /\ UNCHANGED lastOp
          /\ \E o \in Committed(req[r].key) :
               IF SameTarget(r, o)
               THEN req' = [req EXCEPT ![r].pc = "commit", ![r].answer = o]
               ELSE End(r)
  /\ UNCHANGED <<catalogue, preview, op, items, attempts, submitted,
                 workVars>>

\* The items of a submission: SKIPPED for a fund without a mapping.
SubmitItems(p) ==
  [f \in Funds |-> CASE preview[p].members[f] = "mapped" -> "PENDING"
                     [] preview[p].members[f] = "unmapped" -> "SKIPPED"
                     [] OTHER -> "NONE"]

\* The items of a retry.
RetryItems(failed) == [f \in Funds |-> IF f \in failed THEN "PENDING" ELSE "NONE"]

NewItems(r) ==
  IF req[r].parent = None THEN SubmitItems(req[r].preview)
  ELSE RetryItems(req[r].failed)

\* Its row, with skipped items counted as progress.  The payload of a retry is
\* the parent's without cancel_requested.
NewOp(r) ==
  [key |-> req[r].key,
   preview |-> IF req[r].parent = None THEN req[r].preview
               ELSE op[req[r].parent].preview,
   parent |-> req[r].parent,
   status |-> "RUNNING", cancel |-> FALSE,
   progress |-> NumSettled(NewItems(r)), counts |-> Counts(NewItems(r))]

\* Mutant of CommitRequest: an answered request writes its audit row as well.
CommitAudited(r) ==
  /\ req[r].pc = "commit"
  /\ LET o == req[r].answer
     IN  /\ submitted' = [submitted EXCEPT ![o] = @ + 1]
         /\ IF items[o] = NoItems
            THEN /\ op' = IF Exists(o) THEN op ELSE [op EXCEPT ![o] = NewOp(r)]
                 /\ items' = [items EXCEPT ![o] = NewItems(r)]
            ELSE UNCHANGED <<op, items>>
  /\ End(r)
  /\ UNCHANGED <<catalogue, preview, attempts, lastOp, workVars>>

\* One commit for the job, its items and its audit row; a job that already has
\* items is left as it is.  A job found without any (an empty scope) gets its
\* counts, all zero, once more.
CommitRequest(r) ==
  /\ req[r].pc = "commit"
  /\ LET o == req[r].answer
     IN  IF items[o] = NoItems
         THEN /\ op' = IF Exists(o) THEN op ELSE [op EXCEPT ![o] = NewOp(r)]
              /\ items' = [items EXCEPT ![o] = NewItems(r)]
              /\ submitted' = [submitted EXCEPT ![o] = @ + 1]
         ELSE UNCHANGED <<op, items, submitted>>
  /\ End(r)
  /\ UNCHANGED <<catalogue, preview, attempts, lastOp, workVars>>

\* The request fails before its commit and PostgreSQL rolls it back.
AbortRequest(r) ==
  /\ req[r].pc # "idle"
  /\ End(r)
  /\ UNCHANGED <<catalogue, preview, opVars, workVars>>

\* Mutant of Cancel: the row is read without FOR UPDATE.
CancelUnlocked(o) ==
  /\ Exists(o)
  /\ op[o].status = "RUNNING"
  /\ ~op[o].cancel
  /\ op' = [op EXCEPT ![o].cancel = TRUE]
  /\ UNCHANGED <<catalogue, preview, items, attempts, submitted, lastOp, req,
                 workVars>>

\* cancel_ingestion: waits for the worker that holds the row, so that it comes
\* between two chunks; a finished operation is a conflict, and a second request
\* changes nothing.
Cancel(o) ==
  /\ Exists(o)
  /\ \A w \in Workers : o \notin locked[w]
  /\ op[o].status = "RUNNING"
  /\ ~op[o].cancel
  /\ op' = [op EXCEPT ![o].cancel = TRUE]
  /\ UNCHANGED <<catalogue, preview, items, attempts, submitted, lastOp, req,
                 workVars>>

-----------------------------------------------------------------------------
(* The worker.                                                             *)

Claimable ==
  {o \in Ops : /\ Exists(o)
               /\ op[o].status = "RUNNING"
               /\ \A w \in Workers : o \notin locked[w]}

\* claim_one: the oldest operation is executed, all claimable ones are locked.
Claim(w) ==
  /\ tx[w] = None
  /\ \E o \in Claimable :
       /\ \A q \in Claimable : o <= q
       /\ tx' = [tx EXCEPT ![w] = [op |-> o, row |-> op[o], items |-> items[o],
                                   attempts |-> attempts[o], ran |-> FALSE]]
  /\ locked' = [locked EXCEPT ![w] = Claimable]
  /\ UNCHANGED <<catalogue, preview, opVars, req>>

\* Mutant of ToRun: a cancelled operation finishes the chunk it is about to run.
ToRunRegardless(w) ==
  LET pending == With(tx[w].items, "PENDING")
  IN  {f \in pending : Cardinality({g \in pending : g <= f}) <= ChunkSize}

\* The items the handler runs: none when the operation is cancelled.
ToRun(w) ==
  LET pending == With(tx[w].items, "PENDING")
  IN  IF tx[w].row.cancel THEN {}
      ELSE {f \in pending : Cardinality({g \in pending : g <= f}) <= ChunkSize}

\* The items after a handler run in which those in good succeed.
AfterRun(w, good) ==
  [f \in Funds |->
     CASE f \in good -> "SUCCESS"
       [] f \in ToRun(w) \ good -> "FAILED"
       [] f \notin ToRun(w) /\ tx[w].row.cancel /\ tx[w].items[f] = "PENDING" -> "CANCELLED"
       [] OTHER -> tx[w].items[f]]

\* Mutant of Verdict: one failed item ends the operation.
VerdictHasty(list, cancel) ==
  CASE cancel -> "CANCELLED"
    [] ~cancel /\ With(list, "FAILED") # {} -> "FAILED"
    [] OTHER -> IF With(list, "PENDING") # {} THEN "RUNNING" ELSE "COMPLETED"

\* The outcome the handler returns.
Verdict(list, cancel) ==
  CASE With(list, "PENDING") # {} -> "RUNNING"
    [] With(list, "PENDING") = {} /\ cancel -> "CANCELLED"
    [] With(list, "PENDING") = {} /\ ~cancel ->
         IF With(list, "SUCCESS") = {} THEN "FAILED" ELSE "COMPLETED"

\* _handle_scoped_ingestion: run a chunk, or cancel what is pending; then count.
Handle(w) ==
  /\ tx[w] # None
  /\ ~tx[w].ran
  /\ \E good \in SUBSET ToRun(w) :
       LET list == AfterRun(w, good)
       IN  tx' = [tx EXCEPT ![w] =
             [op |-> tx[w].op, ran |-> TRUE, items |-> list,
              attempts |-> [f \in Funds |-> IF f \in ToRun(w) THEN tx[w].attempts[f] + 1
                                            ELSE tx[w].attempts[f]],
              row |-> [tx[w].row EXCEPT !.status = Verdict(list, tx[w].row.cancel),
                                        !.progress = NumSettled(list),
                                        !.counts = Counts(list)]]]
  /\ UNCHANGED <<catalogue, preview, opVars, req, locked>>

\* Mutant of Raise: there is no SAVEPOINT, and what the chunk has written stays.
RaiseUnsaved(w) ==
  /\ tx[w] # None
  /\ ~tx[w].ran
  /\ \E good \in SUBSET ToRun(w) :
       tx' = [tx EXCEPT ![w].ran = TRUE, ![w].items = AfterRun(w, good)]
  /\ UNCHANGED <<catalogue, preview, opVars, req, locked>>

\* The handler raises: its SAVEPOINT is rolled back and the job stays RUNNING.
Raise(w) ==
  /\ tx[w] # None
  /\ ~tx[w].ran
  /\ tx' = [tx EXCEPT ![w].ran = TRUE]
  /\ UNCHANGED <<catalogue, preview, opVars, req, locked>>

Release(w) ==
  /\ tx' = [tx EXCEPT ![w] = None]
  /\ locked' = [locked EXCEPT ![w] = {}]
  /\ UNCHANGED <<catalogue, preview, submitted, lastOp, req>>

CommitWork(w) ==
  /\ tx[w] # None
  /\ tx[w].ran
  /\ op' = [op EXCEPT ![tx[w].op] = tx[w].row]
  /\ items' = [items EXCEPT ![tx[w].op] = tx[w].items]
  /\ attempts' = [attempts EXCEPT ![tx[w].op] = tx[w].attempts]
  /\ Release(w)

\* The worker dies: everything in its transaction is lost.
CrashWork(w) ==
  /\ tx[w] # None
  /\ Release(w)
  /\ UNCHANGED <<op, items, attempts>>

-----------------------------------------------------------------------------
Scope ==
  \/ \E f \in Funds, s \in {"absent", "unmapped", "mapped"} : Remap(f, s)
  \/ \E p \in Previews : Preview(p)
  \/ \E p \in Previews : Expire(p)

Request(r) ==
  \/ \E k \in SubmitKeys, p \in Previews : LookSubmit(r, k, p)
  \/ \E k \in RetryKeys, o \in Ops : LookRetry(r, k, o)
  \/ Freeze(r)
  \/ Insert(r)
  \/ CommitRequest(r)
  \/ AbortRequest(r)

Work(w) ==
  \/ Claim(w)
  \/ Handle(w)
  \/ Raise(w)
  \/ CommitWork(w)
  \/ CrashWork(w)

Next ==
  \/ Scope
  \/ \E r \in Requests : Request(r)
  \/ \E o \in Ops : Cancel(o)
  \/ \E w \in Workers : Work(w)

Spec == Init /\ [][Next]_vars

-----------------------------------------------------------------------------
(* Properties.                                                             *)

\* An item counts as tried once when it succeeded or failed, else never.
TriedOnce(tries, list) ==
  \A f \in Funds : tries[f] = IF list[f] \in {"SUCCESS", "FAILED"} THEN 1 ELSE 0

\* What a user sees of an operation, its progress and its counts by outcome, is
\* what its items add up to, no item runs again after it settled, and an operation
\* that ended has none left over: through skipped items, cancellation, handler
\* exceptions and crashes (_handle_scoped_ingestion).
ProgressIsExact ==
  \A o \in Ops :
    Exists(o) =>
      /\ op[o].progress = NumSettled(items[o])
      /\ op[o].counts = Counts(items[o])
      /\ TriedOnce(attempts[o], items[o])
      /\ op[o].status # "RUNNING" => With(items[o], "PENDING") = {}

\* A retry owns exactly the items its parent failed: those of an operation that
\* has ended, so that the set does not move under the retry.
RetryCoversFailures ==
  \A o \in Ops :
    Exists(o) /\ op[o].parent # None =>
      {f \in Funds : items[o][f] # "NONE"} = With(items[op[o].parent], "FAILED")

\* An operation is committed with its items and its audit row, and is audited
\* once however many requests share its key (unless its scope was empty).
SubmittedWhole ==
  \A o \in Ops :
    /\ Exists(o) <=> submitted[o] > 0
    /\ ~Exists(o) => items[o] = NoItems
    /\ items[o] # NoItems => submitted[o] = 1

\* A request about to answer with a job that another request committed answers
\* with one made for the same preview or parent.
AnswersMatch ==
  \A r \in Requests :
    req[r].pc = "commit" /\ Exists(req[r].answer) => SameTarget(r, req[r].answer)

\* A submitted operation has the items its user previewed, and at that moment
\* the catalogue still resolves to them: no edit slips in after the check.
FrozenScope ==
  [][\A o \in Ops :
       ~Exists(o) /\ op'[o] # None /\ op'[o].parent = None =>
         /\ preview[op'[o].preview].members = catalogue
         /\ items'[o] = SubmitItems(op'[o].preview)]_vars

\* Once a cancellation is recorded no further item of the operation is run.
NothingRunsAfterCancel ==
  [][\A o \in Ops :
       Exists(o) /\ op[o].cancel => attempts'[o] = attempts[o]]_vars

-----------------------------------------------------------------------------
(* Liveness.                                                               *)

\* Workers keep claiming, a handler run and a commit end, a handler that has no
\* item to run does not raise every time, and the outcome of an operation is
\* not lost to a crash every time.
Fairness ==
  /\ \A w \in Workers :
       WF_vars(Claim(w)) /\ WF_vars(Handle(w) \/ Raise(w)) /\ WF_vars(CommitWork(w))
  /\ \A o \in Ops :
       /\ SF_vars(\E w \in Workers :
                    tx[w] # None /\ tx[w].op = o /\ ToRun(w) = {} /\ Handle(w))
       /\ SF_vars(\E w \in Workers :
                    /\ tx[w] # None
                    /\ tx[w].op = o
                    /\ tx[w].row.status # "RUNNING"
                    /\ CommitWork(w))

FairSpec == Spec /\ Fairness

\* A cancelled operation ends even if its handler raises every time it runs an
\* item, unless an older operation is still running: that one is claimed first.
CancelEnds ==
  \A o \in Ops :
    (Exists(o) /\ op[o].cancel) ~>
      \/ Exists(o) /\ op[o].status # "RUNNING"
      \/ \E q \in Ops : q < o /\ Exists(q) /\ op[q].status = "RUNNING"
=============================================================================
