--------------------------- MODULE JobQueue_proofs ---------------------------
(***************************************************************************)
(* Theorems about JobQueue, for any number of keys, API threads, workers,  *)
(* jobs and chunks; and, from the section on the commands' invariant on,   *)
(* about Commands, which extends it with the requests that make the jobs,  *)
(* for any portfolios and backtests: the records of optimisations and the  *)
(* jobs that name them match, although a backtest run shares their keys    *)
(* without their lock.                                                     *)
(***************************************************************************)
EXTENDS Commands, TLAPS

USE DEF JobIds, Terminal, ExecutionStatus

-----------------------------------------------------------------------------
(* Types.  TypeOK in three parts, with what a request and a worker have at *)
(* hand while they are busy.                                               *)

TableType ==
  /\ job \in [JobIds -> CalculationJob \cup {None}]
  /\ lastId \in 0..MaxJobs
  /\ now \in 0..MaxNow
  /\ applied \in [JobIds -> Nat]
  /\ audits \in [JobIds -> Nat]

ClientType ==
  /\ cpc \in [Clients -> {"idle", "select", "insert", "reselect", "commit", "raised"}]
  /\ ckey \in [Clients -> Keys \cup {None}]
  /\ began \in [Clients -> 0..MaxNow]
  /\ fresh \in [Clients -> BOOLEAN]
  /\ draft \in [Clients -> JobIds \cup {None}]
  /\ answer \in [Clients -> JobIds \cup {None}]
  /\ \A c \in Clients : cpc[c] # "idle" => ckey[c] \in Keys

WorkerType ==
  /\ wpc \in [Workers -> {"idle", "handling", "commit"}]
  /\ locked \in [Workers -> SUBSET JobIds]
  /\ held \in [Workers -> JobIds \cup {None}]
  /\ row \in [Workers -> CalculationJob \cup {None}]
  /\ effect \in [Workers -> {0, 1}]
  /\ \A w \in Workers : wpc[w] # "idle" => held[w] \in JobIds /\ row[w] \in CalculationJob

TypeInv == TableType /\ ClientType /\ WorkerType

LEMMA TypeInvTypeOK == TypeInv => TypeOK
BY DEF TypeInv, TableType, ClientType, WorkerType, TypeOK

LEMMA NewJobType ==
  ASSUME NEW k \in Keys, NEW t \in 0..MaxNow
  PROVE  NewJob(k, t) \in CalculationJob
BY BoundsAssumption DEF NewJob, CalculationJob

LEMMA ClaimedType ==
  ASSUME NEW r \in CalculationJob, NEW w \in Workers, NEW t \in Nat
  PROVE  [r EXCEPT !.claimedBy = w, !.lease = t] \in CalculationJob
BY DEF CalculationJob

LEMMA ReleasedType ==
  ASSUME NEW r \in CalculationJob, NEW s \in ExecutionStatus, NEW e \in BOOLEAN,
         NEW n \in {0, 1}, r.chunks + n <= MaxChunks
  PROVE  [r EXCEPT !.status = s, !.error = e, !.claimedBy = None, !.lease = None,
                   !.chunks = r.chunks + n] \in CalculationJob
<1>1. r.chunks \in 0..MaxChunks
  BY DEF CalculationJob
<1>2. r.chunks + n \in 0..MaxChunks
  BY <1>1, BoundsAssumption
<1> QED
  BY <1>2 DEF CalculationJob

LEMMA JobOfType ==
  ASSUME NEW k
  PROVE  /\ JobOf(k) \in JobIds \cup {None}
         /\ JobOf(k) # None => Exists(JobOf(k)) /\ job[JobOf(k)].key = k
         /\ JobOf(k) = None => Committed(k) = {}
BY NoneAssumption, BoundsAssumption DEF JobOf, Committed

\* A commit of a request, whoever makes it.
LEMMA CommitType ==
  ASSUME TypeInv, NEW c \in Clients, CommitJob(c), audits' \in [JobIds -> Nat]
  PROVE  TypeInv'
<1> USE NoneAssumption, BoundsAssumption DEF TypeInv, ClientType
<1>1. WorkerType'
  BY DEF CommitJob, workerVars, WorkerType
<1>2. NewJob(ckey[c], began[c]) \in CalculationJob
  BY NewJobType DEF CommitJob
<1>3. job' \in [JobIds -> CalculationJob \cup {None}]
  BY <1>2 DEF CommitJob, TableType
<1>4. TableType'
  BY <1>3 DEF CommitJob, TableType
<1>5. ClientType'
  BY DEF CommitJob, EndRequest
<1> QED
  BY <1>1, <1>4, <1>5

LEMMA ClientSteps ==
  ASSUME TypeInv, NEW c \in Clients, Submit(c)
  PROVE  TypeInv'
<1> USE NoneAssumption, BoundsAssumption DEF TypeInv, ClientType
<1>1. WorkerType'
  BY DEF Submit, Lookup, Select, Insert, Reselect, CommitSubmit, CommitJob, AbortSubmit,
         workerVars, WorkerType
<1>2. ASSUME NEW k \in Keys, Lookup(c, k) PROVE TableType' /\ ClientType'
  BY <1>2 DEF Lookup, TableType
<1>3. CASE Select(c)
  BY <1>1, <1>3, JobOfType DEF Select, TableType
<1>4. CASE Insert(c)
  <2>1. CASE Committed(ckey[c]) # {}
    BY <1>1, <1>4, <2>1 DEF Insert, TableType
  <2>2. CASE Committed(ckey[c]) = {}
    <3>1. lastId \in 0..MaxJobs /\ lastId + 1 \in JobIds /\ lastId' = lastId + 1
      BY <1>4, <2>2 DEF Insert, TableType
    <3>2. TableType'
      BY <1>4, <3>1 DEF Insert, TableType
    <3>3. ClientType'
      BY <1>4, <2>2, <3>1 DEF Insert
    <3> QED
      BY <1>1, <3>2, <3>3
  <2> QED
    BY <2>1, <2>2
<1>5. CASE Reselect(c)
  BY <1>1, <1>5, JobOfType DEF Reselect, TableType
<1>6. CASE CommitSubmit(c)
  <2>1. \A i \in JobIds : audits[i] + 1 \in Nat
    BY DEF TableType
  <2>2. audits' \in [JobIds -> Nat]
    BY <1>6, <2>1 DEF CommitSubmit, TableType
  <2> QED
    BY <1>6, <2>2, CommitType DEF CommitSubmit
<1>7. CASE AbortSubmit(c)
  BY <1>1, <1>7 DEF AbortSubmit, EndRequest, TableType
<1> QED
  BY <1>1, <1>2, <1>3, <1>4, <1>5, <1>6, <1>7 DEF Submit

LEMMA WorkerSteps ==
  ASSUME TypeInv, NEW w \in Workers, Work(w)
  PROVE  TypeInv'
<1> USE NoneAssumption, BoundsAssumption DEF TypeInv, WorkerType
<1>1. ClientType'
  BY DEF Work, Claim, Return, Raise, NoHandler, Release, CommitWork, CrashWork, Unlock,
         clientVars, ClientType
<1>2. CASE Claim(w)
  <2>1. PICK j \in Claimable : /\ held' = [held EXCEPT ![w] = j]
                               /\ row' = [row EXCEPT ![w] =
                                    [job[j] EXCEPT !.claimedBy = w, !.lease = now + LeaseSeconds]]
    BY <1>2 DEF Claim
  <2>2. j \in JobIds /\ job[j] \in CalculationJob /\ now + LeaseSeconds \in Nat
    <3>1. j \in JobIds /\ job[j] # None
      BY DEF Claimable, Eligible, Exists
    <3>2. job[j] \in CalculationJob /\ now \in Nat
      BY <3>1 DEF TableType
    <3> QED
      BY <3>1, <3>2
  <2>3. [job[j] EXCEPT !.claimedBy = w, !.lease = now + LeaseSeconds] \in CalculationJob
    BY <2>2, ClaimedType
  <2>4. WorkerType'
    BY <1>2, <2>1, <2>2, <2>3 DEF Claim, Claimable
  <2>5. TableType'
    BY <1>2 DEF Claim, TableType
  <2> QED
    BY <1>1, <2>4, <2>5
<1>3. ASSUME NEW s \in ExecutionStatus, NEW e \in BOOLEAN, NEW n \in {0, 1},
             wpc[w] = "handling", row[w].chunks + n <= MaxChunks, Release(w, s, e, n)
      PROVE  TypeInv'
  <2>1. [row[w] EXCEPT !.status = s, !.error = e, !.claimedBy = None, !.lease = None,
                       !.chunks = row[w].chunks + n] \in CalculationJob
    BY <1>3, ReleasedType
  <2>2. row' = [row EXCEPT ![w] =
                 [row[w] EXCEPT !.status = s, !.error = e, !.claimedBy = None, !.lease = None,
                                !.chunks = row[w].chunks + n]]
    BY <1>3 DEF Release
  <2>4. row' \in [Workers -> CalculationJob \cup {None}] /\ row'[w] \in CalculationJob
    BY <2>1, <2>2
  <2>5. \A v \in Workers \ {w} : row'[v] = row[v] /\ wpc'[v] = wpc[v]
    BY <1>3, <2>2 DEF Release
  <2>6. /\ wpc' \in [Workers -> {"idle", "handling", "commit"}]
        /\ effect' \in [Workers -> {0, 1}]
        /\ locked' = locked /\ held' = held
    BY <1>3 DEF Release
  <2>7. WorkerType'
    BY <1>3, <2>4, <2>5, <2>6
  <2>3. TableType'
    BY <1>3 DEF Release, TableType
  <2> QED
    BY <1>1, <2>7, <2>3
<1>4. wpc[w] = "handling" =>
        row[w].chunks \in 0..MaxChunks /\ row[w].chunks + 0 <= MaxChunks
  BY DEF CalculationJob
<1>5. ASSUME NEW s \in ExecutionStatus, Return(w, s) PROVE TypeInv'
  <2>1. row[w].chunks + 1 <= MaxChunks
    BY <1>4, <1>5 DEF Return
  <2>2. (s \in {"FAILED", "BLOCKED"}) \in BOOLEAN
    OBVIOUS
  <2> QED
    BY <1>3, <1>5, <2>1, <2>2 DEF Return
<1>6. CASE Raise(w)
  BY <1>3, <1>4, <1>6 DEF Raise
<1>7. CASE NoHandler(w)
  BY <1>3, <1>4, <1>7 DEF NoHandler
<1>8. CASE CommitWork(w)
  <2>0. effect[w] \in Nat /\ \A i \in JobIds : applied[i] + effect[w] \in Nat
    <3>1. effect[w] \in Nat
      OBVIOUS
    <3> QED
      BY <3>1 DEF TableType
  <2>1. TableType'
    BY <1>8, <2>0 DEF CommitWork, Unlock, TableType
  <2> QED
    BY <1>1, <1>8, <2>1 DEF CommitWork, Unlock
<1>9. CASE CrashWork(w)
  BY <1>1, <1>9 DEF CrashWork, Unlock, TableType
<1> QED
  BY <1>2, <1>5, <1>6, <1>7, <1>8, <1>9 DEF Work

LEMMA TypeStep ==
  ASSUME TypeInv, [Next]_vars
  PROVE  TypeInv'
<1> USE DEF TypeInv, TableType, ClientType, WorkerType, clientVars, workerVars
<1>1. CASE Tick
  BY <1>1, BoundsAssumption DEF Tick
<1>2. CASE UNCHANGED vars
  BY <1>2 DEF vars
<1> QED
  BY <1>1, <1>2, ClientSteps, WorkerSteps DEF Next

LEMMA TypeInit == Init => TypeInv
BY BoundsAssumption, NoneAssumption DEF Init, TypeInv, TableType, ClientType, WorkerType

LEMMA Typing == Spec => []TypeInv
BY TypeInit, TypeStep, PTL DEF Spec

\* Every variable of the queue stays in its type.
THEOREM TypeCorrect == Spec => []TypeOK
BY Typing, TypeInvTypeOK, PTL

-----------------------------------------------------------------------------
(* The inductive invariant.                                                *)

\* What a request in flight knows: the row it has inserted is the only one of
\* its key, committed or not, and a row it has found is there to stay.
RequestInv ==
  /\ \A c \in Clients : draft[c] # None =>
       /\ cpc[c] = "commit" /\ answer[c] = draft[c] /\ fresh[c]
       /\ draft[c] <= lastId /\ ~Exists(draft[c]) /\ Committed(ckey[c]) = {}
  /\ \A c, d \in Clients : c # d /\ draft[c] # None /\ draft[d] # None =>
       draft[c] # draft[d] /\ ckey[c] # ckey[d]
  /\ \A c \in Clients : cpc[c] = "select" /\ ~fresh[c] => Committed(ckey[c]) # {}
  /\ \A c \in Clients : cpc[c] = "insert" => fresh[c]
  /\ \A c \in Clients : cpc[c] = "reselect" => Committed(ckey[c]) # {}
  /\ \A c \in Clients : cpc[c] = "commit" /\ draft[c] = None =>
       answer[c] # None /\ Exists(answer[c]) /\ job[answer[c]].key = ckey[c]
  /\ \A c \in Clients : cpc[c] = "idle" /\ answer[c] # None => Exists(answer[c])

\* The committed table: ids from the sequence, keys unique, no lease, and effects
\* that agree with progress.
TableInv ==
  /\ UniqueKeys
  /\ \A j \in JobIds : Exists(j) =>
       /\ j <= lastId
       /\ job[j].lease = None
       /\ applied[j] = job[j].chunks
  /\ \A j \in JobIds : ~Exists(j) => applied[j] = 0

\* A worker's row is its job's committed row, changed only by its own run, and
\* its locks keep every other worker away.
LockInv ==
  /\ \A w \in Workers : wpc[w] = "idle" => held[w] = None /\ locked[w] = {}
  /\ \A w \in Workers : wpc[w] # "idle" =>
       /\ held[w] \in locked[w] /\ Exists(held[w])
       /\ job[held[w]].status = "RUNNING"
       /\ row[w].key = job[held[w]].key
       /\ row[w].chunks = job[held[w]].chunks + effect[w]
  /\ \A w \in Workers : wpc[w] # "commit" => effect[w] = 0
  /\ \A w \in Workers : wpc[w] = "commit" => row[w].lease = None
  /\ \A v, w \in Workers : v # w => locked[v] \cap locked[w] = {}

IInv == TypeInv /\ RequestInv /\ TableInv /\ LockInv /\ NeverRaises

LEMMA IInvInit == Init => IInv
BY TypeInit, NoneAssumption
   DEF Init, IInv, RequestInv, TableInv, LockInv, NeverRaises, UniqueKeys, Exists

\* A worker never adds, removes or renames a job.
LEMMA WorkKeepsKeys ==
  ASSUME IInv, NEW w \in Workers, Work(w)
  PROVE  \A j \in JobIds : /\ job'[j] = None <=> job[j] = None
                           /\ job[j] # None => job'[j].key = job[j].key
<1>1. CASE job' = job
  BY <1>1
<1>2. CASE CommitWork(w)
  <2>1. /\ held[w] \in JobIds /\ row[w] \in CalculationJob /\ Exists(held[w])
        /\ row[w].key = job[held[w]].key
    BY <1>2 DEF CommitWork, IInv, TypeInv, WorkerType, LockInv
  <2>2. row[w] # None
    BY <2>1, RowAssumption
  <2>3. \A j \in JobIds : job'[j] = IF j = held[w] THEN row[w] ELSE job[j]
    BY <1>2 DEF CommitWork, IInv, TypeInv, TableType
  <2> QED
    BY <2>1, <2>2, <2>3 DEF Exists
<1> QED
  BY <1>1, <1>2 DEF Work, Claim, Return, Raise, NoHandler, Release, CrashWork

LEMMA WorkStep ==
  ASSUME IInv, NEW w \in Workers, Work(w)
  PROVE  IInv'
<1> USE DEF IInv
<1>1. TypeInv'
  BY WorkerSteps
<1>2. \A j \in JobIds : /\ job'[j] = None <=> job[j] = None
                        /\ job[j] # None => job'[j].key = job[j].key
  BY WorkKeepsKeys
<1>3. UNCHANGED <<cpc, ckey, began, fresh, draft, answer, lastId, audits, now>>
  BY DEF clientVars, Work, Claim, Return, Raise, NoHandler, Release, CommitWork, CrashWork, Unlock
<1>4. RequestInv' /\ NeverRaises'
  <2>1. NeverRaises'
    BY <1>3 DEF NeverRaises
  <2>3. RequestInv'
    BY <1>2, <1>3, NoneAssumption
       DEF RequestInv, TypeInv, ClientType, Exists, Committed
  <2> QED
    BY <2>1, <2>3
<1>5. UniqueKeys'
  BY <1>2 DEF TableInv, UniqueKeys, Exists
<1>6. CASE CommitWork(w)
  <2>1. /\ held[w] \in JobIds /\ row[w] \in CalculationJob /\ Exists(held[w])
        /\ row[w].lease = None /\ row[w].chunks = job[held[w]].chunks + effect[w]
        /\ held[w] \in locked[w]
    BY <1>6 DEF CommitWork, TypeInv, WorkerType, LockInv
  <2>2. \A j \in JobIds : /\ job'[j] = IF j = held[w] THEN row[w] ELSE job[j]
                          /\ applied'[j] = IF j = held[w] THEN applied[j] + effect[w]
                                           ELSE applied[j]
    BY <1>6 DEF CommitWork, TypeInv, TableType
  <2>3. TableInv'
    BY <1>2, <1>3, <1>5, <2>1, <2>2 DEF TableInv, Exists
  <2>4. /\ \A v \in Workers \ {w} : /\ wpc'[v] = wpc[v] /\ locked'[v] = locked[v]
                                    /\ held'[v] = held[v] /\ row'[v] = row[v]
                                    /\ effect'[v] = effect[v]
        /\ wpc'[w] = "idle" /\ locked'[w] = {} /\ held'[w] = None /\ effect'[w] = 0
    BY <1>6 DEF CommitWork, Unlock, TypeInv, WorkerType
  <2>5. \A v \in Workers \ {w} : wpc[v] # "idle" => held[v] \in JobIds /\ held[v] # held[w]
    BY <2>1 DEF LockInv, TypeInv, WorkerType
  <2>6. LockInv'
    BY <1>2, <2>2, <2>4, <2>5 DEF LockInv, Exists
  <2> QED
    BY <1>1, <1>4, <2>3, <2>6
<1>7. CASE UNCHANGED <<job, applied>>
  <2>1. TableInv'
    BY <1>3, <1>5, <1>7 DEF TableInv, Exists
  <2>2. LockInv'
    <3>1. CASE Claim(w)
      <4>1. PICK j \in Claimable :
              /\ held' = [held EXCEPT ![w] = j]
              /\ row' = [row EXCEPT ![w] =
                   [job[j] EXCEPT !.claimedBy = w, !.lease = now + LeaseSeconds]]
        BY <3>1 DEF Claim
      <4>2. /\ j \in JobIds /\ Exists(j) /\ job[j].status = "RUNNING"
            /\ job[j] \in CalculationJob
            /\ \A v \in Workers : Claimable \cap locked[v] = {}
        BY DEF Claimable, Eligible, Exists, TypeInv, TableType
      <4>3. /\ row'[w].key = job[j].key
            /\ row'[w].chunks = job[j].chunks /\ job[j].chunks \in Nat
            /\ effect[w] = 0 /\ effect' = effect
            /\ held'[w] = j /\ wpc'[w] = "handling" /\ locked'[w] = Claimable
        BY <3>1, <4>1, <4>2 DEF Claim, LockInv, TypeInv, WorkerType, CalculationJob
      <4>4. \A v \in Workers \ {w} : /\ wpc'[v] = wpc[v] /\ locked'[v] = locked[v]
                                     /\ held'[v] = held[v] /\ row'[v] = row[v]
        BY <3>1, <4>1 DEF Claim, TypeInv, WorkerType
      <4> QED
        BY <1>7, <4>1, <4>2, <4>3, <4>4 DEF LockInv, Exists
    <3>2. ASSUME NEW s, NEW e, NEW n \in {0, 1}, wpc[w] = "handling", Release(w, s, e, n)
          PROVE  LockInv'
      <4>0. held[w] \in JobIds /\ job[held[w]] \in CalculationJob /\ effect[w] = 0
        BY <3>2 DEF LockInv, TypeInv, WorkerType, TableType, Exists
      <4>1. /\ row[w] \in CalculationJob /\ row[w].chunks = job[held[w]].chunks
            /\ row[w].chunks \in Nat
        <5>1. job[held[w]].chunks \in Nat /\ row[w] \in CalculationJob
          BY <3>2, <4>0 DEF TypeInv, WorkerType, CalculationJob
        <5>2. row[w].chunks = job[held[w]].chunks + effect[w]
          BY <3>2 DEF LockInv
        <5> QED
          BY <4>0, <5>1, <5>2
      <4>2. /\ row'[w].key = row[w].key /\ row'[w].lease = None
            /\ row'[w].chunks = row[w].chunks + n
            /\ effect'[w] = n /\ wpc'[w] = "commit" /\ held' = held /\ locked' = locked
        BY <3>2, <4>1 DEF Release, TypeInv, WorkerType, CalculationJob
      <4>3. \A v \in Workers \ {w} : /\ wpc'[v] = wpc[v] /\ row'[v] = row[v]
                                     /\ effect'[v] = effect[v]
        BY <3>2 DEF Release, TypeInv, WorkerType
      <4> QED
        BY <1>7, <3>2, <4>1, <4>2, <4>3 DEF LockInv, Exists
    <3>3. CASE CrashWork(w)
      <4>1. /\ \A v \in Workers \ {w} : /\ wpc'[v] = wpc[v] /\ locked'[v] = locked[v]
                                        /\ held'[v] = held[v] /\ row'[v] = row[v]
                                        /\ effect'[v] = effect[v]
            /\ wpc'[w] = "idle" /\ locked'[w] = {} /\ held'[w] = None /\ effect'[w] = 0
        BY <3>3 DEF CrashWork, Unlock, TypeInv, WorkerType
      <4> QED
        BY <1>7, <4>1 DEF LockInv, Exists
    <3>4. CASE CommitWork(w)
      BY <1>6, <3>4
    <3> QED
      BY <3>1, <3>2, <3>3, <3>4 DEF Work, Return, Raise, NoHandler
  <2> QED
    BY <1>1, <1>4, <2>1, <2>2
<1> QED
  BY <1>6, <1>7 DEF Work, Claim, Return, Raise, NoHandler, Release, CrashWork

\* A commit of a request, whatever it says in the audit log.
LEMMA CommitStep ==
  ASSUME IInv, NEW c \in Clients, CommitJob(c), audits' \in [JobIds -> Nat]
  PROVE  IInv'
<1> USE NoneAssumption DEF IInv
<1>1. TypeInv'
  BY CommitType
<1>2. UNCHANGED <<wpc, locked, held, row, effect, applied, now>>
  BY DEF workerVars, CommitJob
<1>3. \A d \in Clients \ {c} : /\ cpc'[d] = cpc[d] /\ ckey'[d] = ckey[d]
                               /\ fresh'[d] = fresh[d] /\ draft'[d] = draft[d]
                               /\ answer'[d] = answer[d]
  BY DEF TypeInv, ClientType, CommitJob, EndRequest
<1>4. /\ cpc[c] = "commit" /\ cpc'[c] = "idle" /\ draft'[c] = None
      /\ answer' = answer /\ lastId' = lastId /\ answer[c] \in JobIds
  BY DEF CommitJob, EndRequest, RequestInv, TypeInv, ClientType
<1>5. NeverRaises'
  BY <1>3, <1>4 DEF NeverRaises
<1>6. CASE draft[c] = None
  <2>1. job' = job /\ Exists(answer[c])
    BY <1>4, <1>6 DEF CommitJob, RequestInv
  <2>2. TableInv' /\ LockInv'
    BY <1>2, <1>4, <2>1 DEF TableInv, LockInv, UniqueKeys, Exists
  <2>3. RequestInv'
    BY <1>3, <1>4, <1>6, <2>1 DEF RequestInv, Exists, Committed
  <2> QED
    BY <1>1, <1>5, <2>2, <2>3
<1>7. CASE draft[c] # None
  <2>1. /\ draft[c] \in JobIds /\ draft[c] = answer[c] /\ fresh[c] /\ draft[c] <= lastId
        /\ ~Exists(draft[c]) /\ Committed(ckey[c]) = {} /\ ckey[c] \in Keys
        /\ began[c] \in 0..MaxNow
    BY <1>4, <1>7 DEF RequestInv, TypeInv, ClientType
  <2>2. \A j \in JobIds : job'[j] = IF j = draft[c] THEN NewJob(ckey[c], began[c]) ELSE job[j]
    BY <1>7, <2>1 DEF CommitJob, TypeInv, TableType
  <2>3. /\ NewJob(ckey[c], began[c]) # None
        /\ NewJob(ckey[c], began[c]).key = ckey[c]
        /\ NewJob(ckey[c], began[c]).lease = None
        /\ NewJob(ckey[c], began[c]).chunks = 0
    BY <2>1, NewJobType, RowAssumption DEF NewJob
  <2>4. \A i \in JobIds : Exists(i) => job[i].key # ckey[c]
    BY <2>1 DEF Committed
  <2>5. UniqueKeys'
    BY <2>1, <2>2, <2>3, <2>4 DEF TableInv, UniqueKeys, Exists
  <2>6. TableInv'
    BY <1>2, <1>4, <2>1, <2>2, <2>3, <2>5 DEF TableInv, Exists
  <2>7. LockInv'
    BY <1>2, <2>1, <2>2 DEF LockInv, Exists, TypeInv, WorkerType
  <2>8. \A d \in Clients \ {c} :
          draft[d] # None => draft[d] \in JobIds /\ draft[d] # draft[c] /\ ckey[d] # ckey[c]
    BY <1>7 DEF RequestInv, TypeInv, ClientType
  <2>9. \A d \in Clients : answer[d] # None => answer[d] \in JobIds
    BY DEF TypeInv, ClientType
  <2>10. RequestInv'
    <3>1. \A j \in JobIds : Exists(j) => job'[j] # None /\ job'[j].key = job[j].key
      BY <2>1, <2>2 DEF Exists
    <3>2. \A k : Committed(k) # {} => Committed(k)' # {}
      BY <3>1 DEF Committed, Exists
    <3>3. ASSUME NEW d \in Clients \ {c}, draft[d] # None
          PROVE  job'[draft[d]] = None /\ Committed(ckey[d])' = {}
      <4>1. /\ job[draft[d]] = None /\ draft[d] \in JobIds /\ draft[d] # draft[c]
            /\ \A j \in JobIds : job[j] # None => job[j].key # ckey[d]
        BY <2>8, <3>3 DEF RequestInv, Exists, Committed
      <4>2. \A j \in JobIds : job'[j] # None => job'[j].key # ckey[d]
        BY <2>2, <2>3, <2>8, <3>3, <4>1
      <4> QED
        BY <1>3, <2>2, <4>1, <4>2 DEF Committed, Exists
    <3> QED
      BY <1>3, <1>4, <2>1, <2>2, <2>3, <2>9, <3>1, <3>2, <3>3 DEF RequestInv, Exists
  <2> QED
    BY <1>1, <1>5, <2>6, <2>7, <2>10
<1> QED
  BY <1>6, <1>7

LEMMA SubmitStep ==
  ASSUME IInv, NEW c \in Clients, Submit(c)
  PROVE  IInv'
<1> USE NoneAssumption DEF IInv
<1>1. TypeInv'
  BY ClientSteps
<1>2. UNCHANGED <<wpc, locked, held, row, effect, applied, now>>
  BY DEF workerVars, Submit, Lookup, Select, Insert, Reselect, CommitSubmit, CommitJob, AbortSubmit
\* The other requests are where they were.
<1>3. \A d \in Clients \ {c} : /\ cpc'[d] = cpc[d] /\ ckey'[d] = ckey[d]
                               /\ fresh'[d] = fresh[d] /\ draft'[d] = draft[d]
                               /\ answer'[d] = answer[d]
  BY DEF TypeInv, ClientType, Submit, Lookup, Select, Insert, Reselect, CommitSubmit, CommitJob,
         AbortSubmit, EndRequest
\* A step that commits nothing.
<1>4. ASSUME job' = job, audits' = audits, lastId' = lastId, draft' = draft,
             draft[c] = None,
             cpc'[c] # "raised",
             cpc'[c] = "select" /\ ~fresh'[c] => Committed(ckey'[c]) # {},
             cpc'[c] = "insert" => fresh'[c],
             cpc'[c] = "reselect" => Committed(ckey'[c]) # {},
             cpc'[c] = "commit" =>
               answer'[c] # None /\ Exists(answer'[c]) /\ job[answer'[c]].key = ckey'[c],
             cpc'[c] = "idle" => answer'[c] = None
      PROVE  IInv'
  <2>1. TableInv' /\ LockInv'
    BY <1>2, <1>4 DEF TableInv, LockInv, UniqueKeys, Exists
  <2>2. NeverRaises'
    BY <1>3, <1>4 DEF NeverRaises
  <2>3. RequestInv'
    BY <1>3, <1>4 DEF RequestInv, Exists, Committed
  <2> QED
    BY <1>1, <2>1, <2>2, <2>3
<1>5. ASSUME NEW k \in Keys, Lookup(c, k) PROVE IInv'
  <2>1. draft[c] = None
    BY <1>5 DEF Lookup, RequestInv
  <2>2. cpc'[c] = "select" /\ ckey'[c] = k /\ fresh'[c] = (Committed(k) = {})
    BY <1>5 DEF Lookup, TypeInv, ClientType
  <2> QED
    BY <1>4, <1>5, <2>1, <2>2 DEF Lookup
<1>6. CASE Select(c)
  <2>1. draft[c] = None /\ answer'[c] = JobOf(ckey[c]) /\ ckey'[c] = ckey[c]
        /\ fresh'[c] = fresh[c]
    BY <1>6 DEF Select, RequestInv, TypeInv, ClientType
  <2>2. cpc'[c] = IF JobOf(ckey[c]) = None THEN "insert" ELSE "commit"
    BY <1>6, <2>1 DEF Select, TypeInv, ClientType
  <2>3. JobOf(ckey[c]) = None => fresh[c]
    BY <1>6, JobOfType DEF Select, RequestInv
  <2> QED
    BY <1>4, <1>6, <2>1, <2>2, <2>3, JobOfType DEF Select
<1>7. CASE Reselect(c)
  <2>1. draft[c] = None /\ answer'[c] = JobOf(ckey[c]) /\ ckey'[c] = ckey[c]
    BY <1>7 DEF Reselect, RequestInv, TypeInv, ClientType
  <2>2. JobOf(ckey[c]) # None
    BY <1>7, JobOfType DEF Reselect, RequestInv
  <2>3. cpc'[c] = "commit"
    BY <1>7, <2>1, <2>2 DEF Reselect, TypeInv, ClientType
  <2> QED
    BY <1>4, <1>7, <2>1, <2>2, <2>3, JobOfType DEF Reselect
<1>8. CASE Insert(c)
  <2>1. /\ draft[c] = None /\ fresh[c] /\ fresh' = fresh /\ ckey' = ckey
        /\ job' = job /\ audits' = audits
        /\ \A d \in Clients : draft[d] # None => ckey[d] # ckey[c]
    BY <1>8 DEF Insert, RequestInv
  <2>2. CASE Committed(ckey[c]) # {}
    <3>1. cpc'[c] = "reselect"
      BY <1>8, <2>2 DEF Insert, TypeInv, ClientType
    <3> QED
      BY <1>4, <1>8, <2>1, <2>2, <3>1 DEF Insert
  <2>3. CASE Committed(ckey[c]) = {}
    <3>1. /\ lastId' = lastId + 1 /\ lastId \in 0..MaxJobs /\ lastId + 1 \in JobIds
          /\ draft'[c] = lastId + 1 /\ answer'[c] = lastId + 1 /\ cpc'[c] = "commit"
      <4>1. lastId \in 0..MaxJobs /\ lastId < MaxJobs /\ lastId' = lastId + 1
        BY <1>8, <2>3 DEF Insert, TypeInv, TableType
      <4>2. lastId + 1 \in JobIds
        BY <4>1, BoundsAssumption
      <4> QED
        BY <1>8, <2>3, <4>1, <4>2 DEF Insert, TypeInv, ClientType
    <3>2. ~Exists(lastId + 1)
      BY <3>1 DEF TableInv
    <3>3. \A d \in Clients : draft[d] # None => draft[d] \in JobIds /\ draft[d] <= lastId
      BY DEF RequestInv, TypeInv, ClientType
    <3>4. RequestInv'
      BY <1>3, <2>1, <2>3, <3>1, <3>2, <3>3 DEF RequestInv, Exists, Committed
    <3>5. TableInv'
      BY <1>2, <2>1, <3>1 DEF TableInv, UniqueKeys, Exists
    <3>6. LockInv'
      BY <1>2, <2>1 DEF LockInv, Exists
    <3>7. NeverRaises'
      BY <1>3, <3>1 DEF NeverRaises
    <3> QED
      BY <1>1, <3>4, <3>5, <3>6, <3>7
  <2> QED
    BY <2>2, <2>3
<1>9. CASE AbortSubmit(c)
  <2>1. /\ job' = job /\ audits' = audits /\ lastId' = lastId
        /\ cpc'[c] = "idle" /\ draft'[c] = None /\ answer'[c] = None
    BY <1>9 DEF AbortSubmit, EndRequest, TypeInv, ClientType
  <2>2. RequestInv'
    BY <1>3, <2>1 DEF RequestInv, Exists, Committed
  <2>3. TableInv' /\ LockInv'
    BY <1>2, <2>1 DEF TableInv, LockInv, UniqueKeys, Exists
  <2>4. NeverRaises'
    BY <1>3, <2>1 DEF NeverRaises
  <2> QED
    BY <1>1, <2>2, <2>3, <2>4
<1>10. CASE CommitSubmit(c)
  BY <1>1, <1>10, CommitStep DEF CommitSubmit, TypeInv, TableType
<1> QED
  BY <1>5, <1>6, <1>7, <1>8, <1>9, <1>10 DEF Submit

LEMMA IInvStep ==
  ASSUME IInv, [Next]_vars
  PROVE  IInv'
<1>1. CASE Tick
  BY <1>1, TypeStep DEF Tick, IInv, RequestInv, TableInv, LockInv, NeverRaises, UniqueKeys,
     Exists, Committed, clientVars, workerVars
<1>2. CASE UNCHANGED vars
  BY <1>2, TypeStep DEF vars, IInv, RequestInv, TableInv, LockInv, NeverRaises, UniqueKeys,
     Exists, Committed, clientVars, workerVars
<1> QED
  BY <1>1, <1>2, SubmitStep, WorkStep DEF Next

LEMMA Invariance == Spec => []IInv
BY IInvInit, IInvStep, PTL DEF Spec

-----------------------------------------------------------------------------
(* The safety properties.                                                  *)

\* However submissions race, a key has at most one job.
THEOREM OneJobPerKey == Spec => []UniqueKeys
BY Invariance, PTL DEF IInv, TableInv

\* The second SELECT of submit always finds the row that won the race.
THEOREM SubmitNeverRaises == Spec => []NeverRaises
BY Invariance, PTL DEF IInv

\* A worker executes a RUNNING job, alone, from its committed row.
THEOREM WorkIsExclusive == Spec => []NoStaleWork
<1>1. IInv => NoStaleWork
  <2> SUFFICES ASSUME IInv, NEW w \in Workers, held[w] # None
               PROVE  /\ Exists(held[w])
                      /\ job[held[w]].status = "RUNNING"
                      /\ row[w].chunks = job[held[w]].chunks + effect[w]
                      /\ \A v \in Workers \ {w} : held[v] # held[w]
    BY DEF NoStaleWork
  <2>1. wpc[w] # "idle"
    BY DEF IInv, LockInv
  <2>2. ASSUME NEW v \in Workers \ {w}, held[v] = held[w] PROVE FALSE
    <3>1. held[v] \in locked[v] /\ held[w] \in locked[w]
      BY <2>1, <2>2 DEF IInv, LockInv
    <3> QED
      BY <2>2, <3>1 DEF IInv, LockInv
  <2> QED
    BY <2>1, <2>2 DEF IInv, LockInv
<1> QED
  BY <1>1, Invariance, PTL

\* What a job's handler has committed is what the job's progress says.
THEOREM EffectsAreRecorded == Spec => []EffectsMatchProgress
<1>1. IInv => EffectsMatchProgress
  BY DEF IInv, TableInv, EffectsMatchProgress
<1> QED
  BY <1>1, Invariance, PTL

\* A crashed worker's job can be claimed at once.
THEOREM CrashNeverStrands == Spec => []CrashFreesJob
<1>1. IInv => CrashFreesJob
  BY DEF IInv, TableInv, CrashFreesJob, Eligible
<1> QED
  BY <1>1, Invariance, PTL

\* What a request has found or inserted is a job when it commits, and audited by
\* then: by itself, or by the request that committed the job.
LEMMA AuditStep ==
  ASSUME IInv, IInv', AuditTrail, [Next]_vars
  PROVE  AuditTrail'
<1>1. ASSUME NEW c \in Clients, CommitSubmit(c)
      PROVE  AuditTrail'
  <2>1. /\ cpc[c] = "commit" /\ answer[c] \in JobIds
        /\ audits' = IF fresh[c] THEN [audits EXCEPT ![answer[c]] = @ + 1] ELSE audits
    BY <1>1, NoneAssumption
    DEF CommitSubmit, CommitJob, IInv, RequestInv, TypeInv, ClientType
  <2>2. \A j \in JobIds : audits[j] \in Nat /\ (audits'[j] > 0 <=>
          audits[j] > 0 \/ (fresh[c] /\ j = answer[c]))
    BY <2>1 DEF IInv, TypeInv, TableType
  <2>3. CASE draft[c] = None
    <3>1. job' = job /\ Exists(answer[c])
      BY <1>1, <2>1, <2>3 DEF CommitSubmit, CommitJob, IInv, RequestInv
    <3> QED
      BY <2>2, <3>1 DEF AuditTrail, Exists
  <2>4. CASE draft[c] # None
    <3>1. draft[c] \in JobIds /\ draft[c] = answer[c] /\ fresh[c] /\ ckey[c] \in Keys
      BY <2>1, <2>4 DEF IInv, RequestInv, TypeInv, ClientType
    <3>2. \A j \in JobIds :
            job'[j] = IF j = draft[c] THEN NewJob(ckey[c], began[c]) ELSE job[j]
      BY <1>1, <2>4, <3>1 DEF CommitSubmit, CommitJob, IInv, TypeInv, TableType
    <3>3. NewJob(ckey[c], began[c]) # None
      BY <3>1, NewJobType, RowAssumption DEF IInv, TypeInv, ClientType
    <3> QED
      BY <2>2, <3>1, <3>2, <3>3 DEF AuditTrail, Exists
  <2> QED
    BY <2>3, <2>4
<1>2. ASSUME NEW c \in Clients, Submit(c), ~CommitSubmit(c)
      PROVE  AuditTrail'
  <2>1. job' = job /\ audits' = audits
    BY <1>2 DEF Submit, Lookup, Select, Insert, Reselect, AbortSubmit
  <2> QED
    BY <2>1 DEF AuditTrail, Exists
<1>3. ASSUME NEW w \in Workers, Work(w)
      PROVE  AuditTrail'
  <2>1. audits' = audits
    BY <1>3 DEF Work, Claim, Return, Raise, NoHandler, Release, CommitWork, CrashWork, Unlock
  <2>2. \A j \in JobIds : job'[j] = None <=> job[j] = None
    BY <1>3, WorkKeepsKeys
  <2> QED
    BY <2>1, <2>2 DEF AuditTrail, Exists
<1>4. CASE Tick \/ UNCHANGED vars
  BY <1>4 DEF AuditTrail, Exists, Tick, vars
<1> QED
  BY <1>1, <1>2, <1>3, <1>4 DEF Next

\* A job exists exactly if its submission has been audited.
THEOREM SubmissionsAreAudited == Spec => []AuditTrail
<1>1. Init => AuditTrail
  BY NoneAssumption DEF Init, AuditTrail, Exists
<1> QED
  BY <1>1, AuditStep, Invariance, PTL DEF Spec

-----------------------------------------------------------------------------
(* Refinement: the queue implements JobLedger.                             *)

\* The entry of a key is that of its only job, wherever that job is.
LEMMA EntryIs ==
  ASSUME IInv, NEW k \in Keys
  PROVE  /\ Committed(k) = {} => LedgerEntry(k) = None
         /\ \A j \in JobIds : Exists(j) /\ job[j].key = k =>
              LedgerEntry(k) = [status |-> job[j].status, work |-> applied[j]]
BY NoneAssumption, BoundsAssumption
   DEF LedgerEntry, JobOf, Committed, Exists, IInv, TableInv, UniqueKeys

LEMMA EntryIsNext ==
  ASSUME IInv', NEW k \in Keys
  PROVE  /\ Committed(k)' = {} => LedgerEntry(k)' = None
         /\ \A j \in JobIds : job'[j] # None /\ job'[j].key = k =>
              LedgerEntry(k)' = [status |-> job'[j].status, work |-> applied'[j]]
<1>1. JobIds' = JobIds
  OBVIOUS
<1> QED
  BY <1>1, NoneAssumption, BoundsAssumption
     DEF LedgerEntry, JobOf, Committed, Exists, IInv, TableInv, UniqueKeys

LEMMA LedgerInit == Init => Ledger!Init
<1> SUFFICES ASSUME Init PROVE Ledger!Init
  OBVIOUS
<1>1. \A k \in Keys : LedgerEntry(k) = None
  BY DEF Init, LedgerEntry, JobOf, Committed, Exists
<1>2. \A c \in Clients : Told(c) = None
  BY DEF Init, Told
<1> QED
  BY <1>1, <1>2 DEF Ledger!Init

\* What clients have been told does not change with the jobs they were told of.
LEMMA ToldKept ==
  ASSUME IInv, UNCHANGED <<cpc, answer>>,
         \A j \in JobIds : Exists(j) => job'[j].key = job[j].key
  PROVE  \A c \in Clients : Told(c)' = Told(c)
BY DEF Told, IInv, RequestInv, TypeInv, ClientType

\* Steps that leave the committed table alone.
LEMMA LedgerStutter ==
  ASSUME IInv, IInv', job' = job, applied' = applied,
         \A c \in Clients : Told(c)' = Told(c)
  PROVE  UNCHANGED Ledger!vars
<1>1. \A k \in Keys : LedgerEntry(k)' = LedgerEntry(k)
  <2> TAKE k \in Keys
  <2>1. CASE \E j \in JobIds : Exists(j) /\ job[j].key = k
    BY <2>1, EntryIs, EntryIsNext DEF Exists
  <2>2. CASE ~\E j \in JobIds : Exists(j) /\ job[j].key = k
    <3>1. Committed(k) = {} /\ Committed(k)' = {}
      BY <2>2 DEF Committed, Exists
    <3> QED
      BY <3>1, EntryIs, EntryIsNext
  <2> QED
    BY <2>1, <2>2
<1> QED
  BY <1>1 DEF Ledger!vars

\* Steps that have nothing to do with the queue.
LEMMA LedgerAside ==
  ASSUME IInv, IInv', UNCHANGED <<job, applied, cpc, answer>>
  PROVE  [Ledger!Next]_(Ledger!vars)
<1>1. \A c \in Clients : Told(c)' = Told(c)
  BY DEF Told
<1> QED
  BY <1>1, LedgerStutter

\* Whatever else the commit of a request writes, its job is what counts.
LEMMA LedgerRequest ==
  ASSUME IInv, IInv', NEW c \in Clients,
         \/ \E k \in Keys : Lookup(c, k)
         \/ Select(c) \/ Insert(c) \/ Reselect(c) \/ CommitJob(c) \/ AbortSubmit(c)
  PROVE  [Ledger!Next]_(Ledger!vars)
<1> USE NoneAssumption
<1>1. \A d \in Clients \ {c} : cpc'[d] = cpc[d] /\ answer'[d] = answer[d]
  BY DEF IInv, TypeInv, ClientType, Submit, Lookup, Select, Insert, Reselect, CommitJob,
         AbortSubmit, EndRequest
<1>2. applied' = applied
  BY DEF Submit, Lookup, Select, Insert, Reselect, CommitJob, AbortSubmit
<1>3. ASSUME NEW k \in Keys, Lookup(c, k) PROVE [Ledger!Next]_(Ledger!vars)
  <2>1. job' = job /\ cpc'[c] = "select"
    BY <1>3 DEF Lookup, IInv, TypeInv, ClientType
  <2>2. \A d \in Clients : Told(d)' = IF d = c THEN None ELSE Told(d)
    BY <1>1, <2>1 DEF Told
  <2>3. \A n \in Keys : LedgerEntry(n)' = LedgerEntry(n)
    BY <1>2, <2>1 DEF LedgerEntry, JobOf, Committed, Exists
  <2>4. Ledger!Forget(c)
    BY <2>2, <2>3 DEF Ledger!Forget
  <2> QED
    BY <2>4 DEF Ledger!Next
<1>4. ASSUME job' = job, cpc[c] # "idle", cpc'[c] # "idle" \/ answer'[c] = None
      PROVE  [Ledger!Next]_(Ledger!vars)
  <2>1. \A d \in Clients : Told(d)' = Told(d)
    BY <1>1, <1>4 DEF Told
  <2> QED
    BY <1>2, <1>4, <2>1, LedgerStutter
<1>5. CASE Select(c) \/ Insert(c) \/ Reselect(c)
  <2>1. job' = job /\ cpc[c] # "idle" /\ cpc'[c] # "idle"
    BY <1>5 DEF Select, Insert, Reselect, IInv, TypeInv, ClientType
  <2> QED
    BY <1>4, <2>1
<1>6. CASE AbortSubmit(c)
  <2>1. job' = job /\ cpc[c] # "idle" /\ answer'[c] = None
    BY <1>6 DEF AbortSubmit, IInv, TypeInv, ClientType
  <2> QED
    BY <1>4, <2>1
<1>7. CASE CommitJob(c)
  <2>1. /\ cpc[c] = "commit" /\ cpc'[c] = "idle" /\ answer' = answer
        /\ answer[c] \in JobIds /\ ckey[c] \in Keys
    BY <1>7 DEF CommitJob, EndRequest, IInv, RequestInv, TypeInv, ClientType
  <2>2. /\ \A j \in JobIds : Exists(j) => job'[j] = job[j]
        /\ job'[answer[c]] # None /\ job'[answer[c]].key = ckey[c]
        /\ draft[c] = None => job' = job /\ Exists(answer[c])
        /\ draft[c] # None =>
             /\ answer[c] = draft[c] /\ Committed(ckey[c]) = {}
             /\ job'[draft[c]].status = "RUNNING" /\ applied[draft[c]] = 0
             /\ \A j \in JobIds \ {draft[c]} : job'[j] = job[j]
    <3>1. CASE draft[c] = None
      BY <1>7, <2>1, <3>1 DEF CommitJob, IInv, RequestInv, Exists
    <3>2. CASE draft[c] # None
      <4>1. /\ draft[c] \in JobIds /\ answer[c] = draft[c] /\ ~Exists(draft[c])
            /\ Committed(ckey[c]) = {} /\ applied[draft[c]] = 0
        BY <2>1, <3>2 DEF IInv, RequestInv, TableInv, TypeInv, ClientType
      <4>2. job' = [job EXCEPT ![draft[c]] = NewJob(ckey[c], began[c])]
        BY <1>7, <3>2 DEF CommitJob
      <4>3. /\ NewJob(ckey[c], began[c]) # None
            /\ NewJob(ckey[c], began[c]).key = ckey[c]
            /\ NewJob(ckey[c], began[c]).status = "RUNNING"
        BY <2>1, NewJobType, RowAssumption DEF NewJob, IInv, TypeInv, ClientType
      <4> QED
        BY <3>2, <4>1, <4>2, <4>3 DEF IInv, TypeInv, TableType, Exists
    <3> QED
      BY <3>1, <3>2
  <2>3. \A d \in Clients : Told(d)' = IF d = c THEN ckey[c] ELSE Told(d)
    <3>1. Told(c)' = ckey[c]
      BY <2>1, <2>2 DEF Told
    <3>2. ASSUME NEW d \in Clients \ {c} PROVE Told(d)' = Told(d)
      <4>1. cpc[d] = "idle" /\ answer[d] # None => answer[d] \in JobIds /\ Exists(answer[d])
        BY DEF IInv, RequestInv, TypeInv, ClientType
      <4> QED
        BY <1>1, <2>2, <4>1 DEF Told
    <3> QED
      BY <3>1, <3>2
  <2>4. \A k \in Keys : LedgerEntry(k)' =
          IF k = ckey[c] /\ LedgerEntry(k) = None
          THEN [status |-> "RUNNING", work |-> 0] ELSE LedgerEntry(k)
    <3> TAKE k \in Keys
    <3>1. CASE k = ckey[c] /\ draft[c] # None
      <4>1. LedgerEntry(k) = None
        BY <2>2, <3>1, EntryIs
      <4>2. LedgerEntry(k)' = [status |-> "RUNNING", work |-> 0]
        BY <1>2, <2>1, <2>2, <3>1, EntryIsNext
      <4> QED
        BY <3>1, <4>1, <4>2
    <3>2. CASE \E j \in JobIds : Exists(j) /\ job[j].key = k
      <4>1. PICK j \in JobIds : Exists(j) /\ job[j].key = k
        BY <3>2
      <4>2. LedgerEntry(k) = [status |-> job[j].status, work |-> applied[j]]
        BY <4>1, EntryIs
      <4>3. LedgerEntry(k)' = [status |-> job[j].status, work |-> applied[j]]
        BY <1>2, <2>2, <4>1, EntryIsNext DEF Exists
      <4>4. job[j].status \in ExecutionStatus /\ applied[j] \in Nat
        BY <4>1 DEF IInv, TypeInv, TableType, Exists, CalculationJob
      <4>5. LedgerEntry(k) # None
        BY <4>2, <4>4, EntryAssumption
      <4> QED
        BY <4>2, <4>3, <4>5
    <3>3. CASE /\ k # ckey[c] \/ draft[c] = None
               /\ ~\E j \in JobIds : Exists(j) /\ job[j].key = k
      <4>1. Committed(k) = {} /\ Committed(k)' = {}
        BY <2>1, <2>2, <3>3 DEF Committed, Exists
      <4>2. k # ckey[c]
        BY <2>1, <2>2, <3>3
      <4> QED
        BY <4>1, <4>2, EntryIs, EntryIsNext
    <3> QED
      BY <3>1, <3>2, <3>3
  <2>5. Ledger!Register(c, ckey[c])
    BY <2>1, <2>3, <2>4 DEF Ledger!Register
  <2> QED
    BY <2>1, <2>5 DEF Ledger!Next
<1> QED
  BY <1>3, <1>5, <1>6, <1>7

LEMMA LedgerSubmit ==
  ASSUME IInv, IInv', NEW c \in Clients, Submit(c)
  PROVE  [Ledger!Next]_(Ledger!vars)
BY LedgerRequest DEF Submit, CommitSubmit

LEMMA LedgerWork ==
  ASSUME IInv, IInv', NEW w \in Workers, Work(w)
  PROVE  [Ledger!Next]_(Ledger!vars)
<1> USE NoneAssumption
<1>1. UNCHANGED <<cpc, answer>>
  BY DEF clientVars, Work, Claim, Return, Raise, NoHandler, Release, CommitWork, CrashWork,
         Unlock
<1>2. /\ \A c \in Clients : Told(c)' = Told(c)
      /\ \A j \in JobIds : Exists(j) => job'[j] # None /\ job'[j].key = job[j].key
      /\ \A j \in JobIds : ~Exists(j) => job'[j] = None
  BY <1>1, WorkKeepsKeys, ToldKept DEF Exists
<1>3. CASE job' = job /\ applied' = applied
  BY <1>2, <1>3, LedgerStutter
<1>4. CASE CommitWork(w)
  <2>0. PICK j \in JobIds, k \in Keys : j = held[w] /\ k = job[held[w]].key /\ Exists(j)
    BY <1>4 DEF CommitWork, IInv, TypeInv, TableType, WorkerType, LockInv, Exists,
                CalculationJob
  <2>1. /\ j = held[w] /\ k = job[j].key /\ Exists(j) /\ job[j] \in CalculationJob
        /\ job[j].status = "RUNNING" /\ applied[j] = job[j].chunks /\ applied[j] \in Nat
        /\ row[w] \in CalculationJob /\ row[w].chunks = job[j].chunks + effect[w]
        /\ effect[w] \in {0, 1} /\ row[w].status \in ExecutionStatus
    BY <1>4, <2>0 DEF CommitWork, IInv, TypeInv, TableType, WorkerType, LockInv, TableInv,
                      Exists, CalculationJob
  <2>2. applied[j] + effect[w] <= MaxChunks
    BY <2>1, BoundsAssumption DEF CalculationJob
  <2>3. \A i \in JobIds : /\ job'[i] = IF i = j THEN row[w] ELSE job[i]
                          /\ applied'[i] = IF i = j THEN applied[i] + effect[w] ELSE applied[i]
    BY <1>4, <2>1 DEF CommitWork, IInv, TypeInv, TableType
  <2>4. LedgerEntry(k) = [status |-> "RUNNING", work |-> applied[j]]
    BY <2>1, EntryIs
  <2>5. LedgerEntry(k)' = [status |-> row[w].status, work |-> applied[j] + effect[w]]
    <3>1. job'[j] # None /\ job'[j].key = k
      BY <1>2, <2>1
    <3> QED
      BY <2>1, <2>3, <3>1, EntryIsNext
  <2>6. ASSUME NEW n \in Keys \ {k} PROVE LedgerEntry(n)' = LedgerEntry(n)
    <3>1. CASE \E i \in JobIds : Exists(i) /\ job[i].key = n
      <4>1. PICK i \in JobIds : Exists(i) /\ job[i].key = n
        BY <3>1
      <4>2. i # j /\ job'[i] # None /\ job'[i].key = n
        BY <1>2, <2>1, <4>1
      <4> QED
        BY <2>3, <4>1, <4>2, EntryIs, EntryIsNext
    <3>2. CASE ~\E i \in JobIds : Exists(i) /\ job[i].key = n
      <4>1. Committed(n) = {} /\ Committed(n)' = {}
        BY <1>2, <3>2 DEF Committed, Exists
      <4> QED
        BY <4>1, EntryIs, EntryIsNext
    <3> QED
      BY <3>1, <3>2
  <2>7. LedgerEntry(k) # None
    BY <2>1, <2>4, EntryAssumption
  <2>8. Ledger!Advance(k, row[w].status, effect[w])
    <3>1. [n \in Keys |-> LedgerEntry(n)]' =
          [[n \in Keys |-> LedgerEntry(n)] EXCEPT
             ![k] = [status |-> row[w].status, work |-> LedgerEntry(k).work + effect[w]]]
      <4>1. LedgerEntry(k).work = applied[j]
        BY <2>4
      <4> QED
        BY <2>5, <2>6, <4>1
    <3>2. [c \in Clients |-> Told(c)]' = [c \in Clients |-> Told(c)]
      BY <1>2
    <3>3. /\ LedgerEntry(k).status \notin Terminal
          /\ LedgerEntry(k).work + effect[w] <= MaxChunks
      BY <2>1, <2>2, <2>4
    <3> QED
      BY <2>1, <2>7, <3>1, <3>2, <3>3 DEF Ledger!Advance
  <2> QED
    BY <2>1, <2>8 DEF Ledger!Next
<1> QED
  BY <1>3, <1>4 DEF Work, Claim, Return, Raise, NoHandler, Release, CrashWork

\* Every behaviour of the queue is one of the ledger: registration under a key
\* happens once, work advances one atomic chunk at a time, a terminal status is
\* final, and clients are only told of registered jobs.
THEOREM QueueImplementsLedger == Spec => LedgerSpec
<1>1. ASSUME IInv, IInv', [Next]_vars PROVE [Ledger!Next]_(Ledger!vars)
  <2>1. ASSUME Tick \/ UNCHANGED vars PROVE [Ledger!Next]_(Ledger!vars)
    BY <1>1, <2>1, LedgerAside DEF Tick, vars, clientVars
  <2> QED
    BY <1>1, <2>1, LedgerSubmit, LedgerWork DEF Next
<1> QED
  BY <1>1, LedgerInit, Invariance, PTL DEF Spec, LedgerSpec, Ledger!Spec

HIDE DEF JobIds, Terminal, ExecutionStatus

-----------------------------------------------------------------------------
(* The invariant of the commands                                           *)

Record == [portfolio: Portfolios, key: Keys]

CommandType ==
  /\ asked \in [Clients -> Asked \cup {None}]
  /\ \A c \in Clients : asked[c] = None <=> cpc[c] = "idle"
  /\ about = [j \in JobIds |-> about[j]]
  /\ \A j \in JobIds : Exists(j) => about[j].kind \in {"optimization", "backtest"}
  /\ optimizations \in Seq(Record)

\* The advisory lock of a key is held by one request.
OneLock ==
  \A c, d \in Clients : Files(c) /\ Files(d) /\ ckey[c] = ckey[d] => c = d

\* While a request holds the lock no optimisation is committed under its key.
LockGuards ==
  \A c \in Clients, j \in JobIds : Files(c) /\ Named(j) => job[j].key # ckey[c]

CommandInv == CommandType /\ OneLock /\ LockGuards /\ RecordsMatchJobs

CInv == IInv /\ CommandInv

-----------------------------------------------------------------------------
(* Steps that commit nothing                                               *)

\* A step of one request that is neither a commit nor the taking of a lock, or of
\* nobody; a worker writes to its job but leaves its key.
LEMMA Quiet ==
  ASSUME CommandInv, CommandType', UNCHANGED <<about, optimizations>>,
         \A j \in JobIds : /\ job'[j] = None <=> job[j] = None
                           /\ job[j] # None => job'[j].key = job[j].key,
         \A c \in Clients : Files(c)' => Files(c) /\ ckey'[c] = ckey[c]
  PROVE  CommandInv'
<1> USE DEF CommandInv
<1>1. \A j \in JobIds : (Exists(j)' <=> Exists(j)) /\ (Named(j)' <=> Named(j))
  BY DEF Named, Exists
<1>2. OneLock'
  BY DEF OneLock
<1>3. LockGuards'
  BY <1>1 DEF LockGuards, Named, Exists
<1>4. RecordsMatchJobs'
  <2>1. \A j \in JobIds : Named(j)' =>
          /\ about'[j].resource \in DOMAIN optimizations'
          /\ optimizations'[about'[j].resource].key = job'[j].key
    BY <1>1 DEF RecordsMatchJobs, Named, Exists
  <2>2. \A i, j \in JobIds :
          i # j /\ Named(i)' /\ Named(j)' => about'[i].resource # about'[j].resource
    BY <1>1 DEF RecordsMatchJobs
  <2>3. \A i \in DOMAIN optimizations' : \E j \in JobIds :
          /\ Exists(j)' /\ job'[j].key = optimizations'[i].key
          /\ \/ about'[j] = [kind |-> "optimization", resource |-> i]
             \/ about'[j].kind = "backtest"
    BY <1>1 DEF RecordsMatchJobs, Committed, Exists
  <2> QED
    BY <2>1, <2>2, <2>3 DEF RecordsMatchJobs, Committed
<1> QED
  BY <1>2, <1>3, <1>4

\* A step of the queue in which a request looks, inserts, or finds.
LEMMA RequestStep ==
  ASSUME CInv, NEW c \in Clients, Select(c) \/ Insert(c) \/ Reselect(c),
         UNCHANGED commandVars
  PROVE  CInv'
<1>1. /\ IInv' /\ UNCHANGED <<job, ckey, fresh, asked, about, optimizations>>
      /\ IInv /\ CommandInv
  BY SubmitStep DEF CInv, Submit, Select, Insert, Reselect, commandVars
<1>2. \A d \in Clients : cpc'[d] = "idle" <=> cpc[d] = "idle"
  BY DEF CInv, IInv, TypeInv, ClientType, Select, Insert, Reselect
<1>3. CommandType'
  BY <1>1, <1>2 DEF CommandInv, CommandType, Exists
<1>4. \A d \in Clients : Files(d)' => Files(d) /\ ckey'[d] = ckey[d]
  BY <1>1 DEF Files, Optimises
<1> QED
  BY <1>1, <1>3, <1>4, Quiet DEF CInv

LEMMA SubmitOptimizationKeeps ==
  ASSUME CInv, NEW c \in Clients, NEW p \in Portfolios, NEW k \in Keys,
         SubmitOptimization(c, p, k)
  PROVE  CInv'
<1> DEFINE x == [kind |-> "optimization", target |-> p]
<1>0. x \in Asked /\ x # None
  BY CommandsAssumption DEF Asked
<1>1. /\ IInv' /\ IInv /\ CommandInv
      /\ UNCHANGED <<job, about, optimizations>>
      /\ asked' = [asked EXCEPT ![c] = x]
  BY SubmitStep DEF CInv, SubmitOptimization, Submit, Lookup, Ask
<1>2. /\ cpc'[c] = "select" /\ ckey'[c] = k /\ fresh'[c] = (Committed(k) = {})
      /\ \A d \in Clients \ {c} : /\ cpc'[d] = cpc[d] /\ ckey'[d] = ckey[d]
                                  /\ fresh'[d] = fresh[d] /\ asked'[d] = asked[d]
  BY <1>1 DEF CInv, SubmitOptimization, Lookup, IInv, TypeInv, ClientType,
     CommandInv, CommandType
<1> HIDE DEF x
<1>3. CommandType'
  BY <1>0, <1>1, <1>2 DEF CommandInv, CommandType, Exists
<1>4. \A d \in Clients \ {c} : /\ Files(d)' <=> Files(d)
                               /\ Files(d) => ckey[d] # k
  BY <1>2 DEF SubmitOptimization, Files, Optimises, Locks
<1>5. OneLock'
  <2> SUFFICES ASSUME NEW d \in Clients, NEW e \in Clients, Files(d)', Files(e)',
                      ckey'[d] = ckey'[e], d # e
               PROVE  FALSE
    BY DEF OneLock
  <2>1. CASE d = c \/ e = c
    BY <1>2, <1>4, <2>1
  <2>2. CASE d # c /\ e # c
    BY <1>1, <1>2, <1>4, <2>2 DEF CommandInv, OneLock
  <2> QED
    BY <2>1, <2>2
<1>6. Files(c)' => Committed(k) = {}
  BY <1>2 DEF Files
<1>7. LockGuards'
  <2>1. \A j \in JobIds : (Named(j)' <=> Named(j)) /\ job'[j] = job[j]
    BY <1>1 DEF Named, Exists
  <2>2. \A j \in JobIds : Files(c)' /\ Named(j) => job[j].key # k
    BY <1>6 DEF Named, Committed
  <2>3. \A d \in Clients \ {c}, j \in JobIds : Files(d) /\ Named(j) => job[j].key # ckey[d]
    BY DEF CInv, CommandInv, LockGuards
  <2> QED
    BY <1>2, <1>4, <2>1, <2>2, <2>3 DEF LockGuards
<1>8. RecordsMatchJobs'
  BY <1>1 DEF CommandInv, RecordsMatchJobs, Named, Exists, Committed
<1> QED
  BY <1>1, <1>3, <1>5, <1>7, <1>8 DEF CInv, CommandInv

LEMMA RunBacktestKeeps ==
  ASSUME CInv, NEW c \in Clients, NEW b \in Backtests, NEW k \in Keys,
         RunBacktest(c, b, k)
  PROVE  CInv'
<1> DEFINE x == [kind |-> "backtest", target |-> b]
<1>0. x \in Asked /\ x # None /\ x.kind # "optimization"
  BY CommandsAssumption DEF Asked
<1>1. /\ IInv' /\ IInv /\ CommandInv
      /\ UNCHANGED <<job, about, optimizations>>
      /\ asked' = [asked EXCEPT ![c] = x]
  BY SubmitStep DEF CInv, RunBacktest, Submit, Lookup, Ask
<1>2. /\ cpc'[c] = "select"
      /\ \A d \in Clients \ {c} : /\ cpc'[d] = cpc[d] /\ ckey'[d] = ckey[d]
                                  /\ fresh'[d] = fresh[d] /\ asked'[d] = asked[d]
      /\ asked'[c] = x
  BY <1>1 DEF CInv, RunBacktest, Lookup, IInv, TypeInv, ClientType,
     CommandInv, CommandType
<1> HIDE DEF x
<1>3. CommandType'
  BY <1>0, <1>1, <1>2 DEF CommandInv, CommandType, Exists
<1>4. \A d \in Clients : Files(d)' => Files(d) /\ ckey'[d] = ckey[d]
  BY <1>0, <1>1, <1>2 DEF Files, Optimises
<1> QED
  BY <1>1, <1>3, <1>4, Quiet DEF CInv

LEMMA AbortKeeps ==
  ASSUME CInv, NEW c \in Clients, AbortCommand(c)
  PROVE  CInv'
<1>1. /\ IInv' /\ IInv /\ CommandInv
      /\ UNCHANGED <<job, about, optimizations>>
      /\ asked' = [asked EXCEPT ![c] = None]
  BY SubmitStep DEF CInv, AbortCommand, Submit, AbortSubmit
<1>2. /\ cpc'[c] = "idle" /\ asked'[c] = None
      /\ \A d \in Clients \ {c} : /\ cpc'[d] = cpc[d] /\ ckey'[d] = ckey[d]
                                  /\ fresh'[d] = fresh[d] /\ asked'[d] = asked[d]
  BY <1>1 DEF CInv, AbortCommand, AbortSubmit, EndRequest, IInv, TypeInv, ClientType,
     CommandInv, CommandType
<1>3. CommandType'
  BY <1>1, <1>2 DEF CommandInv, CommandType, Exists
<1>4. \A d \in Clients : Files(d)' => Files(d) /\ ckey'[d] = ckey[d]
  BY <1>2 DEF Files, Optimises
<1> QED
  BY <1>1, <1>3, <1>4, Quiet DEF CInv

\* The workers.
LEMMA ExecuteKeeps ==
  ASSUME CInv, NEW w \in Workers, Execute(w)
  PROVE  CInv'
<1>1. IInv' /\ IInv /\ CommandInv
  BY WorkStep DEF CInv, Execute
<1>2. \A j \in JobIds : /\ job'[j] = None <=> job[j] = None
                        /\ job[j] # None => job'[j].key = job[j].key
  BY <1>1, WorkKeepsKeys DEF Execute
<1>3. UNCHANGED <<asked, about, optimizations, cpc, ckey, fresh>>
  BY DEF Execute, commandVars, clientVars, Work, Claim, Return, Raise, NoHandler, Release,
     CommitWork, CrashWork, Unlock
<1>4. CommandType'
  BY <1>1, <1>2, <1>3 DEF CommandInv, CommandType, Exists
<1>5. \A d \in Clients : Files(d)' => Files(d) /\ ckey'[d] = ckey[d]
  BY <1>3 DEF Files, Optimises
<1> QED
  BY <1>1, <1>2, <1>3, <1>4, <1>5, Quiet DEF CInv

\* What leaves the queue and the optimisations alone.
LEMMA OtherSteps ==
  ASSUME CInv, UNCHANGED <<vars, asked, about, optimizations>>
  PROVE  CInv'
<1>1. IInv' /\ IInv /\ CommandInv
  BY IInvStep DEF CInv
<1>2. UNCHANGED <<job, cpc, ckey, fresh>>
  BY DEF vars, clientVars
<1>3. CommandType'
  BY <1>1, <1>2 DEF CommandInv, CommandType, Exists
<1>4. \A d \in Clients : Files(d)' => Files(d) /\ ckey'[d] = ckey[d]
  BY <1>2 DEF Files, Optimises
<1> QED
  BY <1>1, <1>2, <1>3, <1>4, Quiet DEF CInv

-----------------------------------------------------------------------------
(* The commit                                                              *)

LEMMA CommitKeeps ==
  ASSUME CInv, NEW c \in Clients, CommitCommand(c)
  PROVE  CInv'
<1> PICK d : d = draft[c]
  OBVIOUS
<1> PICK n \in Nat : n = Len(optimizations)
  BY DEF CInv, CommandInv, CommandType
<1> PICK k : k = ckey[c]
  OBVIOUS
<1>1. /\ IInv /\ CommandInv /\ IInv'
      /\ cpc[c] = "commit" /\ CommitJob(c)
  <2>1. audits' \in [JobIds -> Nat]
    BY DEF CommitCommand, CInv, IInv, TypeInv, TableType
  <2> QED
    BY <2>1, CommitStep DEF CInv, CommitCommand, CommitJob
<1>2. /\ cpc'[c] = "idle" /\ asked' = [asked EXCEPT ![c] = None] /\ asked'[c] = None
      /\ \A e \in Clients \ {c} : /\ cpc'[e] = cpc[e] /\ ckey'[e] = ckey[e]
                                  /\ fresh'[e] = fresh[e] /\ asked'[e] = asked[e]
  BY <1>1 DEF CommitCommand, CommitJob, EndRequest, IInv, TypeInv, ClientType,
     CommandInv, CommandType
<1>3. k \in Keys /\ asked[c] # None /\ asked[c] \in Asked
  BY <1>1 DEF IInv, TypeInv, ClientType, CommandInv, CommandType
<1>4. /\ ~Files(c)' /\ \A e \in Clients \ {c} : Files(e)' <=> Files(e)
  BY <1>2 DEF Files, Optimises
<1>5. OneLock'
  BY <1>1, <1>2, <1>4 DEF CommandInv, OneLock
\* The record.
<1>6. /\ optimizations \in Seq(Record) /\ DOMAIN optimizations = 1..n
      /\ Files(c) => /\ optimizations' \in Seq(Record)
                     /\ DOMAIN optimizations' = 1..(n + 1)
                     /\ \A i \in 1..n : optimizations'[i] = optimizations[i]
                     /\ optimizations'[n + 1].key = k
      /\ ~Files(c) => optimizations' = optimizations
  <2>1. optimizations \in Seq(Record) /\ DOMAIN optimizations = 1..n
    BY <1>1 DEF CommandInv, CommandType
  <2>2. ASSUME Files(c)
        PROVE  /\ optimizations' \in Seq(Record)
               /\ DOMAIN optimizations' = 1..(n + 1)
               /\ \A i \in 1..n : optimizations'[i] = optimizations[i]
               /\ optimizations'[n + 1].key = k
    <3> PICK r : r = [portfolio |-> asked[c].target, key |-> k]
      OBVIOUS
    <3>1. r \in Record /\ r.key = k
      BY <1>3, <2>2 DEF Asked, Record, Files, Optimises
    <3>2. optimizations' = Append(optimizations, r)
      BY <2>2 DEF CommitCommand
    <3> QED
      BY <2>1, <3>1, <3>2
  <2>3. ~Files(c) => optimizations' = optimizations
    BY DEF CommitCommand
  <2> QED
    BY <2>1, <2>2, <2>3
<1>7. CASE d = None
  <2>1. job' = job /\ about' = about
    BY <1>1, <1>7 DEF CommitCommand, CommitJob, NameJob
  <2>2. CommandType'
    BY <1>1, <1>2, <1>6, <2>1 DEF CommandInv, CommandType, Exists
  <2>3. LockGuards'
    BY <1>1, <1>2, <1>4, <2>1 DEF CommandInv, LockGuards, Named, Exists
  <2>4. CASE ~Files(c)
    <3>1. RecordsMatchJobs'
      BY <1>1, <1>6, <2>1, <2>4 DEF CommandInv, RecordsMatchJobs, Named, Exists, Committed
    <3> QED
      BY <1>1, <1>5, <2>2, <2>3, <3>1 DEF CInv, CommandInv
  <2>5. CASE Files(c)
    <3>0. answer[c] \in JobIds /\ Exists(answer[c]) /\ job[answer[c]].key = k
      <4>1. answer[c] # None /\ Exists(answer[c]) /\ job[answer[c]].key = k
        BY <1>1, <1>7 DEF IInv, RequestInv
      <4> QED
        BY <1>1, <4>1 DEF IInv, TypeInv, ClientType
    <3> PICK j \in JobIds : j = answer[c] /\ Exists(j) /\ job[j].key = k
      BY <3>0
    <3>1. about[j].kind = "backtest"
      BY <1>1, <2>5 DEF CommandInv, LockGuards, CommandType, Named
    <3>2. \A i \in JobIds : Named(i)' =>
            /\ about'[i].resource \in DOMAIN optimizations'
            /\ optimizations'[about'[i].resource].key = job'[i].key
      BY <1>1, <1>6, <2>1, <2>5 DEF CommandInv, RecordsMatchJobs, Named, Exists
    <3>3. \A i, h \in JobIds :
            i # h /\ Named(i)' /\ Named(h)' => about'[i].resource # about'[h].resource
      BY <1>1, <2>1 DEF CommandInv, RecordsMatchJobs, Named, Exists
    <3>4. ASSUME NEW i \in DOMAIN optimizations'
          PROVE  \E h \in JobIds :
                   /\ Exists(h)' /\ job'[h].key = optimizations'[i].key
                   /\ \/ about'[h] = [kind |-> "optimization", resource |-> i]
                      \/ about'[h].kind = "backtest"
      <4>1. CASE i = n + 1
        BY <1>6, <2>1, <2>5, <3>1, <4>1 DEF Exists
      <4>2. CASE i # n + 1
        <5>1. i \in DOMAIN optimizations /\ optimizations'[i] = optimizations[i]
          BY <1>6, <2>5, <4>2
        <5> QED
          BY <1>1, <2>1, <5>1 DEF CommandInv, RecordsMatchJobs, Committed, Exists
      <4> QED
        BY <4>1, <4>2
    <3>5. RecordsMatchJobs'
      BY <3>2, <3>3, <3>4 DEF RecordsMatchJobs, Committed
    <3> QED
      BY <1>1, <1>5, <2>2, <2>3, <3>5 DEF CInv, CommandInv
  <2> QED
    BY <2>4, <2>5
<1>8. CASE d # None
  <2> PICK r : r = [kind |-> asked[c].kind, resource |-> Resource(c)]
    OBVIOUS
  <2>1. /\ d \in JobIds /\ fresh[c] /\ ~Exists(d)
        /\ \A j \in JobIds : Exists(j) => job[j].key # k
    BY <1>1, <1>8 DEF IInv, RequestInv, TypeInv, ClientType, Committed
  <2>2. /\ \A j \in JobIds \ {d} : job'[j] = job[j] /\ about'[j] = about[j]
        /\ job'[d].key = k /\ job'[d] # None
        /\ about' = [about EXCEPT ![d] = r] /\ about'[d] = r
    <3>1. NewJob(k, began[c]) # None /\ NewJob(k, began[c]).key = k
      BY <1>1, <1>3, NewJobType, RowAssumption DEF NewJob, IInv, TypeInv, ClientType
    <3>2. job' = [job EXCEPT ![d] = NewJob(k, began[c])]
      BY <1>1, <1>8 DEF CommitJob
    <3>3. about' = [about EXCEPT ![d] = r]
      BY <1>8 DEF CommitCommand, NameJob
    <3> QED
      BY <1>1, <2>1, <3>1, <3>2, <3>3
      DEF IInv, TypeInv, TableType, CommandInv, CommandType
  <2>3. /\ Files(c) => r.kind = "optimization" /\ r.resource = n + 1
        /\ ~Files(c) => r.kind = "backtest"
    BY <1>3, <2>1 DEF Files, Optimises, Resource, Asked
  <2>4. CommandType'
    <3>1. \A j \in JobIds : Exists(j)' => about'[j].kind \in {"optimization", "backtest"}
      BY <1>1, <2>2, <2>3 DEF CommandInv, CommandType, Exists
    <3> QED
      BY <1>1, <1>2, <1>6, <2>2, <3>1 DEF CommandInv, CommandType
  <2>5. /\ \A j \in JobIds \ {d} : Named(j)' <=> Named(j)
        /\ Named(d)' <=> Files(c)
    BY <2>2, <2>3 DEF Named, Exists
  <2>6. LockGuards'
    <3> SUFFICES ASSUME NEW e \in Clients, NEW j \in JobIds, Files(e)', Named(j)'
                 PROVE  job'[j].key # ckey'[e]
      BY DEF LockGuards
    <3>1. e # c /\ Files(e) /\ ckey'[e] = ckey[e]
      BY <1>2, <1>4
    <3>2. CASE j # d
      BY <1>1, <2>2, <2>5, <3>1, <3>2 DEF CommandInv, LockGuards
    <3>3. CASE j = d
      BY <1>1, <2>2, <2>5, <3>1, <3>3 DEF CommandInv, OneLock
    <3> QED
      BY <3>2, <3>3
  <2>7. ASSUME NEW j \in JobIds \ {d}, Named(j)
        PROVE  /\ about[j].resource \in 1..n /\ about'[j].resource = about[j].resource
               /\ optimizations[about[j].resource].key = job[j].key
    BY <1>1, <1>6, <2>2, <2>7 DEF CommandInv, RecordsMatchJobs
  <2>8. ASSUME NEW j \in JobIds, Named(j)'
        PROVE  /\ about'[j].resource \in DOMAIN optimizations'
               /\ optimizations'[about'[j].resource].key = job'[j].key
    <3>1. CASE j # d
      BY <1>6, <2>2, <2>5, <2>7, <2>8, <3>1
    <3>2. CASE j = d
      BY <1>6, <2>2, <2>3, <2>5, <2>8, <3>2
    <3> QED
      BY <3>1, <3>2
  <2>9. ASSUME NEW i \in JobIds, NEW j \in JobIds, i # j, Named(i)', Named(j)'
        PROVE  about'[i].resource # about'[j].resource
    <3>1. CASE i # d /\ j # d
      BY <1>1, <2>2, <2>5, <2>9, <3>1 DEF CommandInv, RecordsMatchJobs
    <3>2. CASE i = d \/ j = d
      BY <2>2, <2>3, <2>5, <2>7, <2>9, <3>2
    <3> QED
      BY <3>1, <3>2
  <2>10. ASSUME NEW i \in DOMAIN optimizations'
         PROVE  \E j \in JobIds :
                  /\ Exists(j)' /\ job'[j].key = optimizations'[i].key
                  /\ \/ about'[j] = [kind |-> "optimization", resource |-> i]
                     \/ about'[j].kind = "backtest"
    <3>1. CASE i \in 1..n
      <4>1. optimizations'[i] = optimizations[i]
        BY <1>6, <3>1
      <4>2. PICK j \in JobIds :
              /\ Exists(j) /\ job[j].key = optimizations[i].key
              /\ \/ about[j] = [kind |-> "optimization", resource |-> i]
                 \/ about[j].kind = "backtest"
        BY <1>1, <1>6, <3>1 DEF CommandInv, RecordsMatchJobs, Committed
      <4>3. j # d
        BY <2>1, <4>2
      <4> QED
        BY <2>2, <4>1, <4>2, <4>3 DEF Exists
    <3>2. CASE i \notin 1..n
      <4>1. Files(c) /\ i = n + 1
        BY <1>6, <2>10, <3>2
      <4>2. about'[d] = [kind |-> "optimization", resource |-> i]
        BY <2>2, <2>3, <4>1
      <4> QED
        BY <1>6, <2>1, <2>2, <4>1, <4>2 DEF Exists
    <3> QED
      BY <3>1, <3>2
  <2>11. RecordsMatchJobs'
    BY <2>8, <2>9, <2>10 DEF RecordsMatchJobs, Committed
  <2> QED
    BY <1>1, <1>5, <2>4, <2>6, <2>11 DEF CInv, CommandInv
<1> QED
  BY <1>7, <1>8

-----------------------------------------------------------------------------
(* The theorem                                                             *)

LEMMA CommandsInitially == CommandsInit => CInv
<1> SUFFICES ASSUME CommandsInit
             PROVE  CInv
  OBVIOUS
<1>1. /\ IInv /\ \A j \in JobIds : ~Exists(j)
      /\ optimizations = <<>> /\ asked = [c \in Clients |-> None]
      /\ cpc = [c \in Clients |-> "idle"] /\ about = [j \in JobIds |-> None]
  BY IInvInit DEF CommandsInit, Init, Exists
<1>2. CommandType
  BY <1>1 DEF CommandType
<1>3. OneLock /\ LockGuards
  BY <1>1 DEF OneLock, LockGuards, Files, Optimises
<1>4. RecordsMatchJobs
  BY <1>1 DEF RecordsMatchJobs, Named
<1> QED
  BY <1>1, <1>2, <1>3, <1>4 DEF CInv, CommandInv

LEMMA CommandsStep ==
  ASSUME CInv, [CommandsNext]_allVars
  PROVE  CInv'
<1>1. ASSUME NEW c \in Clients, Command(c)
      PROVE  CInv'
  <2>1. CASE \E k \in Keys : \/ \E p \in Portfolios : SubmitOptimization(c, p, k)
                            \/ \E b \in Backtests : RunBacktest(c, b, k)
    BY <2>1, SubmitOptimizationKeeps, RunBacktestKeeps
  <2>2. CASE SelectJob(c) \/ InsertJob(c) \/ ReselectJob(c)
    BY <2>2, RequestStep DEF SelectJob, InsertJob, ReselectJob
  <2>3. CASE CommitCommand(c) \/ AbortCommand(c)
    BY <2>3, CommitKeeps, AbortKeeps
  <2>4. CASE \/ \E d \in Decisions, a \in Actions : Review(c, d, a)
             \/ CommitReview(c) \/ AbortReview(c)
    BY <2>4, OtherSteps DEF Review, CommitReview, AbortReview, commandVars
  <2> QED
    BY <1>1, <2>1, <2>2, <2>3, <2>4 DEF Command
<1>2. ASSUME NEW b \in Backtests, CreateBacktest(b)
      PROVE  CInv'
  BY <1>2, OtherSteps DEF CreateBacktest
<1>3. ASSUME NEW w \in Workers, Execute(w)
      PROVE  CInv'
  BY <1>3, ExecuteKeeps
<1>4. CASE UNCHANGED allVars
  BY <1>4, OtherSteps DEF allVars, commandVars
<1> QED
  BY <1>1, <1>2, <1>3, <1>4 DEF CommandsNext

\* However optimisations and backtest runs race under one key, and whatever fails
\* in between, the job of an optimisation names the record that was committed with
\* it, and a record that none names has lost its key to a backtest run
\* (submit_optimization, run_backtest).
THEOREM RecordsAndJobsMatch == CommandsSpec => []RecordsMatchJobs
<1>1. CInv => RecordsMatchJobs
  BY DEF CInv, CommandInv
<1> QED
  BY <1>1, CommandsInitially, CommandsStep, PTL DEF CommandsSpec

\* The requests of both kinds keep what the queue promises to those of ingestion:
\* a key has one job, and no request is answered with the database's error.
THEOREM CommandsKeepTheQueue == CommandsSpec => [](UniqueKeys /\ NeverRaises)
<1>1. CInv => UniqueKeys /\ NeverRaises
  BY DEF CInv, IInv, TableInv
<1> QED
  BY <1>1, CommandsInitially, CommandsStep, PTL DEF CommandsSpec

\* Optimisations and backtest runs keep the ledger's promises too: a key is
\* registered once, whichever kind of request takes it, a job's work advances one
\* atomic chunk at a time to one final status, and a request is only told of the
\* registered job of its own key (submit_optimization, run_backtest).
THEOREM CommandsImplementLedger == CommandsSpec => LedgerSpec
<1>1. ASSUME CInv, CInv', NEW c \in Clients, Command(c)
      PROVE  [Ledger!Next]_(Ledger!vars)
  <2>1. CASE \/ \E d \in Decisions, a \in Actions : Review(c, d, a)
             \/ CommitReview(c) \/ AbortReview(c)
    <3>1. UNCHANGED vars
      BY <2>1 DEF Review, CommitReview, AbortReview
    <3> QED
      BY <1>1, <3>1, LedgerAside DEF CInv, vars, clientVars
  <2>2. CASE \/ \E k \in Keys : \/ \E p \in Portfolios : SubmitOptimization(c, p, k)
                                \/ \E b \in Backtests : RunBacktest(c, b, k)
             \/ SelectJob(c) \/ InsertJob(c) \/ ReselectJob(c)
             \/ CommitCommand(c) \/ AbortCommand(c)
    <3>1. \/ \E k \in Keys : Lookup(c, k)
          \/ Select(c) \/ Insert(c) \/ Reselect(c) \/ CommitJob(c) \/ AbortSubmit(c)
      BY <2>2 DEF SubmitOptimization, RunBacktest, SelectJob, InsertJob, ReselectJob,
                  CommitCommand, AbortCommand
    <3> QED
      BY <1>1, <3>1, LedgerRequest DEF CInv
  <2> QED
    BY <1>1, <2>1, <2>2 DEF Command
<1>2. ASSUME CInv, CInv', [CommandsNext]_allVars
      PROVE  [Ledger!Next]_(Ledger!vars)
  <2>1. CASE (\E b \in Backtests : CreateBacktest(b)) \/ UNCHANGED allVars
    <3>1. UNCHANGED vars
      BY <2>1 DEF CreateBacktest, allVars
    <3> QED
      BY <1>2, <3>1, LedgerAside DEF CInv, vars, clientVars
  <2>2. CASE \E w \in Workers : Execute(w)
    BY <1>2, <2>2, LedgerWork DEF CInv, Execute
  <2> QED
    BY <1>1, <1>2, <2>1, <2>2 DEF CommandsNext
<1>3. CommandsInit => Ledger!Init
  BY LedgerInit DEF CommandsInit
<1> QED
  BY <1>2, <1>3, CommandsInitially, CommandsStep, PTL
  DEF CommandsSpec, LedgerSpec, Ledger!Spec

=============================================================================
