------------------------ MODULE ScopedIngestion_proofs ------------------------
(***************************************************************************)
(* Proofs about ScopedIngestion, for any funds, previews, keys, requests   *)
(* and workers: what an operation is made of, that its progress is exact,  *)
(* that nothing runs after a cancellation, and that a retry owns what its  *)
(* parent failed.                                                          *)
(***************************************************************************)
EXTENDS ScopedIngestion, FiniteSetTheorems, TLAPS

-----------------------------------------------------------------------------
(* The invariant                                                           *)

RequestType ==
  [pc: {"idle", "freeze", "insert", "commit"}, key: Keys \cup {None},
   preview: Previews \cup {None}, parent: Ops \cup {None},
   failed: SUBSET Funds, answer: Ops \cup {None}]

TxType ==
  [op: Ops, row: Op, items: Items, attempts: [Funds -> Nat], ran: BOOLEAN]

TableType ==
  /\ catalogue \in Resolution
  /\ preview \in [Previews -> Scoped \cup {None}]
  /\ op \in [Ops -> Op \cup {None}]
  /\ items \in [Ops -> Items]
  /\ attempts \in [Ops -> [Funds -> Nat]]
  /\ submitted \in [Ops -> Nat]
  /\ lastOp \in 0..MaxOps

TypeInv ==
  /\ TableType
  /\ req \in [Requests -> RequestType]
  /\ tx \in [Workers -> TxType \cup {None}]
  /\ locked \in [Workers -> SUBSET Ops]

(* The funds an operation has an item for. *)
Rows(list) == {f \in Funds : list[f] # "NONE"}
Wanted(p) == {f \in Funds : preview[p].members[f] # "absent"}
Ended(o) == Exists(o) /\ op[o].status # "RUNNING"

(* A row says what the items add up to; see ProgressIsExact. *)
Exact(row, list) ==
  /\ row.progress = NumSettled(list)
  /\ row.counts = Counts(list)
  /\ row.status # "RUNNING" => With(list, "PENDING") = {}

(* What an operation is made of: a preview, or the failures of its parent. *)
Made(o) ==
  /\ op[o].parent = None <=> op[o].key \in SubmitKeys
  /\ op[o].parent = None =>
       /\ preview[op[o].preview] # None
       /\ Rows(items[o]) = Wanted(op[o].preview)
  /\ op[o].parent # None =>
       /\ Ended(op[o].parent)
       /\ Rows(items[o]) = With(items[op[o].parent], "FAILED")
       /\ Rows(items[o]) # {}

OpInv(o) ==
  /\ Exists(o) => Made(o) /\ Exact(op[o], items[o]) /\ o <= lastOp
  /\ Exists(o) <=> submitted[o] > 0
  /\ ~Exists(o) => items[o] = NoItems
  /\ items[o] # NoItems => submitted[o] = 1

(* What a request relies on until it ends. *)
RequestInv(r) ==
  /\ req[r].pc = "idle" => req[r].parent = None
  /\ req[r].pc = "freeze" => req[r].parent = None
  /\ req[r].pc # "idle" => req[r].key \in Keys
  /\ req[r].pc # "idle" /\ req[r].parent = None =>
       /\ req[r].key \in SubmitKeys
       /\ req[r].preview \in Previews
       /\ preview[req[r].preview] # None
  /\ req[r].parent # None =>
       /\ req[r].key \in RetryKeys
       /\ Ended(req[r].parent)
       /\ req[r].failed = With(items[req[r].parent], "FAILED")
       /\ req[r].failed # {}
  /\ Freezes(r) => preview[req[r].preview].members = catalogue
  /\ req[r].pc = "commit" =>
       /\ req[r].answer \in Ops
       /\ req[r].answer <= lastOp
       /\ Exists(req[r].answer) =>
            SameTarget(r, req[r].answer) /\ op[req[r].answer].key = req[r].key

(* Two open inserts have different ids. *)
Apart ==
  \A r, q \in Requests : Drafts(r) /\ Drafts(q) /\ req[r].answer = req[q].answer => r = q

(* A worker's copy is its operation, which nobody else writes. *)
WorkInv(w) ==
  tx[w] # None =>
    /\ Exists(tx[w].op)
    /\ op[tx[w].op].status = "RUNNING"
    /\ tx[w].op \in locked[w]
    /\ \A v \in Workers \ {w} : tx[w].op \notin locked[v]
    /\ tx[w].row.key = op[tx[w].op].key
    /\ tx[w].row.preview = op[tx[w].op].preview
    /\ tx[w].row.parent = op[tx[w].op].parent
    /\ tx[w].row.cancel = op[tx[w].op].cancel
    /\ Rows(tx[w].items) = Rows(items[tx[w].op])
    /\ Exact(tx[w].row, tx[w].items)
    /\ tx[w].row.cancel => tx[w].attempts = attempts[tx[w].op]
    /\ ~tx[w].ran => /\ tx[w].row = op[tx[w].op]
                     /\ tx[w].items = items[tx[w].op]
                     /\ tx[w].attempts = attempts[tx[w].op]

IInv ==
  /\ TypeInv
  /\ \A o \in Ops : OpInv(o)
  /\ \A r \in Requests : RequestInv(r)
  /\ Apart
  /\ \A w \in Workers : WorkInv(w)

-----------------------------------------------------------------------------
(* Items *)

LEMMA CountType ==
    ASSUME NEW S, S \subseteq Funds
    PROVE  Cardinality(S) \in Nat
<1>1. IsFiniteSet(Funds)
  BY SizeAssumption, FS_Interval DEF Funds
<1> QED
  BY <1>1, FS_Subset, FS_CardinalityType

LEMMA CountsType ==
    ASSUME NEW list
    PROVE  NumSettled(list) \in Nat /\ Counts(list) \in [Settled -> Nat]
<1>1. NumSettled(list) \in Nat
  BY CountType DEF NumSettled
<1>2. \A s \in Settled : Cardinality(With(list, s)) \in Nat
  BY CountType DEF With
<1> QED
  BY <1>1, <1>2 DEF Counts

LEMMA NoRows ==
    ASSUME NEW list \in Items
    PROVE  Rows(list) = {} <=> list = NoItems
BY DEF Rows, NoItems, Items

LEMMA SubmitRows ==
    ASSUME NEW p, preview[p].members \in Resolution
    PROVE  SubmitItems(p) \in Items /\ Rows(SubmitItems(p)) = Wanted(p)
BY DEF SubmitItems, Items, ItemStatus, Settled, Rows, Wanted, Resolution

LEMMA RetryRows ==
    ASSUME NEW failed, failed \subseteq Funds
    PROVE  RetryItems(failed) \in Items /\ Rows(RetryItems(failed)) = failed
BY DEF RetryItems, Items, ItemStatus, Rows

(* A handler run settles items and adds none. *)
LEMMA RunKeepsRows ==
    ASSUME NEW w, NEW good, good \subseteq ToRun(w), tx[w].items \in Items
    PROVE  AfterRun(w, good) \in Items /\ Rows(AfterRun(w, good)) = Rows(tx[w].items)
<1>1. \A f \in ToRun(w) : f \in Funds /\ tx[w].items[f] = "PENDING"
  BY DEF ToRun, With
<1> QED
  BY <1>1 DEF AfterRun, Items, ItemStatus, Settled, Rows

LEMMA VerdictEnds ==
    ASSUME NEW list, NEW cancel \in BOOLEAN
    PROVE  /\ Verdict(list, cancel) \in {"RUNNING", "COMPLETED", "FAILED", "CANCELLED"}
           /\ Verdict(list, cancel) # "RUNNING" => With(list, "PENDING") = {}
BY DEF Verdict

-----------------------------------------------------------------------------
(* What a step that changes the tables keeps *)

(* Operations stay, those that ended with their items, and stored previews *)
(* keep their members.                                                     *)
Grows ==
  /\ \A o \in Ops : Exists(o) =>
       /\ Exists(o)'
       /\ op'[o].key = op[o].key
       /\ op'[o].preview = op[o].preview
       /\ op'[o].parent = op[o].parent
       /\ Ended(o) => Ended(o)' /\ items'[o] = items[o]
  /\ \A p \in Previews : preview[p] # None =>
       preview'[p] # None /\ preview'[p].members = preview[p].members
  /\ lastOp \in Nat /\ lastOp' \in Nat /\ lastOp <= lastOp'

(* An operation that a step leaves as it is. *)
LEMMA OpKept ==
    ASSUME TypeInv, Grows, NEW o \in Ops, OpInv(o),
           op'[o] = op[o], items'[o] = items[o], submitted'[o] = submitted[o]
    PROVE  OpInv(o)'
<1>1. Exists(o)' <=> Exists(o)
  BY DEF Exists
<1>2. ASSUME Exists(o)
      PROVE  Made(o)'
  <2>1. Made(o) /\ op[o] \in Op
    BY <1>2 DEF OpInv, TypeInv, TableType, Exists
  <2>2. ASSUME op[o].parent = None
        PROVE  preview'[op[o].preview] # None /\ Rows(items[o]) = Wanted(op[o].preview)'
    BY <2>1, <2>2 DEF Grows, Made, Op, Wanted
  <2>3. ASSUME op[o].parent # None
        PROVE  /\ Ended(op[o].parent)'
               /\ Rows(items[o]) = With(items'[op[o].parent], "FAILED")
    BY <2>1, <2>3 DEF Grows, Made, Op, Ended
  <2> QED
    BY <2>1, <2>2, <2>3 DEF Made
<1>3. Exists(o) => Exact(op'[o], items'[o]) /\ o <= lastOp'
  BY DEF OpInv, Grows, Ops
<1> QED
  BY <1>1, <1>2, <1>3 DEF OpInv

(* A request that a step leaves as it is, unless it freezes a catalogue    *)
(* that changes or has drafted the row that is committed.                  *)
LEMMA RequestKept ==
    ASSUME TypeInv, Grows, NEW r \in Requests, RequestInv(r), req'[r] = req[r],
           Freezes(r) => catalogue' = catalogue,
           Drafts(r) => op'[req[r].answer] = op[req[r].answer]
    PROVE  RequestInv(r)'
<1>1. req[r] \in RequestType
  BY DEF TypeInv
<1>2. Freezes(r)' <=> Freezes(r)
  BY DEF Freezes
<1>3. Freezes(r) => preview'[req[r].preview].members = catalogue'
  BY DEF Freezes, Grows, RequestInv
<1>4. req[r].parent # None =>
        /\ Ended(req[r].parent)'
        /\ req[r].failed = With(items'[req[r].parent], "FAILED")
  BY <1>1 DEF RequestType, Grows, RequestInv, Ended
<1>5. ASSUME req[r].pc = "commit"
      PROVE  /\ req[r].answer <= lastOp'
             /\ Exists(req[r].answer)' =>
                  SameTarget(r, req[r].answer)' /\ op'[req[r].answer].key = req[r].key
  <2>1. req[r].answer \in Ops /\ req[r].answer <= lastOp
    BY <1>5 DEF RequestInv
  <2>2. req[r].answer <= lastOp'
    BY <2>1 DEF Grows, Ops
  <2>3. Exists(req[r].answer)' => Exists(req[r].answer)
    BY <1>5, <2>1 DEF Drafts, Exists
  <2> QED
    BY <1>5, <2>1, <2>2, <2>3 DEF RequestInv, Grows, SameTarget
<1> QED
  BY <1>2, <1>3, <1>4, <1>5 DEF RequestInv, Grows

(* A worker whose operation and locks a step leaves as they are. *)
LEMMA WorkKept ==
    ASSUME NEW w \in Workers, WorkInv(w), tx'[w] = tx[w], locked'[w] = locked[w],
           tx[w] # None =>
             /\ op'[tx[w].op] = op[tx[w].op]
             /\ items'[tx[w].op] = items[tx[w].op]
             /\ attempts'[tx[w].op] = attempts[tx[w].op]
             /\ \A v \in Workers \ {w} : tx[w].op \notin locked'[v]
    PROVE  WorkInv(w)'
BY DEF WorkInv, Exists

-----------------------------------------------------------------------------
(* Scope and requests *)

(* A step that changes the catalogue, the previews and some requests only. *)
LEMMA TablesKept ==
    ASSUME IInv, TypeInv', Grows, Apart',
           UNCHANGED <<op, items, attempts, submitted, tx, locked>>,
           \A q \in Requests :
             \/ req'[q] = req[q] /\ (Freezes(q) => catalogue' = catalogue)
             \/ RequestInv(q)'
    PROVE  IInv'
<1>1. TypeInv
  BY DEF IInv
<1>2. \A o \in Ops : OpInv(o)'
  BY <1>1, OpKept DEF IInv
<1>3. \A q \in Requests : RequestInv(q)'
  BY <1>1, RequestKept DEF IInv
<1>4. \A w \in Workers : WorkInv(w)'
  BY WorkKept DEF IInv, WorkInv
<1> QED
  BY <1>2, <1>3, <1>4 DEF IInv

LEMMA NoNewDraft ==
    ASSUME Apart, op' = op, \A q \in Requests : req'[q] = req[q] \/ ~Drafts(q)'
    PROVE  Apart'
BY DEF Apart, Drafts, Exists

LEMMA ScopeSteps ==
    ASSUME IInv, Scope
    PROVE  IInv'
<1> USE SizeAssumption DEF IInv, TypeInv, TableType
<1>1. ASSUME NEW f \in Funds, NEW s \in {"absent", "unmapped", "mapped"}, Remap(f, s)
      PROVE  IInv'
  <2>1. TypeInv'
    BY <1>1 DEF Remap, opVars, workVars, Resolution
  <2>2. Grows
    BY <1>1 DEF Remap, opVars, workVars, Grows, Exists, Ended
  <2>3. Apart'
    BY <1>1, NoNewDraft DEF Remap, opVars
  <2> QED
    BY <1>1, <2>1, <2>2, <2>3, TablesKept DEF Remap, opVars, workVars
<1>2. ASSUME NEW p \in Previews, Preview(p)
      PROVE  IInv'
  <2>1. TypeInv'
    BY <1>2 DEF Preview, opVars, workVars, Scoped
  <2>2. Grows
    BY <1>2 DEF Preview, opVars, workVars, Grows, Exists, Ended
  <2>3. Apart'
    BY <1>2, NoNewDraft DEF Preview, opVars
  <2> QED
    BY <1>2, <2>1, <2>2, <2>3, TablesKept DEF Preview, opVars, workVars
<1>3. ASSUME NEW p \in Previews, Expire(p)
      PROVE  IInv'
  <2>1. preview[p] \in Scoped /\ preview'[p] = [preview[p] EXCEPT !.expired = TRUE]
    BY <1>3 DEF Expire
  <2>2. preview'[p] \in Scoped /\ preview'[p].members = preview[p].members
    BY <2>1 DEF Scoped
  <2>3. TypeInv'
    BY <1>3, <2>2 DEF Expire, opVars, workVars
  <2>4. Grows
    <3>1. preview'[p] # None /\ \A q \in Previews \ {p} : preview'[q] = preview[q]
      BY <1>3, <2>2, RowAssumption DEF Expire
    <3> QED
      BY <1>3, <2>2, <3>1 DEF Expire, opVars, workVars, Grows, Exists, Ended
  <2>5. Apart'
    BY <1>3, NoNewDraft DEF Expire, opVars
  <2> QED
    BY <1>3, <2>3, <2>4, <2>5, TablesKept DEF Expire, opVars, workVars
<1> QED
  BY <1>1, <1>2, <1>3 DEF Scope

(* A request that ends holds nothing. *)
LEMMA Idle ==
    ASSUME NEW r \in Requests, req'[r] = NoRequest
    PROVE  RequestInv(r)' /\ ~Drafts(r)'
BY DEF NoRequest, RequestInv, Drafts, Freezes

LEMMA IdleType == NoRequest \in RequestType
BY DEF NoRequest, RequestType

(* A step of one request that changes nothing else. *)
LEMMA RequestKeeps ==
    ASSUME IInv, NEW r \in Requests, req' \in [Requests -> RequestType],
           \A q \in Requests \ {r} : req'[q] = req[q],
           UNCHANGED <<catalogue, preview, op, items, attempts, submitted, tx, locked>>,
           lastOp' \in 0..MaxOps, lastOp <= lastOp',
           RequestInv(r)', Apart'
    PROVE  IInv'
<1>1. TypeInv'
  BY DEF IInv, TypeInv, TableType
<1>2. Grows
  BY SizeAssumption DEF IInv, TypeInv, TableType, Grows, Exists, Ended
<1> QED
  BY <1>1, <1>2, TablesKept

LEMMA RequestEnds ==
    ASSUME IInv, NEW r \in Requests, End(r), UNCHANGED <<catalogue, preview, opVars, workVars>>
    PROVE  IInv'
<1> USE DEF opVars, workVars
<1>1. req \in [Requests -> RequestType] /\ lastOp \in 0..MaxOps /\ Apart
  BY DEF IInv, TypeInv, TableType
<1>2. /\ req' \in [Requests -> RequestType]
      /\ req'[r] = NoRequest
      /\ \A q \in Requests \ {r} : req'[q] = req[q]
  BY <1>1, IdleType DEF End
<1>3. Apart'
  BY <1>1, <1>2, Idle, NoNewDraft
<1> QED
  BY <1>1, <1>2, <1>3, SizeAssumption, Idle, RequestKeeps

LEMMA Looks ==
    ASSUME IInv, NEW r \in Requests,
           \/ \E k \in SubmitKeys, p \in Previews : LookSubmit(r, k, p)
           \/ \E k \in RetryKeys, o \in Ops : LookRetry(r, k, o)
           \/ Freeze(r)
    PROVE  IInv'
<1> USE DEF opVars, workVars
<1>1. req \in [Requests -> RequestType] /\ lastOp \in 0..MaxOps /\ Apart /\ RequestInv(r)
  BY DEF IInv, TypeInv, TableType
<1>2. ASSUME NEW k \in SubmitKeys, NEW p \in Previews, LookSubmit(r, k, p)
      PROVE  IInv'
  <2>1. /\ req[r].pc = "idle" /\ preview[p] # None
        /\ req'[r] = [req[r] EXCEPT !.pc = "freeze", !.key = k, !.preview = p]
        /\ \A q \in Requests \ {r} : req'[q] = req[q]
    BY <1>1, <1>2 DEF LookSubmit
  <2>2. /\ req'[r] \in RequestType
        /\ req'[r].pc = "freeze" /\ req'[r].key = k
        /\ req'[r].preview = p /\ req'[r].parent = req[r].parent
    BY <1>1, <2>1 DEF RequestType, Keys
  <2>3. req' \in [Requests -> RequestType]
    BY <1>1, <1>2, <2>2 DEF LookSubmit
  <2>4. RequestInv(r)'
    BY <1>1, <1>2, <2>1, <2>2 DEF LookSubmit, RequestInv, Freezes, Keys
  <2>5. Apart'
    BY <1>1, <1>2, <2>1, <2>2, NoNewDraft DEF LookSubmit, Drafts
  <2>6. lastOp' \in 0..MaxOps /\ lastOp <= lastOp'
    <3>1. lastOp' = lastOp
      BY <1>2 DEF LookSubmit
    <3> QED
      BY <1>1, <3>1, SizeAssumption
  <2> QED
    BY <1>2, <2>1, <2>3, <2>4, <2>5, <2>6, RequestKeeps DEF LookSubmit
<1>3. ASSUME NEW k \in RetryKeys, NEW o \in Ops, LookRetry(r, k, o)
      PROVE  IInv'
  <2> DEFINE failed == With(items[o], "FAILED")
  <2>1. /\ req[r].pc = "idle" /\ Ended(o) /\ failed # {}
        /\ req'[r] = [req[r] EXCEPT !.pc = "insert", !.key = k, !.parent = o,
                                    !.failed = failed]
        /\ \A q \in Requests \ {r} : req'[q] = req[q]
    BY <1>1, <1>3 DEF LookRetry, Ended
  <2>2. failed \in SUBSET Funds
    BY DEF With
  <2>3. o # None
    BY KeyAssumption DEF Ops
  <2> HIDE DEF failed
  <2>4. /\ req'[r] \in RequestType
        /\ req'[r].pc = "insert" /\ req'[r].key = k
        /\ req'[r].parent = o /\ req'[r].failed = failed
    BY <1>1, <2>1, <2>2 DEF RequestType, Keys
  <2>5. req' \in [Requests -> RequestType]
    BY <1>1, <1>3, <2>4 DEF LookRetry
  <2>6. Ended(o)' /\ With(items[o], "FAILED")' = failed
    BY <1>3, <2>1 DEF LookRetry, Ended, Exists, With, failed
  <2>7. RequestInv(r)'
    BY <2>1, <2>3, <2>4, <2>6 DEF RequestInv, Freezes, Keys
  <2>8. Apart'
    BY <1>1, <1>3, <2>1, <2>4, NoNewDraft DEF LookRetry, Drafts
  <2>9. lastOp' \in 0..MaxOps /\ lastOp <= lastOp'
    <3>1. lastOp' = lastOp
      BY <1>3 DEF LookRetry
    <3> QED
      BY <1>1, <3>1, SizeAssumption
  <2> QED
    BY <1>3, <2>1, <2>5, <2>7, <2>8, <2>9, RequestKeeps DEF LookRetry
<1>4. CASE Freeze(r)
  <2>1. CASE catalogue = preview[req[r].preview].members
    <3>1. /\ req[r].pc = "freeze"
          /\ req'[r] = [req[r] EXCEPT !.pc = "insert"]
          /\ \A q \in Requests \ {r} : req'[q] = req[q]
      BY <1>1, <1>4, <2>1 DEF Freeze
    <3>2. req'[r] \in RequestType /\ req'[r].pc = "insert"
      BY <1>1, <3>1 DEF RequestType
    <3>3. /\ req'[r].key = req[r].key /\ req'[r].preview = req[r].preview
          /\ req'[r].parent = req[r].parent
      BY <1>1, <3>1 DEF RequestType
    <3>4. req' \in [Requests -> RequestType]
      BY <1>1, <1>4, <2>1, <3>2 DEF Freeze
    <3>5. RequestInv(r)'
      BY <1>1, <1>4, <2>1, <3>1, <3>2, <3>3 DEF Freeze, RequestInv, Freezes
    <3>6. Apart'
      BY <1>1, <1>4, <3>1, <3>2, NoNewDraft DEF Freeze, Drafts
    <3> QED
      BY <1>1, <1>4, <3>1, <3>4, <3>5, <3>6, SizeAssumption, RequestKeeps DEF Freeze
  <2>2. CASE catalogue # preview[req[r].preview].members
    BY <1>4, <2>2, RequestEnds DEF Freeze
  <2> QED
    BY <2>1, <2>2
<1> QED
  BY <1>2, <1>3, <1>4

LEMMA InsertKeeps ==
    ASSUME IInv, NEW r \in Requests, Insert(r)
    PROVE  IInv'
<1> USE DEF workVars
<1>1. req \in [Requests -> RequestType] /\ lastOp \in 0..MaxOps /\ Apart /\ RequestInv(r)
  BY DEF IInv, TypeInv, TableType
<1>2. req[r].pc = "insert"
  BY DEF Insert
<1>3. ASSUME NEW o \in Ops, o <= lastOp', lastOp' \in 0..MaxOps, lastOp <= lastOp',
             req' = [req EXCEPT ![r].pc = "commit", ![r].answer = o],
             Exists(o) => SameTarget(r, o) /\ op[o].key = req[r].key,
             Apart'
      PROVE  IInv'
  <2>1. /\ req'[r] = [req[r] EXCEPT !.pc = "commit", !.answer = o]
        /\ \A q \in Requests \ {r} : req'[q] = req[q]
    BY <1>1, <1>3
  <2>2. req'[r] \in RequestType /\ req'[r].pc = "commit" /\ req'[r].answer = o
    <3>1. o \in Ops /\ req[r] \in RequestType
      BY <1>1, <1>3
    <3> QED
      BY <2>1, <3>1 DEF RequestType
  <2>3. /\ req'[r].key = req[r].key /\ req'[r].preview = req[r].preview
        /\ req'[r].parent = req[r].parent /\ req'[r].failed = req[r].failed
    BY <1>1, <2>1 DEF RequestType
  <2>4. req' \in [Requests -> RequestType]
    BY <1>1, <1>3, <2>2
  <2>5. UNCHANGED <<catalogue, preview, op, items>>
    BY DEF Insert
  <2>6. RequestInv(r)'
    BY <1>1, <1>2, <1>3, <2>2, <2>3, <2>5
       DEF RequestInv, Freezes, SameTarget, Ended, Exists
  <2> QED
    BY <1>3, <2>1, <2>4, <2>6, RequestKeeps DEF Insert
<1>4. CASE Committed(req[r].key) = {}
  <2>1. /\ lastOp < MaxOps /\ lastOp' = lastOp + 1
        /\ req' = [req EXCEPT ![r].pc = "commit", ![r].answer = lastOp + 1]
    BY <1>4 DEF Insert
  <2>2. /\ lastOp + 1 \in Ops /\ lastOp' \in 0..MaxOps
        /\ lastOp <= lastOp' /\ lastOp + 1 <= lastOp'
    BY <1>1, <2>1, SizeAssumption DEF Ops
  <2>3. \A o \in Ops : Exists(o) => o <= lastOp
    BY DEF IInv, OpInv
  <2>4. ~Exists(lastOp + 1)
    BY <1>1, <2>2, <2>3, SizeAssumption DEF Ops
  <2>5. \A q \in Requests : Drafts(q) => req[q].answer \in Ops /\ req[q].answer <= lastOp
    BY DEF IInv, RequestInv, Drafts
  <2>6. Apart'
    <3>1. req'[r].answer = lastOp + 1
      BY <1>1, <2>1 DEF RequestType
    <3>2. \A q \in Requests \ {r} : req'[q] = req[q]
      BY <1>1, <2>1
    <3>3. \A q \in Requests \ {r} : Drafts(q)' => Drafts(q)
      BY <3>2 DEF Drafts, Exists, Insert
    <3>4. \A q \in Requests \ {r} : Drafts(q)' => req'[q].answer # lastOp + 1
      BY <1>1, <2>5, <3>2, <3>3, SizeAssumption DEF Ops
    <3> SUFFICES ASSUME NEW a \in Requests, NEW b \in Requests, Drafts(a)', Drafts(b)',
                        req'[a].answer = req'[b].answer
                 PROVE  a = b
      BY DEF Apart
    <3> QED
      BY <1>1, <3>1, <3>2, <3>3, <3>4 DEF Apart
  <2> QED
    BY <1>3, <2>1, <2>2, <2>4, <2>6
<1>5. CASE Committed(req[r].key) # {}
  <2>1. PICK o \in Committed(req[r].key) :
          /\ UNCHANGED <<catalogue, preview, opVars, workVars>>
          /\ IF SameTarget(r, o)
             THEN req' = [req EXCEPT ![r].pc = "commit", ![r].answer = o]
             ELSE End(r)
    BY <1>5 DEF Insert, opVars
  <2>2. o \in Ops /\ Exists(o) /\ op[o].key = req[r].key
    BY DEF Committed
  <2>3. CASE ~SameTarget(r, o)
    BY <2>1, <2>3, RequestEnds
  <2>4. CASE SameTarget(r, o)
    <3>1. req' = [req EXCEPT ![r].pc = "commit", ![r].answer = o]
      BY <2>1, <2>4
    <3>2. req'[r].answer = o /\ \A q \in Requests \ {r} : req'[q] = req[q]
      BY <1>1, <3>1 DEF RequestType
    <3>3. op' = op /\ lastOp' = lastOp
      BY <2>1 DEF opVars
    <3>4. Apart'
      BY <1>1, <2>2, <3>2, <3>3, NoNewDraft DEF Drafts, Exists
    <3>5. o <= lastOp
      BY <2>2 DEF IInv, OpInv
    <3>6. o <= lastOp' /\ lastOp' \in 0..MaxOps /\ lastOp <= lastOp'
      BY <1>1, <3>3, <3>5, SizeAssumption
    <3> QED
      BY <1>3, <2>2, <2>4, <3>1, <3>4, <3>6
  <2> QED
    BY <2>3, <2>4
<1> QED
  BY <1>4, <1>5

-----------------------------------------------------------------------------
(* Steps that write the tables *)

(* The items a request is about to store, and the funds they are for. *)
LEMMA NewItemsRows ==
    ASSUME IInv, NEW r \in Requests, req[r].pc = "commit"
    PROVE  /\ NewItems(r) \in Items
           /\ Rows(NewItems(r)) = IF req[r].parent = None THEN Wanted(req[r].preview)
                                  ELSE req[r].failed
<1>1. RequestInv(r) /\ req[r] \in RequestType /\ preview \in [Previews -> Scoped \cup {None}]
  BY DEF IInv, TypeInv, TableType
<1>2. CASE req[r].parent = None
  <2>1. preview[req[r].preview].members \in Resolution
    BY <1>1, <1>2 DEF RequestInv, Scoped
  <2> QED
    BY <1>2, <2>1, SubmitRows DEF NewItems
<1>3. CASE req[r].parent # None
  <2>1. req[r].failed \subseteq Funds
    BY <1>1 DEF RequestType
  <2> QED
    BY <1>3, <2>1, RetryRows DEF NewItems
<1> QED
  BY <1>2, <1>3

(* A job that was found without items is one whose scope is empty. *)
LEMMA EmptyScope ==
    ASSUME IInv, NEW r \in Requests, req[r].pc = "commit",
           Exists(req[r].answer), items[req[r].answer] = NoItems
    PROVE  NewItems(r) = NoItems
<1> DEFINE o == req[r].answer
<1>1. RequestInv(r) /\ o \in Ops /\ Made(o) /\ SameTarget(r, o) /\ op[o].key = req[r].key
  BY DEF IInv, RequestInv, OpInv
<1>2. Rows(items[o]) = {}
  BY DEF Rows, NoItems
<1>3. CASE req[r].parent = None
  <2>1. op[o].preview = req[r].preview /\ op[o].parent = None
    BY <1>1, <1>3 DEF SameTarget, RequestInv, Made
  <2>2. Rows(NewItems(r)) = {}
    BY <1>1, <1>2, <1>3, <2>1, NewItemsRows DEF Made
  <2> QED
    BY <2>2, NewItemsRows, NoRows
<1>4. CASE req[r].parent # None
  BY <1>1, <1>2, <1>4 DEF SameTarget, Made
<1> QED
  BY <1>3, <1>4

LEMMA NewOpType ==
    ASSUME IInv, NEW r \in Requests, req[r].pc = "commit"
    PROVE  /\ NewOp(r) \in Op
           /\ NewOp(r).key = req[r].key
           /\ NewOp(r).parent = req[r].parent
           /\ req[r].parent = None => NewOp(r).preview = req[r].preview
           /\ NewOp(r).cancel = FALSE
           /\ Exact(NewOp(r), NewItems(r))
<1>1. /\ RequestInv(r) /\ req[r] \in RequestType
      /\ op \in [Ops -> Op \cup {None}]
  BY DEF IInv, TypeInv, TableType
<1> DEFINE p == IF req[r].parent = None THEN req[r].preview ELSE op[req[r].parent].preview
<1>2. req[r].key \in Keys
  BY <1>1 DEF RequestInv
<1>3. p \in Previews
  BY <1>1 DEF RequestInv, RequestType, Ended, Exists, Op
<1>4. NumSettled(NewItems(r)) \in Nat /\ Counts(NewItems(r)) \in [Settled -> Nat]
  BY CountsType
<1>5. req[r].parent \in Ops \cup {None}
  BY <1>1 DEF RequestType
<1> HIDE DEF p
<1>6. NewOp(r) = [key |-> req[r].key, preview |-> p, parent |-> req[r].parent,
                  status |-> "RUNNING", cancel |-> FALSE,
                  progress |-> NumSettled(NewItems(r)), counts |-> Counts(NewItems(r))]
  BY DEF NewOp, p
<1>7. NewOp(r) \in Op
  BY <1>2, <1>3, <1>4, <1>5, <1>6 DEF Op
<1> QED
  BY <1>6, <1>7 DEF Exact, p

(* A step that writes one operation. *)
LEMMA OneWritten ==
    ASSUME IInv, TypeInv', Grows, NEW o \in Ops, OpInv(o)',
           \A i \in Ops \ {o} : /\ op'[i] = op[i] /\ items'[i] = items[i]
                                /\ submitted'[i] = submitted[i]
    PROVE  \A i \in Ops : OpInv(i)'
<1>1. TypeInv
  BY DEF IInv
<1> QED
  BY <1>1, OpKept DEF IInv

LEMMA CommitRequestKeeps ==
    ASSUME IInv, NEW r \in Requests, CommitRequest(r), NEW o \in Ops, req[r].answer = o
    PROVE  IInv'
<1> USE DEF workVars
<1>1. /\ TypeInv /\ TableType /\ Apart /\ RequestInv(r) /\ req[r] \in RequestType
      /\ req \in [Requests -> RequestType]
  BY DEF IInv, TypeInv
<1>2. req[r].pc = "commit" /\ End(r) /\ OpInv(o)
  BY <1>1 DEF CommitRequest, IInv, RequestInv
<1>3. /\ req' \in [Requests -> RequestType]
      /\ req'[r] = NoRequest
      /\ \A q \in Requests \ {r} : req'[q] = req[q]
  BY <1>1, <1>2, IdleType DEF End
<1>4. RequestInv(r)' /\ ~Drafts(r)'
  BY <1>3, Idle
<1>5. CASE items[o] # NoItems
  <2>1. UNCHANGED <<catalogue, preview, opVars, workVars>>
    BY <1>5 DEF CommitRequest, opVars
  <2> QED
    BY <1>2, <2>1, RequestEnds
<1>6. CASE items[o] = NoItems /\ Exists(o)
  <2>1. NewItems(r) = NoItems
    BY <1>2, <1>6, EmptyScope
  <2>2. /\ UNCHANGED <<catalogue, preview, attempts, lastOp, tx, locked>>
        /\ op' = op
        /\ items' = [items EXCEPT ![o] = NoItems]
        /\ submitted' = [submitted EXCEPT ![o] = @ + 1]
    BY <1>6, <2>1 DEF CommitRequest
  <2>3. items' = items
    BY <1>1, <1>6, <2>2 DEF TableType
  <2>4. /\ submitted' \in [Ops -> Nat]
        /\ submitted'[o] > 0
        /\ \A i \in Ops \ {o} : submitted'[i] = submitted[i]
    BY <1>1, <1>2, <2>2 DEF TableType
  <2>5. TypeInv'
    BY <1>1, <1>3, <2>2, <2>3, <2>4 DEF TypeInv, TableType
  <2>6. Grows
    BY <1>1, <2>2, <2>3, SizeAssumption DEF Grows, Exists, Ended, TableType
  <2>7. OpInv(o)'
    <3>1. Made(o) /\ Exact(op[o], items[o]) /\ o <= lastOp
      BY <1>2, <1>6 DEF OpInv
    <3>2. Made(o)'
      BY <2>2, <2>3, <3>1 DEF Made, Ended, Exists, Wanted
    <3> QED
      BY <1>6, <2>2, <2>3, <2>4, <3>1, <3>2 DEF OpInv, Exists
  <2>8. \A i \in Ops : OpInv(i)'
    BY <1>2, <2>2, <2>3, <2>4, <2>5, <2>6, <2>7, OneWritten
  <2>9. Apart'
    BY <1>1, <1>3, <1>4, <2>2, NoNewDraft
  <2>10. \A q \in Requests : RequestInv(q)'
    BY <1>1, <1>3, <1>4, <2>2, <2>6, RequestKept DEF IInv
  <2>11. \A w \in Workers : WorkInv(w)'
    BY <2>2, <2>3, WorkKept DEF IInv, WorkInv
  <2> QED
    BY <2>5, <2>8, <2>9, <2>10, <2>11 DEF IInv
<1>7. CASE ~Exists(o)
  <2>1. items[o] = NoItems /\ submitted[o] = 0
    BY <1>1, <1>2, <1>7 DEF OpInv, TableType
  <2>2. /\ UNCHANGED <<catalogue, preview, attempts, lastOp, tx, locked>>
        /\ op' = [op EXCEPT ![o] = NewOp(r)]
        /\ items' = [items EXCEPT ![o] = NewItems(r)]
        /\ submitted' = [submitted EXCEPT ![o] = @ + 1]
    BY <1>7, <2>1 DEF CommitRequest
  <2>3. /\ op' \in [Ops -> Op \cup {None}] /\ items' \in [Ops -> Items]
        /\ submitted' \in [Ops -> Nat]
        /\ op'[o] = NewOp(r) /\ items'[o] = NewItems(r) /\ submitted'[o] = 1
        /\ \A i \in Ops \ {o} : /\ op'[i] = op[i] /\ items'[i] = items[i]
                                /\ submitted'[i] = submitted[i]
    <3>1. NewOp(r) \in Op /\ NewItems(r) \in Items
      BY <1>2, NewOpType, NewItemsRows
    <3>2. submitted[o] + 1 = 1
      BY <2>1
    <3> QED
      BY <1>1, <2>2, <3>1, <3>2 DEF TableType
  <2>4. op'[o] # None
    BY <1>2, <2>3, NewOpType, RowAssumption
  <2>5. TypeInv'
    BY <1>1, <1>3, <2>2, <2>3 DEF TypeInv, TableType
  <2>6. Grows
    BY <1>1, <1>7, <2>2, <2>3, SizeAssumption DEF Grows, Exists, Ended, TableType
  <2>7. OpInv(o)'
    <3>1. /\ op'[o].key = req[r].key /\ op'[o].parent = req[r].parent
          /\ req[r].parent = None => op'[o].preview = req[r].preview
      BY <1>2, <2>3, NewOpType
    <3>2. Exact(op'[o], items'[o])
      BY <1>2, <2>3, NewOpType
    <3>3. Rows(items'[o]) = IF req[r].parent = None THEN Wanted(req[r].preview)
                            ELSE req[r].failed
      BY <1>2, <2>3, NewItemsRows
    <3>4. Made(o)'
      <4>1. CASE req[r].parent = None
        <5> PICK p \in Previews : p = req[r].preview
          BY <1>1, <1>2, <4>1 DEF RequestInv
        <5>1. Wanted(p)' = Wanted(p) /\ op'[o].preview = p
          BY <2>2, <3>1, <4>1 DEF Wanted
        <5>2. op'[o].key \in SubmitKeys /\ preview'[op'[o].preview] # None
          BY <1>1, <1>2, <2>2, <3>1, <4>1 DEF RequestInv
        <5>3. Rows(items'[o]) = Wanted(p)'
          BY <3>3, <4>1, <5>1
        <5> QED
          BY <3>1, <4>1, <5>1, <5>2, <5>3 DEF Made
      <4>2. CASE req[r].parent # None
        <5> PICK p \in Ops : p = req[r].parent
          BY <1>1, <4>2 DEF RequestType
        <5>1. /\ Ended(p) /\ req[r].failed = With(items[p], "FAILED")
              /\ req[r].failed # {} /\ op'[o].key \notin SubmitKeys /\ p \in Ops
          BY <1>1, <3>1, <4>2, KeyAssumption DEF RequestInv, RequestType
        <5>2. Ended(p)' /\ items'[p] = items[p]
          BY <2>6, <5>1 DEF Grows, Ended
        <5> QED
          BY <3>1, <3>3, <4>2, <5>1, <5>2 DEF Made
      <4> QED
        BY <4>1, <4>2
    <3>5. o <= lastOp'
      BY <1>1, <1>2, <2>2 DEF RequestInv
    <3> QED
      BY <2>3, <2>4, <3>2, <3>4, <3>5 DEF OpInv, Exists
  <2>8. \A i \in Ops : OpInv(i)'
    BY <1>2, <2>3, <2>5, <2>6, <2>7, OneWritten
  <2>9. \A q \in Requests \ {r} : Drafts(q) => req[q].answer # o
    BY <1>2, <1>7 DEF IInv, Apart, Drafts
  <2>10. \A q \in Requests \ {r} : Drafts(q)' => Drafts(q)
    BY <1>3, <1>7, <2>3 DEF Drafts, Exists, IInv, RequestInv
  <2>11. Apart'
    BY <1>1, <1>3, <1>4, <2>10 DEF Apart
  <2>12. \A q \in Requests \ {r} : Drafts(q) => op'[req[q].answer] = op[req[q].answer]
    BY <2>3, <2>9 DEF Drafts, IInv, RequestInv
  <2>13. \A q \in Requests : RequestInv(q)'
    BY <1>1, <1>3, <1>4, <2>2, <2>6, <2>12, RequestKept DEF IInv
  <2>14. \A w \in Workers : WorkInv(w)'
    <3> SUFFICES ASSUME NEW w \in Workers
                 PROVE  WorkInv(w)'
      OBVIOUS
    <3>1. tx[w] # None => tx[w].op # o /\ tx[w].op \in Ops
      BY <1>7 DEF IInv, WorkInv, TypeInv, TxType
    <3> QED
      BY <2>2, <2>3, <3>1, WorkKept DEF IInv, WorkInv
  <2> QED
    BY <2>5, <2>8, <2>11, <2>13, <2>14 DEF IInv
<1> QED
  BY <1>5, <1>6, <1>7

LEMMA CancelKeeps ==
    ASSUME IInv, NEW o \in Ops, Cancel(o)
    PROVE  IInv'
<1>1. TypeInv /\ TableType /\ Apart /\ OpInv(o) /\ Exists(o) /\ op[o].status = "RUNNING"
  BY DEF IInv, TypeInv, Cancel
<1>2. UNCHANGED <<catalogue, preview, items, attempts, submitted, lastOp, req, tx, locked>>
  BY DEF Cancel, workVars
<1>3. /\ op' = [op EXCEPT ![o].cancel = TRUE]
      /\ op[o] \in Op
  BY <1>1 DEF Cancel, TableType, Exists
<1>4. /\ op'[o] \in Op
      /\ op'[o].key = op[o].key /\ op'[o].preview = op[o].preview
      /\ op'[o].parent = op[o].parent /\ op'[o].status = op[o].status
      /\ op'[o].progress = op[o].progress /\ op'[o].counts = op[o].counts
  BY <1>1, <1>3 DEF Op, TableType
<1>5. op' \in [Ops -> Op \cup {None}] /\ \A i \in Ops \ {o} : op'[i] = op[i]
  BY <1>1, <1>3, <1>4 DEF TableType
<1>6. op'[o] # None
  BY <1>4, RowAssumption
<1>7. TypeInv'
  BY <1>1, <1>2, <1>5 DEF TypeInv, TableType
<1>8. Grows
  BY <1>1, <1>2, <1>4, <1>5, <1>6, SizeAssumption DEF Grows, Exists, Ended, TableType
<1>9. OpInv(o)'
  <2>1. Made(o) /\ Exact(op[o], items[o]) /\ o <= lastOp /\ submitted[o] > 0
    BY <1>1 DEF OpInv
  <2>2. op[o].parent # None => Ended(op[o].parent)' /\ op[o].parent \in Ops
    BY <1>3, <1>8, <2>1 DEF Made, Grows, Ended, Op
  <2>3. Made(o)'
    BY <1>2, <1>4, <2>1, <2>2 DEF Made, Wanted
  <2>4. Exact(op'[o], items'[o])
    BY <1>1, <1>2, <1>4, <2>1 DEF Exact
  <2> QED
    BY <1>1, <1>2, <1>6, <2>1, <2>3, <2>4 DEF OpInv, Exists
<1>10. \A i \in Ops : OpInv(i)'
  BY <1>2, <1>5, <1>7, <1>8, <1>9, OneWritten
<1>11. \A q \in Requests : Drafts(q)' <=> Drafts(q)
  BY <1>1, <1>2, <1>5, <1>6 DEF Drafts, Exists, IInv, RequestInv
<1>12. Apart'
  BY <1>1, <1>2, <1>11 DEF Apart
<1>13. \A q \in Requests : RequestInv(q)'
  <2>1. \A q \in Requests : Drafts(q) => op'[req[q].answer] = op[req[q].answer]
    BY <1>1, <1>5 DEF Drafts, IInv, RequestInv
  <2> QED
    BY <1>1, <1>2, <1>8, <2>1, RequestKept DEF IInv
<1>14. \A w \in Workers : WorkInv(w)'
  <2> SUFFICES ASSUME NEW w \in Workers
               PROVE  WorkInv(w)'
    OBVIOUS
  <2>1. tx[w] # None => tx[w].op # o /\ tx[w].op \in Ops
    BY DEF Cancel, IInv, WorkInv, TypeInv, TxType
  <2> QED
    BY <1>2, <1>5, <2>1, WorkKept DEF IInv, WorkInv
<1> QED
  BY <1>7, <1>10, <1>12, <1>13, <1>14 DEF IInv

-----------------------------------------------------------------------------
(* The worker *)

(* A step that changes the workers' transactions only. *)
LEMMA OnlyWork ==
    ASSUME IInv, UNCHANGED <<catalogue, preview, op, items, attempts, submitted, lastOp, req>>,
           tx' \in [Workers -> TxType \cup {None}], locked' \in [Workers -> SUBSET Ops],
           \A w \in Workers : WorkInv(w)'
    PROVE  IInv'
<1>1. TypeInv /\ TypeInv' /\ Apart
  BY DEF IInv, TypeInv, TableType
<1>2. Grows
  BY SizeAssumption DEF IInv, TypeInv, TableType, Grows, Exists, Ended
<1>3. \A o \in Ops : OpInv(o)'
  BY <1>1, <1>2, OpKept DEF IInv
<1>4. \A q \in Requests : RequestInv(q)'
  BY <1>1, <1>2, RequestKept DEF IInv
<1>5. Apart'
  BY <1>1, NoNewDraft
<1> QED
  BY <1>1, <1>3, <1>4, <1>5 DEF IInv

LEMMA ClaimKeeps ==
    ASSUME IInv, NEW w \in Workers, Claim(w)
    PROVE  IInv'
<1>1. TypeInv /\ TableType
  BY DEF IInv, TypeInv
<1>2. UNCHANGED <<catalogue, preview, op, items, attempts, submitted, lastOp, req>>
  BY DEF Claim, opVars
<1>3. PICK o \in Claimable :
        tx' = [tx EXCEPT ![w] = [op |-> o, row |-> op[o], items |-> items[o],
                                 attempts |-> attempts[o], ran |-> FALSE]]
  BY DEF Claim
<1> DEFINE t == [op |-> o, row |-> op[o], items |-> items[o],
                 attempts |-> attempts[o], ran |-> FALSE]
<1>4. /\ o \in Ops /\ Exists(o) /\ op[o].status = "RUNNING"
      /\ \A v \in Workers : o \notin locked[v]
  BY DEF Claimable
<1>5. op[o] \in Op /\ OpInv(o)
  BY <1>1, <1>4 DEF TableType, Exists, IInv
<1>6. t \in TxType
  BY <1>1, <1>4, <1>5 DEF TxType, TableType
<1>7. /\ t.op = o /\ t.row = op[o] /\ t.items = items[o] /\ t.attempts = attempts[o]
  OBVIOUS
<1>8. tx' = [tx EXCEPT ![w] = t]
  BY <1>3
<1> HIDE DEF t
<1>9. /\ tx' \in [Workers -> TxType \cup {None}]
      /\ tx'[w] = t
      /\ \A v \in Workers \ {w} : tx'[v] = tx[v]
  BY <1>1, <1>6, <1>8 DEF TypeInv
<1>10. /\ locked' \in [Workers -> SUBSET Ops]
       /\ locked'[w] = Claimable
       /\ \A v \in Workers \ {w} : locked'[v] = locked[v]
  BY <1>1 DEF Claim, TypeInv, Claimable
<1>11. ASSUME NEW v \in Workers \ {w}
       PROVE  WorkInv(v)'
  <2>1. tx[v] # None => tx[v].op \in locked[v] /\ \A u \in Workers \ {v} : tx[v].op \notin locked[u]
    BY DEF IInv, WorkInv
  <2>2. tx[v] # None => tx[v].op \notin Claimable
    BY <2>1 DEF Claimable
  <2>3. tx[v] # None => \A u \in Workers \ {v} : tx[v].op \notin locked'[u]
    BY <1>10, <2>1, <2>2
  <2> QED
    BY <1>2, <1>9, <1>10, <2>3, WorkKept DEF IInv
<1>12. WorkInv(w)'
  <2>1. Exact(op[o], items[o])
    BY <1>4, <1>5 DEF OpInv
  <2>2. Exact(t.row, t.items)
    BY <1>7, <2>1
  <2>3. o \in locked'[w] /\ \A v \in Workers \ {w} : o \notin locked'[v]
    BY <1>4, <1>10
  <2> QED
    BY <1>2, <1>4, <1>7, <1>9, <2>2, <2>3 DEF WorkInv, Exists
<1> QED
  BY <1>2, <1>9, <1>10, <1>11, <1>12, OnlyWork

LEMMA HandleKeeps ==
    ASSUME IInv, NEW w \in Workers, Handle(w)
    PROVE  IInv'
<1>1. TypeInv /\ TableType /\ WorkInv(w) /\ tx[w] # None /\ ~tx[w].ran
  BY DEF IInv, TypeInv, Handle
<1>2. UNCHANGED <<catalogue, preview, op, items, attempts, submitted, lastOp, req, locked>>
  BY DEF Handle, opVars
<1>3. tx[w] \in TxType
  BY <1>1 DEF TypeInv
<1>5. PICK good \in SUBSET ToRun(w) :
        LET list == AfterRun(w, good)
        IN  tx' = [tx EXCEPT ![w] =
              [op |-> tx[w].op, ran |-> TRUE, items |-> list,
               attempts |-> [f \in Funds |-> IF f \in ToRun(w) THEN tx[w].attempts[f] + 1
                                             ELSE tx[w].attempts[f]],
               row |-> [tx[w].row EXCEPT !.status = Verdict(list, tx[w].row.cancel),
                                         !.progress = NumSettled(list),
                                         !.counts = Counts(list)]]]
  BY DEF Handle
<1>6. PICK list \in Items : list = AfterRun(w, good) /\ Rows(list) = Rows(tx[w].items)
  BY <1>3, RunKeepsRows DEF TxType
<1>7. PICK verdict \in {"RUNNING", "COMPLETED", "FAILED", "CANCELLED"} :
        /\ verdict = Verdict(list, tx[w].row.cancel)
        /\ verdict # "RUNNING" => With(list, "PENDING") = {}
  BY <1>3, VerdictEnds DEF TxType, Op
<1>8. PICK tries \in [Funds -> Nat] :
        /\ tries = [f \in Funds |-> IF f \in ToRun(w) THEN tx[w].attempts[f] + 1
                                    ELSE tx[w].attempts[f]]
        /\ tx[w].row.cancel => tries = tx[w].attempts
  <2> DEFINE tries == [f \in Funds |-> IF f \in ToRun(w) THEN tx[w].attempts[f] + 1
                                       ELSE tx[w].attempts[f]]
  <2>1. tx[w].attempts \in [Funds -> Nat]
    BY <1>3 DEF TxType
  <2>2. tries \in [Funds -> Nat]
    BY <2>1
  <2>3. tx[w].row.cancel => ToRun(w) = {}
    BY DEF ToRun
  <2>4. tx[w].row.cancel => tries = tx[w].attempts
    BY <2>1, <2>3
  <2> QED
    BY <2>2, <2>4
<1>9. NumSettled(list) \in Nat /\ Counts(list) \in [Settled -> Nat]
  BY CountsType
<1>10. PICK row \in Op :
         /\ row = [tx[w].row EXCEPT !.status = verdict, !.progress = NumSettled(list),
                                    !.counts = Counts(list)]
         /\ row.key = tx[w].row.key /\ row.preview = tx[w].row.preview
         /\ row.parent = tx[w].row.parent /\ row.cancel = tx[w].row.cancel
         /\ row.status = verdict /\ row.progress = NumSettled(list)
         /\ row.counts = Counts(list)
  <2> DEFINE row == [tx[w].row EXCEPT !.status = verdict, !.progress = NumSettled(list),
                                      !.counts = Counts(list)]
  <2>1. tx[w].row \in Op
    BY <1>3 DEF TxType
  <2>2. row \in Op
    BY <1>7, <1>9, <2>1 DEF Op
  <2>3. /\ row.key = tx[w].row.key /\ row.preview = tx[w].row.preview
        /\ row.parent = tx[w].row.parent /\ row.cancel = tx[w].row.cancel
        /\ row.status = verdict /\ row.progress = NumSettled(list)
        /\ row.counts = Counts(list)
    BY <2>1 DEF Op
  <2> QED
    BY <2>2, <2>3
<1>11. PICK t \in TxType :
         /\ tx' = [tx EXCEPT ![w] = t]
         /\ t.op = tx[w].op /\ t.ran = TRUE /\ t.items = list
         /\ t.attempts = tries /\ t.row = row
  <2> DEFINE t == [op |-> tx[w].op, ran |-> TRUE, items |-> list, attempts |-> tries,
                   row |-> row]
  <2>1. tx' = [tx EXCEPT ![w] = t]
    BY <1>5, <1>6, <1>7, <1>8, <1>10
  <2>2. t \in TxType
    BY <1>3 DEF TxType
  <2> QED
    BY <2>1, <2>2
<1>12. /\ tx' \in [Workers -> TxType \cup {None}]
       /\ tx'[w] = t
       /\ \A v \in Workers \ {w} : tx'[v] = tx[v]
  BY <1>1, <1>11 DEF TypeInv
<1>13. ASSUME NEW v \in Workers \ {w}
       PROVE  WorkInv(v)'
  BY <1>2, <1>12, <1>13, WorkKept DEF IInv, WorkInv
<1>14. WorkInv(w)'
  <2>1. Exact(row, list)
    BY <1>7, <1>10 DEF Exact
  <2>2. tx[w].attempts = attempts[tx[w].op] /\ tx[w].row.cancel = op[tx[w].op].cancel
    BY <1>1 DEF WorkInv
  <2>3. row.cancel => tries = attempts[tx[w].op]
    BY <1>8, <1>10, <2>2
  <2>4. /\ op'[tx[w].op] # None /\ op'[tx[w].op].status = "RUNNING"
        /\ tx[w].op \in locked'[w]
        /\ \A v \in Workers \ {w} : tx[w].op \notin locked'[v]
    BY <1>1, <1>2 DEF WorkInv, Exists
  <2>5. /\ row.key = op'[tx[w].op].key /\ row.preview = op'[tx[w].op].preview
        /\ row.parent = op'[tx[w].op].parent /\ row.cancel = op'[tx[w].op].cancel
        /\ Rows(list) = Rows(items'[tx[w].op])
    BY <1>1, <1>2, <1>6, <1>10 DEF WorkInv
  <2> QED
    BY <1>2, <1>11, <1>12, <2>1, <2>3, <2>4, <2>5 DEF WorkInv, Exists
<1>15. locked' \in [Workers -> SUBSET Ops]
  BY <1>1, <1>2 DEF TypeInv
<1> QED
  BY <1>2, <1>12, <1>13, <1>14, <1>15, OnlyWork

LEMMA RaiseKeeps ==
    ASSUME IInv, NEW w \in Workers, Raise(w)
    PROVE  IInv'
<1>1. TypeInv /\ TableType /\ WorkInv(w) /\ tx[w] # None
  BY DEF IInv, TypeInv, Raise
<1>2. UNCHANGED <<catalogue, preview, op, items, attempts, submitted, lastOp, req, locked>>
  BY DEF Raise, opVars
<1>3. tx[w] \in TxType
  BY <1>1 DEF TypeInv
<1>4. PICK t \in TxType :
        /\ tx' = [tx EXCEPT ![w] = t]
        /\ t.op = tx[w].op /\ t.ran = TRUE /\ t.items = tx[w].items
        /\ t.attempts = tx[w].attempts /\ t.row = tx[w].row
  <2> DEFINE t == [tx[w] EXCEPT !.ran = TRUE]
  <2>1. tx' = [tx EXCEPT ![w] = t]
    BY DEF Raise
  <2>2. t \in TxType
    BY <1>3 DEF TxType
  <2>3. /\ t.op = tx[w].op /\ t.ran = TRUE /\ t.items = tx[w].items
        /\ t.attempts = tx[w].attempts /\ t.row = tx[w].row
    BY <1>3 DEF TxType
  <2> QED
    BY <2>1, <2>2, <2>3
<1>5. /\ tx' \in [Workers -> TxType \cup {None}]
      /\ tx'[w] = t
      /\ \A v \in Workers \ {w} : tx'[v] = tx[v]
  BY <1>1, <1>4 DEF TypeInv
<1>6. ASSUME NEW v \in Workers \ {w}
      PROVE  WorkInv(v)'
  BY <1>2, <1>5, <1>6, WorkKept DEF IInv, WorkInv
<1>7. WorkInv(w)'
  BY <1>1, <1>2, <1>4, <1>5 DEF WorkInv, Exists
<1>8. locked' \in [Workers -> SUBSET Ops]
  BY <1>1, <1>2 DEF TypeInv
<1> QED
  BY <1>2, <1>5, <1>6, <1>7, <1>8, OnlyWork

(* What a worker lets go of when its transaction ends. *)
LEMMA Released ==
    ASSUME TypeInv, NEW w \in Workers, Release(w)
    PROVE  /\ tx' \in [Workers -> TxType \cup {None}] /\ locked' \in [Workers -> SUBSET Ops]
           /\ tx'[w] = None
           /\ \A v \in Workers \ {w} : tx'[v] = tx[v] /\ locked'[v] = locked[v]
           /\ \A v \in Workers : locked'[v] \subseteq locked[v]
           /\ UNCHANGED <<catalogue, preview, submitted, lastOp, req>>
BY DEF Release, TypeInv

LEMMA CrashKeeps ==
    ASSUME IInv, NEW w \in Workers, CrashWork(w)
    PROVE  IInv'
<1>1. TypeInv
  BY DEF IInv
<1>2. /\ tx' \in [Workers -> TxType \cup {None}] /\ locked' \in [Workers -> SUBSET Ops]
      /\ tx'[w] = None
      /\ \A v \in Workers \ {w} : tx'[v] = tx[v] /\ locked'[v] = locked[v]
      /\ \A v \in Workers : locked'[v] \subseteq locked[v]
      /\ UNCHANGED <<catalogue, preview, op, items, attempts, submitted, lastOp, req>>
  BY <1>1, Released DEF CrashWork
<1>3. ASSUME NEW v \in Workers \ {w}
      PROVE  WorkInv(v)'
  <2>1. tx[v] # None => \A u \in Workers \ {v} : tx[v].op \notin locked'[u]
    BY <1>2 DEF IInv, WorkInv
  <2> QED
    BY <1>2, <2>1, WorkKept DEF IInv
<1>4. WorkInv(w)'
  BY <1>2 DEF WorkInv
<1> QED
  BY <1>2, <1>3, <1>4, OnlyWork

LEMMA CommitWorkKeeps ==
    ASSUME IInv, NEW w \in Workers, CommitWork(w)
    PROVE  IInv'
<1>1. TypeInv /\ TableType /\ Apart /\ WorkInv(w) /\ tx[w] # None
  BY DEF IInv, TypeInv, CommitWork
<1>2. tx[w] \in TxType
  BY <1>1 DEF TypeInv
<1>3. PICK o \in Ops : o = tx[w].op
  BY <1>2 DEF TxType
<1>4. /\ tx' \in [Workers -> TxType \cup {None}] /\ locked' \in [Workers -> SUBSET Ops]
      /\ tx'[w] = None
      /\ \A v \in Workers \ {w} : tx'[v] = tx[v] /\ locked'[v] = locked[v]
      /\ \A v \in Workers : locked'[v] \subseteq locked[v]
      /\ UNCHANGED <<catalogue, preview, submitted, lastOp, req>>
  BY <1>1, Released DEF CommitWork
<1>5. tx[w].row \in Op /\ tx[w].items \in Items /\ tx[w].attempts \in [Funds -> Nat]
  BY <1>2 DEF TxType
<1>6. /\ op' = [op EXCEPT ![o] = tx[w].row]
      /\ items' = [items EXCEPT ![o] = tx[w].items]
      /\ attempts' = [attempts EXCEPT ![o] = tx[w].attempts]
  BY <1>3 DEF CommitWork
<1>7. /\ op' \in [Ops -> Op \cup {None}] /\ items' \in [Ops -> Items]
      /\ attempts' \in [Ops -> [Funds -> Nat]]
      /\ op'[o] = tx[w].row /\ items'[o] = tx[w].items
      /\ \A i \in Ops \ {o} : /\ op'[i] = op[i] /\ items'[i] = items[i]
                              /\ attempts'[i] = attempts[i]
  BY <1>1, <1>5, <1>6 DEF TableType
<1>8. op'[o] # None
  BY <1>5, <1>7, RowAssumption
<1>9. /\ Exists(o) /\ op[o].status = "RUNNING" /\ o \in locked[w]
      /\ op'[o].key = op[o].key /\ op'[o].preview = op[o].preview
      /\ op'[o].parent = op[o].parent
      /\ Rows(items'[o]) = Rows(items[o])
      /\ Exact(op'[o], items'[o])
  BY <1>1, <1>3, <1>7 DEF WorkInv
<1>10. TypeInv'
  BY <1>1, <1>4, <1>7 DEF TypeInv, TableType
<1>11. Grows
  BY <1>1, <1>4, <1>7, <1>8, <1>9, SizeAssumption DEF Grows, Exists, Ended, TableType
<1>12. OpInv(o)'
  <2>1. OpInv(o) /\ Made(o) /\ o <= lastOp /\ op[o] \in Op
    BY <1>1, <1>9 DEF IInv, OpInv, TableType, Exists
  <2>2. Made(o)'
    <3> PICK p \in Previews : p = op[o].preview
      BY <2>1 DEF Op
    <3>1. op[o].parent = None => preview'[p] # None /\ Rows(items'[o]) = Wanted(p)
      BY <1>4, <1>9, <2>1 DEF Made
    <3>2. Wanted(p)' = Wanted(p) /\ op'[o].preview = p
      BY <1>4, <1>9 DEF Wanted
    <3>3. op[o].parent # None =>
            /\ Ended(op[o].parent)'
            /\ items'[op[o].parent] = items[op[o].parent]
      BY <1>9, <1>11, <2>1 DEF Made, Grows, Ended, Op
    <3> QED
      BY <1>9, <2>1, <3>1, <3>2, <3>3 DEF Made, With
  <2>3. items[o] = NoItems <=> items'[o] = NoItems
    BY <1>1, <1>7, <1>9, NoRows DEF TableType
  <2> QED
    BY <1>4, <1>8, <1>9, <2>1, <2>2, <2>3 DEF OpInv, Exists
<1>13. \A i \in Ops : OpInv(i)'
  BY <1>4, <1>7, <1>10, <1>11, <1>12, OneWritten
<1>14. \A q \in Requests : Drafts(q) => req[q].answer # o /\ req[q].answer \in Ops
  BY <1>9 DEF Drafts, IInv, RequestInv
<1>15. \A q \in Requests : Drafts(q)' => Drafts(q)
  BY <1>4, <1>7, <1>8 DEF Drafts, Exists, IInv, RequestInv
<1>16. Apart'
  BY <1>1, <1>4, <1>15 DEF Apart
<1>17. \A q \in Requests : RequestInv(q)'
  BY <1>1, <1>4, <1>7, <1>11, <1>14, RequestKept DEF IInv
<1>18. ASSUME NEW v \in Workers
       PROVE  WorkInv(v)'
  <2>1. CASE v = w
    BY <1>4, <2>1 DEF WorkInv
  <2>2. CASE v # w
    <3>1. tx[v] # None => tx[v].op # o /\ tx[v].op \in Ops
      BY <1>1, <1>9, <2>2 DEF IInv, WorkInv, TypeInv, TxType
    <3>2. tx[v] # None => \A u \in Workers \ {v} : tx[v].op \notin locked'[u]
      BY <1>4 DEF IInv, WorkInv
    <3> QED
      BY <1>4, <1>7, <2>2, <3>1, <3>2, WorkKept DEF IInv
  <2> QED
    BY <2>1, <2>2
<1> QED
  BY <1>10, <1>13, <1>16, <1>17, <1>18 DEF IInv

-----------------------------------------------------------------------------
(* The invariant is inductive *)

LEMMA InitIInv == Init => IInv
<1> SUFFICES ASSUME Init
             PROVE  IInv
  OBVIOUS
<1> USE DEF Init
<1>1. NoItems \in Items
  BY DEF NoItems, Items
<1>2. TypeInv
  BY <1>1, SizeAssumption, IdleType DEF TypeInv, TableType
<1>3. \A o \in Ops : OpInv(o)
  BY SizeAssumption DEF OpInv, Exists
<1>4. \A r \in Requests : req[r].pc = "idle" /\ req[r].parent = None
  BY DEF NoRequest
<1>5. \A r \in Requests : RequestInv(r) /\ ~Drafts(r)
  BY <1>4 DEF RequestInv, Freezes, Drafts
<1>6. \A w \in Workers : WorkInv(w)
  BY DEF WorkInv
<1> QED
  BY <1>2, <1>3, <1>5, <1>6 DEF IInv, Apart

LEMMA NextKeeps == IInv /\ [Next]_vars => IInv'
<1> SUFFICES ASSUME IInv, [Next]_vars
             PROVE  IInv'
  OBVIOUS
<1>1. CASE Scope
  BY <1>1, ScopeSteps
<1>2. ASSUME NEW r \in Requests, Request(r)
      PROVE  IInv'
  <2>1. CASE \/ \E k \in SubmitKeys, p \in Previews : LookSubmit(r, k, p)
             \/ \E k \in RetryKeys, o \in Ops : LookRetry(r, k, o)
             \/ Freeze(r)
    BY <1>2, <2>1, Looks
  <2>2. CASE Insert(r)
    BY <1>2, <2>2, InsertKeeps
  <2>3. CASE CommitRequest(r)
    <3>1. PICK o \in Ops : req[r].answer = o
      BY <1>2, <2>3 DEF IInv, RequestInv, CommitRequest
    <3> QED
      BY <1>2, <2>3, <3>1, CommitRequestKeeps
  <2>4. CASE AbortRequest(r)
    BY <1>2, <2>4, RequestEnds DEF AbortRequest
  <2> QED
    BY <1>2, <2>1, <2>2, <2>3, <2>4 DEF Request
<1>3. ASSUME NEW o \in Ops, Cancel(o)
      PROVE  IInv'
  BY <1>3, CancelKeeps
<1>4. ASSUME NEW w \in Workers, Work(w)
      PROVE  IInv'
  BY <1>4, ClaimKeeps, HandleKeeps, RaiseKeeps, CommitWorkKeeps, CrashKeeps DEF Work
<1>5. CASE UNCHANGED vars
  <2>1. UNCHANGED <<catalogue, preview, op, items, attempts, submitted, lastOp, req, tx, locked>>
    BY <1>5 DEF vars
  <2>2. \A w \in Workers : WorkInv(w)'
    BY <2>1, WorkKept DEF IInv, WorkInv
  <2> QED
    BY <2>1, <2>2, OnlyWork DEF IInv, TypeInv
<1> QED
  BY <1>1, <1>2, <1>3, <1>4, <1>5 DEF Next

LEMMA Inductive == Spec => []IInv
<1>1. Init => IInv
  BY InitIInv
<1>2. IInv /\ [Next]_vars => IInv'
  BY NextKeeps
<1> QED
  BY <1>1, <1>2, PTL DEF Spec

(* What is committed, and what a worker is about to commit, has tried each  *)
(* item as often as its status says.                                        *)
TriedInv ==
  /\ \A o \in Ops : TriedOnce(attempts[o], items[o])
  /\ \A w \in Workers : tx[w] # None => TriedOnce(tx[w].attempts, tx[w].items)

LEMMA HandleTries ==
    ASSUME IInv, TriedInv, NEW w \in Workers, Handle(w)
    PROVE  TriedInv'
<1>1. PICK good \in SUBSET ToRun(w) :
        LET list == AfterRun(w, good)
        IN  tx' = [tx EXCEPT ![w] =
              [op |-> tx[w].op, ran |-> TRUE, items |-> list,
               attempts |-> [f \in Funds |-> IF f \in ToRun(w) THEN tx[w].attempts[f] + 1
                                             ELSE tx[w].attempts[f]],
               row |-> [tx[w].row EXCEPT !.status = Verdict(list, tx[w].row.cancel),
                                         !.progress = NumSettled(list),
                                         !.counts = Counts(list)]]]
  BY DEF Handle
<1>2. UNCHANGED <<items, attempts>> /\ tx[w] # None /\ TriedOnce(tx[w].attempts, tx[w].items)
  BY DEF Handle, opVars, TriedInv
<1> DEFINE tries == [f \in Funds |-> IF f \in ToRun(w) THEN tx[w].attempts[f] + 1
                                     ELSE tx[w].attempts[f]]
<1>3. TriedOnce(tries, AfterRun(w, good))
  <2> SUFFICES ASSUME NEW f \in Funds
               PROVE  tries[f] = IF AfterRun(w, good)[f] \in {"SUCCESS", "FAILED"} THEN 1 ELSE 0
    BY DEF TriedOnce
  <2>1. tx[w].attempts[f] = IF tx[w].items[f] \in {"SUCCESS", "FAILED"} THEN 1 ELSE 0
    BY <1>2 DEF TriedOnce
  <2>2. CASE f \in ToRun(w)
    <3>1. tx[w].items[f] = "PENDING"
      BY <2>2 DEF ToRun, With
    <3>2. AfterRun(w, good)[f] \in {"SUCCESS", "FAILED"}
      BY <2>2 DEF AfterRun
    <3> QED
      BY <2>1, <2>2, <3>1, <3>2
  <2>3. CASE f \notin ToRun(w)
    <3>1. \/ AfterRun(w, good)[f] = tx[w].items[f]
          \/ AfterRun(w, good)[f] = "CANCELLED" /\ tx[w].items[f] = "PENDING"
      BY <2>3 DEF AfterRun
    <3> QED
      BY <2>1, <2>3, <3>1
  <2> QED
    BY <2>2, <2>3
<1> HIDE DEF tries
<1>4. /\ tx'[w].attempts = tries /\ tx'[w].items = AfterRun(w, good)
      /\ \A v \in Workers \ {w} : tx'[v] = tx[v]
  BY <1>1 DEF IInv, TypeInv, tries
<1> QED
  BY <1>2, <1>3, <1>4 DEF TriedInv

LEMMA TriesKept == IInv /\ TriedInv /\ [Next]_vars => TriedInv'
<1> SUFFICES ASSUME IInv, TriedInv, [Next]_vars
             PROVE  TriedInv'
  OBVIOUS
<1>1. /\ tx \in [Workers -> TxType \cup {None}]
      /\ items \in [Ops -> Items] /\ attempts \in [Ops -> [Funds -> Nat]]
  BY DEF IInv, TypeInv, TableType
<1>2. CASE UNCHANGED <<items, attempts, tx>>
  BY <1>2 DEF TriedInv
<1>3. ASSUME NEW r \in Requests, CommitRequest(r)
      PROVE  TriedInv'
  <2>1. req[r].answer \in Ops /\ UNCHANGED <<attempts, tx>>
    BY <1>3 DEF CommitRequest, workVars, IInv, RequestInv
  <2>2. CASE items[req[r].answer] = NoItems
    <3>1. items' = [items EXCEPT ![req[r].answer] = NewItems(r)]
      BY <1>3, <2>2 DEF CommitRequest
    <3>2. \A f \in Funds : NewItems(r)[f] \notin {"SUCCESS", "FAILED"}
      BY DEF NewItems, SubmitItems, RetryItems
    <3>3. TriedOnce(attempts[req[r].answer], NoItems)
      BY <2>1, <2>2 DEF TriedInv
    <3>4. TriedOnce(attempts[req[r].answer], NewItems(r))
      BY <3>2, <3>3 DEF TriedOnce, NoItems
    <3> QED
      BY <1>1, <2>1, <3>1, <3>4 DEF TriedInv
  <2>3. CASE items[req[r].answer] # NoItems
    BY <1>3, <2>1, <2>3 DEF CommitRequest, TriedInv
  <2> QED
    BY <2>2, <2>3
<1>4. ASSUME NEW w \in Workers, Work(w)
      PROVE  TriedInv'
  <2>1. CASE Claim(w)
    <3>1. PICK o \in Ops :
            tx' = [tx EXCEPT ![w] = [op |-> o, row |-> op[o], items |-> items[o],
                                     attempts |-> attempts[o], ran |-> FALSE]]
      BY <2>1 DEF Claim, Claimable
    <3>2. tx'[w].items = items[o] /\ tx'[w].attempts = attempts[o]
      BY <1>1, <3>1
    <3> QED
      BY <1>1, <2>1, <3>1, <3>2 DEF Claim, opVars, TriedInv
  <2>2. CASE Raise(w)
    <3>1. tx[w] \in TxType /\ tx' = [tx EXCEPT ![w].ran = TRUE] /\ UNCHANGED <<items, attempts>>
      BY <1>1, <2>2 DEF Raise, opVars
    <3>2. tx'[w].items = tx[w].items /\ tx'[w].attempts = tx[w].attempts /\ tx[w] # None
      BY <1>1, <2>2, <3>1 DEF Raise, TxType
    <3> QED
      BY <1>1, <3>1, <3>2 DEF TriedInv
  <2>3. CASE CommitWork(w)
    <3>1. tx[w] \in TxType /\ tx[w] # None /\ TriedOnce(tx[w].attempts, tx[w].items)
      BY <1>1, <2>3 DEF CommitWork, TriedInv
    <3> QED
      BY <1>1, <2>3, <3>1 DEF CommitWork, Release, TriedInv
  <2>4. CASE CrashWork(w)
    BY <1>1, <2>4 DEF CrashWork, Release, TriedInv
  <2> QED
    BY <1>4, <2>1, <2>2, <2>3, <2>4, HandleTries DEF Work
<1>5. CASE Scope
  BY <1>2, <1>5 DEF Scope, Remap, Preview, Expire, opVars, workVars
<1>6. ASSUME NEW r \in Requests, Request(r)
      PROVE  TriedInv'
  <2>1. CASE CommitRequest(r)
    BY <1>3, <2>1
  <2>2. CASE ~CommitRequest(r)
    BY <1>2, <1>6, <2>2
       DEF Request, LookSubmit, LookRetry, Freeze, Insert, AbortRequest, opVars, workVars
  <2> QED
    BY <2>1, <2>2
<1>7. ASSUME NEW o \in Ops, Cancel(o)
      PROVE  TriedInv'
  BY <1>2, <1>7 DEF Cancel, workVars
<1>8. CASE UNCHANGED vars
  BY <1>2, <1>8 DEF vars
<1> QED
  BY <1>4, <1>5, <1>6, <1>7, <1>8 DEF Next

-----------------------------------------------------------------------------
(* The theorems                                                            *)

\* Progress and counts are what the items add up to, no item runs again after it
\* settled, and an operation that ended leaves none pending, through cancellation,
\* exceptions and crashes.
THEOREM ProgressAlwaysExact == Spec => []ProgressIsExact
<1>1. IInv /\ TriedInv => ProgressIsExact
  BY DEF IInv, OpInv, Exact, TriedInv, ProgressIsExact
<1>2. Init => TriedInv
  BY DEF Init, TriedInv, TriedOnce, NoItems
<1> QED
  BY <1>1, <1>2, Inductive, TriesKept, PTL DEF Spec

\* A retry owns exactly the items its parent failed, for as long as both exist.
THEOREM RetriesCoverFailures == Spec => []RetryCoversFailures
<1>1. IInv => RetryCoversFailures
  BY DEF IInv, OpInv, Made, Rows, RetryCoversFailures
<1> QED
  BY <1>1, Inductive, PTL

\* An operation, its items and its audit row are committed together and once.
THEOREM SubmissionsAreWhole == Spec => []SubmittedWhole
<1>1. IInv => SubmittedWhole
  BY DEF IInv, OpInv, SubmittedWhole
<1> QED
  BY <1>1, Inductive, PTL

\* Who loses a race for a key answers with a job made for the same target.
THEOREM AnswersAlwaysMatch == Spec => []AnswersMatch
<1>1. IInv => AnswersMatch
  BY DEF IInv, RequestInv, AnswersMatch
<1> QED
  BY <1>1, Inductive, PTL

\* Once its cancellation is recorded, no item of an operation is run: a worker's
\* copy knows of it, because the row lock keeps the request out while it has one.
THEOREM NothingRunsCancelled == Spec => NothingRunsAfterCancel
<1>1. IInv /\ [Next]_vars =>
        [\A o \in Ops : Exists(o) /\ op[o].cancel => attempts'[o] = attempts[o]]_vars
  <2> SUFFICES ASSUME IInv, Next, NEW o \in Ops, Exists(o), op[o].cancel
               PROVE  attempts'[o] = attempts[o]
    BY DEF vars
  <2>1. ASSUME NEW w \in Workers, CommitWork(w)
        PROVE  attempts'[o] = attempts[o]
    <3>1. /\ WorkInv(w) /\ tx[w] # None
          /\ attempts' = [attempts EXCEPT ![tx[w].op] = tx[w].attempts]
          /\ attempts \in [Ops -> [Funds -> Nat]]
      BY <2>1 DEF CommitWork, IInv, TypeInv, TableType
    <3>2. CASE tx[w].op = o
      <4>1. tx[w].row.cancel = op[o].cancel
        BY <3>1, <3>2 DEF WorkInv
      <4>2. tx[w].attempts = attempts[o]
        BY <3>1, <3>2, <4>1 DEF WorkInv
      <4> QED
        BY <3>1, <3>2, <4>2
    <3>3. CASE tx[w].op # o
      BY <3>1, <3>3
    <3> QED
      BY <3>2, <3>3
  <2>2. CASE UNCHANGED attempts
    BY <2>2
  <2> QED
    BY <2>1, <2>2 DEF Next, Scope, Remap, Preview, Expire, Request, LookSubmit, LookRetry,
       Freeze, Insert, CommitRequest, AbortRequest, Cancel, Work, Claim, Handle, Raise,
       CrashWork, opVars
<1> QED
  BY <1>1, Inductive, PTL DEF Spec, NothingRunsAfterCancel

\* A submitted operation has the items of its preview, which the catalogue still
\* resolves to when it is committed: its SHARE locks keep every edit out.
THEOREM ScopesAreFrozen == Spec => FrozenScope
<1>1. IInv /\ [Next]_vars =>
        [\A o \in Ops :
           ~Exists(o) /\ op'[o] # None /\ op'[o].parent = None =>
             /\ preview[op'[o].preview].members = catalogue
             /\ items'[o] = SubmitItems(op'[o].preview)]_vars
  <2> SUFFICES ASSUME IInv, Next, NEW o \in Ops,
                      ~Exists(o), op'[o] # None, op'[o].parent = None
               PROVE  /\ preview[op'[o].preview].members = catalogue
                      /\ items'[o] = SubmitItems(op'[o].preview)
    BY DEF vars, Exists
  <2>1. op' # op
    BY DEF Exists
  <2>2. op \in [Ops -> Op \cup {None}] /\ items \in [Ops -> Items]
    BY DEF IInv, TypeInv, TableType
  <2>3. ASSUME NEW i \in Ops, Cancel(i)
        PROVE  FALSE
    <3>1. Exists(i) /\ op'[o] = op[o]
      BY <2>2, <2>3 DEF Cancel
    <3> QED
      BY <3>1 DEF Exists
  <2>4. ASSUME NEW w \in Workers, CommitWork(w)
        PROVE  FALSE
    <3>1. Exists(tx[w].op) /\ op' = [op EXCEPT ![tx[w].op] = tx[w].row]
      BY <2>4 DEF CommitWork, IInv, WorkInv
    <3>2. op'[o] = op[o]
      BY <2>2, <3>1
    <3> QED
      BY <3>2 DEF Exists
  <2>5. ASSUME NEW r \in Requests, CommitRequest(r)
        PROVE  /\ preview[op'[o].preview].members = catalogue
               /\ items'[o] = SubmitItems(op'[o].preview)
    <3>1. req[r].pc = "commit" /\ RequestInv(r) /\ req[r].answer \in Ops
      BY <2>5 DEF CommitRequest, IInv, RequestInv
    <3>2. /\ req[r].answer = o
          /\ op' = [op EXCEPT ![o] = NewOp(r)]
          /\ items' = [items EXCEPT ![o] = NewItems(r)]
      BY <2>1, <2>2, <2>5, <3>1 DEF CommitRequest, Exists
    <3>3. op'[o] = NewOp(r) /\ items'[o] = NewItems(r)
      BY <2>2, <3>2
    <3>4. req[r].parent = None /\ op'[o].preview = req[r].preview
      BY <3>1, <3>3, NewOpType
    <3>5. preview[req[r].preview].members = catalogue
      BY <3>1, <3>4 DEF RequestInv, Freezes
    <3>6. NewItems(r) = SubmitItems(req[r].preview)
      BY <3>4 DEF NewItems
    <3> QED
      BY <3>3, <3>4, <3>5, <3>6
  <2> QED
    BY <2>1, <2>3, <2>4, <2>5 DEF Next, Scope, Remap, Preview, Expire, Request, LookSubmit,
       LookRetry, Freeze, Insert, AbortRequest, Work, Claim, Handle, Raise, CrashWork, opVars
<1> QED
  BY <1>1, Inductive, PTL DEF Spec, FrozenScope

=============================================================================
