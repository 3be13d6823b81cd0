------------------------ MODULE FundEvaluation_proofs ------------------------
(***************************************************************************)
(* Proofs about FundEvaluation, for any funds, groups, decisions, callers  *)
(* and data: a fund is evaluated once a day, and what a decision has       *)
(* stored stays, however many transactions interleave; and for any         *)
(* profile, weights and thresholds a better fund is not ranked worse.      *)
(***************************************************************************)
EXTENDS FundEvaluation, FiniteSetTheorems, TLAPS

-----------------------------------------------------------------------------
(* The invariant                                                           *)

Steps == {"idle", "insert", "factors", "scores", "commit"}
Valued(c) == pc[c] \in {"scores", "commit"}

(* The rows of one group are those of one record; see Rows.                *)
IsRow(r) == r = Rows(r.members, r.inputs, r.evidence, r.expense, r.ranks, r.tiers)

Shape ==
  /\ stored = [d \in Decisions |-> [g \in Groups |-> stored[d][g]]]
  /\ pc \in [Callers -> Steps]
  /\ task = [c \in Callers |-> task[c]]
  /\ draft = [c \in Callers |-> draft[c]]
  /\ \A d \in Decisions, g \in Groups : stored[d][g] # None => IsRow(stored[d][g])

(* What a transaction has of a group is what its decision had stored of    *)
(* it, if it had anything.                                                 *)
Agrees(c, g) ==
  LET r == stored[task[c]][g]
      x == draft[c][g]
  IN /\ pc[c] = "insert" /\ ~x.new => r # None /\ x.members = r.members
     /\ pc[c] = "commit" => IsRow(x)
     /\ r # None =>
          /\ Inserted(c) => x.members = r.members
          /\ Valued(c) => x.inputs = r.inputs /\ x.evidence = r.evidence
          /\ pc[c] = "commit" => x = r

Owns(d, g, f) == stored[d][g] # None /\ f \in stored[d][g].members

(* No other run owns a value of a fund that the transaction has evaluated. *)
ValuesOwn(c) ==
  Valued(c) =>
    \A g \in DOMAIN draft[c] : \A f \in draft[c][g].members :
      \A d \in Decisions, h \in Groups : Owns(d, h, f) => d = task[c] /\ h = g

(* The new groups of a transaction have no fund in common.                 *)
FreshApart(c) ==
  \A g, h \in Fresh(c) : g # h => draft[c][g].members \cap draft[c][h].members = {}

CallerInv(c) ==
  pc[c] # "idle" =>
    /\ task[c] \in Decisions /\ DOMAIN draft[c] \subseteq Groups
    /\ \A g \in DOMAIN draft[c] : Agrees(c, g)
    /\ ValuesOwn(c)
    /\ FreshApart(c)

(* The unique keys keep open transactions apart: by group those of one     *)
(* decision, by fund all that have values.                                 *)
KeysApart(b, c) ==
  Inserted(b) /\ Inserted(c) /\ task[b] = task[c] => Fresh(b) \cap DOMAIN draft[c] = {}

ValuesApart(b, c) ==
  Valued(b) /\ Valued(c) =>
    \A g \in DOMAIN draft[c], h \in Fresh(b) :
      draft[c][g].members \cap draft[b][h].members = {}

PairInv(b, c) == KeysApart(b, c) /\ ValuesApart(b, c)

(* See OneEvaluationPerFund. *)
OneOwner ==
  \A f \in Funds : \A d, e \in Decisions : \A g, h \in Groups :
    Owns(d, g, f) /\ Owns(e, h, f) => d = e /\ g = h

IInv ==
  /\ Shape /\ OneOwner
  /\ \A c \in Callers : CallerInv(c)
  /\ \A b, c \in Callers : b # c => PairInv(b, c)

-----------------------------------------------------------------------------
(* Steps that store nothing *)

LEMMA CallerKept ==
    ASSUME NEW c \in Callers, CallerInv(c), stored' = stored,
           pc'[c] = pc[c], task'[c] = task[c], draft'[c] = draft[c]
    PROVE  CallerInv(c)'
BY DEF CallerInv, Agrees, ValuesOwn, FreshApart, Fresh, Owns, Valued, Inserted

LEMMA PairKept ==
    ASSUME NEW b \in Callers, NEW c \in Callers, PairInv(b, c), stored' = stored,
           pc'[b] = pc[b], task'[b] = task[b], draft'[b] = draft[b],
           pc'[c] = pc[c], task'[c] = task[c], draft'[c] = draft[c]
    PROVE  PairInv(b, c)'
BY DEF PairInv, KeysApart, ValuesApart, Fresh, Valued, Inserted

(* A step of one caller. *)
LEMMA OneCaller ==
    ASSUME IInv, NEW c \in Callers, stored' = stored, Shape',
           \A b \in Callers \ {c} : /\ pc'[b] = pc[b] /\ task'[b] = task[b]
                                    /\ draft'[b] = draft[b],
           CallerInv(c)',
           \A b \in Callers \ {c} : PairInv(b, c)' /\ PairInv(c, b)'
    PROVE  IInv'
<1>1. OneOwner'
  BY DEF IInv, OneOwner, Owns
<1>2. \A b \in Callers : CallerInv(b)'
  BY CallerKept DEF IInv
<1>3. ASSUME NEW a \in Callers, NEW b \in Callers, a # b
      PROVE  PairInv(a, b)'
  <2>1. CASE a = c \/ b = c
    BY <1>3, <2>1
  <2>2. CASE a # c /\ b # c
    BY <1>3, <2>2, PairKept DEF IInv
  <2> QED
    BY <2>1, <2>2
<1> QED
  BY <1>1, <1>2, <1>3 DEF IInv

LEMMA WorldSteps ==
    ASSUME IInv, UNCHANGED <<stored, pc, task, draft>>
    PROVE  IInv'
<1>1. Shape' /\ OneOwner'
  BY DEF IInv, Shape, OneOwner, Owns
<1>2. \A c \in Callers : CallerInv(c)'
  BY CallerKept DEF IInv
<1>3. \A b, c \in Callers : b # c => PairInv(b, c)'
  BY PairKept DEF IInv
<1> QED
  BY <1>1, <1>2, <1>3 DEF IInv

(* What happens to the variables when one caller's are set. *)
LEMMA Assigned ==
    ASSUME Shape, NEW c \in Callers, NEW p \in Steps, NEW t, NEW x,
           pc' = [pc EXCEPT ![c] = p], task' = [task EXCEPT ![c] = t],
           draft' = [draft EXCEPT ![c] = x]
    PROVE  /\ pc' \in [Callers -> Steps]
           /\ task' = [b \in Callers |-> task'[b]]
           /\ draft' = [b \in Callers |-> draft'[b]]
           /\ pc'[c] = p /\ task'[c] = t /\ draft'[c] = x
           /\ \A b \in Callers \ {c} : /\ pc'[b] = pc[b] /\ task'[b] = task[b]
                                       /\ draft'[b] = draft[b]
BY DEF Shape

LEMMA FailKeeps ==
    ASSUME IInv, NEW c \in Callers, Fail(c)
    PROVE  IInv'
<1>1. /\ pc' = [pc EXCEPT ![c] = "idle"] /\ task' = [task EXCEPT ![c] = None]
      /\ draft' = [draft EXCEPT ![c] = <<>>] /\ stored' = stored
      /\ "idle" \in Steps /\ Shape
  BY DEF Fail, Leave, Steps, IInv
<1>2. /\ pc' \in [Callers -> Steps]
      /\ task' = [b \in Callers |-> task'[b]]
      /\ draft' = [b \in Callers |-> draft'[b]]
      /\ pc'[c] = "idle"
      /\ \A b \in Callers \ {c} : /\ pc'[b] = pc[b] /\ task'[b] = task[b]
                                  /\ draft'[b] = draft[b]
  BY <1>1, Assigned
<1>3. Shape'
  BY <1>1, <1>2 DEF Shape
<1>4. CallerInv(c)'
  BY <1>2 DEF CallerInv
<1>5. \A b \in Callers \ {c} : PairInv(b, c)' /\ PairInv(c, b)'
  BY <1>2 DEF PairInv, KeysApart, ValuesApart, Inserted, Valued
<1> QED
  BY <1>1, <1>2, <1>3, <1>4, <1>5, OneCaller

LEMMA BeginKeeps ==
    ASSUME IInv, NEW c \in Callers, NEW d \in Decisions, Begin(c, d)
    PROVE  IInv'
<1> PICK gs \in SUBSET Groups : gs = {g \in Groups : Members(g) # {}}
  OBVIOUS
<1> DEFINE x == [g \in gs |-> [members |-> Snapshot(d, g), new |-> stored[d][g] = None]]
<1>1. /\ pc' = [pc EXCEPT ![c] = "insert"] /\ task' = [task EXCEPT ![c] = d]
      /\ draft' = [draft EXCEPT ![c] = x] /\ stored' = stored
      /\ "insert" \in Steps /\ Shape
  BY DEF Begin, Steps, IInv
<1>2. /\ DOMAIN x = gs
      /\ \A g \in gs : /\ x[g].members = Snapshot(d, g)
                       /\ ~x[g].new => stored[d][g] # None
  OBVIOUS
<1> HIDE DEF x
<1>3. /\ pc' \in [Callers -> Steps]
      /\ task' = [b \in Callers |-> task'[b]]
      /\ draft' = [b \in Callers |-> draft'[b]]
      /\ pc'[c] = "insert" /\ task'[c] = d /\ draft'[c] = x
      /\ \A b \in Callers \ {c} : /\ pc'[b] = pc[b] /\ task'[b] = task[b]
                                  /\ draft'[b] = draft[b]
  BY <1>1, Assigned
<1>4. Shape'
  BY <1>1, <1>3 DEF Shape
<1>5. ASSUME NEW g \in gs
      PROVE  Agrees(c, g)'
  BY <1>1, <1>2, <1>3 DEF Agrees, Inserted, Valued, Snapshot
<1>6. FreshApart(c)'
  <2>1. \A g \in Fresh(c)' : g \in gs /\ x[g].members = Members(g)
    BY <1>1, <1>2, <1>3 DEF Fresh, Snapshot
  <2>2. \A g, h : g # h => Members(g) \cap Members(h) = {}
    BY DEF Members
  <2> QED
    BY <1>3, <2>1, <2>2 DEF FreshApart
<1>7. CallerInv(c)'
  BY <1>2, <1>3, <1>5, <1>6 DEF CallerInv, ValuesOwn, Valued
<1>8. \A b \in Callers \ {c} : PairInv(b, c)' /\ PairInv(c, b)'
  BY <1>3 DEF PairInv, KeysApart, ValuesApart, Inserted, Valued
<1> QED
  BY <1>1, <1>3, <1>4, <1>7, <1>8, OneCaller

LEMMA InsertKeeps ==
    ASSUME IInv, NEW c \in Callers, InsertGroups(c)
    PROVE  IInv'
<1> PICK old : old = draft[c]
  OBVIOUS
<1> PICK d \in Decisions : d = task[c]
  BY DEF InsertGroups, IInv, CallerInv
<1> DEFINE x == [g \in DOMAIN old |-> [members |-> old[g].members]]
<1>1. /\ pc' = [pc EXCEPT ![c] = "factors"] /\ task' = [task EXCEPT ![c] = d]
      /\ draft' = [draft EXCEPT ![c] = x] /\ stored' = stored
      /\ "factors" \in Steps /\ Shape /\ pc[c] = "insert" /\ CallerInv(c)
  BY DEF InsertGroups, Steps, IInv, Shape
<1>2. DOMAIN x = DOMAIN old /\ \A g \in DOMAIN old : x[g].members = old[g].members
  OBVIOUS
<1> HIDE DEF x
<1>3. /\ pc' \in [Callers -> Steps]
      /\ task' = [b \in Callers |-> task'[b]]
      /\ draft' = [b \in Callers |-> draft'[b]]
      /\ pc'[c] = "factors" /\ task'[c] = d /\ draft'[c] = x
      /\ \A b \in Callers \ {c} : /\ pc'[b] = pc[b] /\ task'[b] = task[b]
                                  /\ draft'[b] = draft[b]
  BY <1>1, Assigned
<1>4. Shape'
  BY <1>1, <1>3 DEF Shape
<1>5. ASSUME NEW g \in DOMAIN old
      PROVE  Agrees(c, g)'
  <2>1. old[g].new => stored[d][g] = None
    BY <1>5 DEF InsertGroups
  <2>2. ~old[g].new => old[g].members = stored[d][g].members
    BY <1>1, <1>5 DEF CallerInv, Agrees
  <2>3. stored[d][g] # None => x[g].members = stored[d][g].members
    BY <1>2, <1>5, <2>1, <2>2
  <2> QED
    BY <1>1, <1>3, <2>3 DEF Agrees, Inserted, Valued
<1>6. Fresh(c)' = Fresh(c)
  BY <1>1, <1>2, <1>3 DEF Fresh
<1>7. FreshApart(c)'
  BY <1>1, <1>2, <1>3, <1>6 DEF FreshApart, Fresh, CallerInv
<1>8. CallerInv(c)'
  BY <1>1, <1>2, <1>3, <1>5, <1>7 DEF CallerInv, ValuesOwn, Valued
<1>9. ASSUME NEW b \in Callers \ {c}
      PROVE  PairInv(b, c)' /\ PairInv(c, b)'
  <2>1. Fresh(b)' = Fresh(b) /\ (Inserted(b)' <=> Inserted(b))
    BY <1>1, <1>3 DEF Fresh, Inserted
  <2>2. Inserted(b) /\ task[b] = d => Fresh(b) \cap DOMAIN old = {}
    BY <1>9 DEF InsertGroups
  <2>3. Inserted(b) /\ task[b] = d => Fresh(c) \cap DOMAIN draft[b] = {}
    <3> SUFFICES ASSUME Inserted(b), task[b] = d, NEW g \in Fresh(c), g \in DOMAIN draft[b]
                 PROVE  FALSE
      OBVIOUS
    <3>1. g \in Fresh(b) /\ g \in DOMAIN old
      BY DEF Fresh
    <3> QED
      BY <2>2, <3>1
  <2>4. KeysApart(b, c)' /\ KeysApart(c, b)'
    BY <1>2, <1>3, <1>6, <2>1, <2>2, <2>3 DEF KeysApart
  <2>5. ValuesApart(b, c)' /\ ValuesApart(c, b)'
    BY <1>3 DEF ValuesApart, Valued
  <2> QED
    BY <2>4, <2>5 DEF PairInv
<1> QED
  BY <1>1, <1>3, <1>4, <1>8, <1>9, OneCaller

-----------------------------------------------------------------------------
(* The values of the day *)

LEMMA FactorsKeep ==
    ASSUME IInv, NEW c \in Callers, CalculateFactors(c)
    PROVE  IInv'
<1> PICK old : old = draft[c]
  OBVIOUS
<1> PICK d \in Decisions : d = task[c]
  BY DEF CalculateFactors, IInv, CallerInv
<1> PICK inputs : inputs = [g \in DOMAIN old |-> Inputs(old[g].members)]
  OBVIOUS
<1> PICK known : known = Detail
  OBVIOUS
<1> DEFINE x == [g \in DOMAIN old |-> [members |-> old[g].members,
                                       inputs |-> inputs[g], evidence |-> known]]
<1>1. /\ pc' = [pc EXCEPT ![c] = "scores"] /\ task' = [task EXCEPT ![c] = d]
      /\ draft' = [draft EXCEPT ![c] = x] /\ stored' = stored
      /\ "scores" \in Steps /\ Shape /\ pc[c] = "factors" /\ CallerInv(c)
  BY DEF CalculateFactors, Steps, IInv, Shape
<1>2. /\ DOMAIN x = DOMAIN old
      /\ \A g \in DOMAIN old : /\ x[g].members = old[g].members
                               /\ x[g].inputs = inputs[g] /\ x[g].evidence = known
  OBVIOUS
<1> HIDE DEF x
<1>3. /\ pc' \in [Callers -> Steps]
      /\ task' = [b \in Callers |-> task'[b]]
      /\ draft' = [b \in Callers |-> draft'[b]]
      /\ pc'[c] = "scores" /\ task'[c] = d /\ draft'[c] = x
      /\ \A b \in Callers \ {c} : /\ pc'[b] = pc[b] /\ task'[b] = task[b]
                                  /\ draft'[b] = draft[b]
  BY <1>1, Assigned
<1>4. Shape'
  BY <1>1, <1>3 DEF Shape
<1>5. \A g \in DOMAIN old : /\ InputsAgree(c, g, inputs[g])
                            /\ ValuesAreFree(c, g, inputs[g])
                            /\ EvidenceAgrees(c, g)
  BY DEF CalculateFactors
<1>6. ASSUME NEW g \in DOMAIN old
      PROVE  Agrees(c, g)'
  <2>1. stored[d][g] # None =>
          /\ x[g].members = stored[d][g].members
          /\ x[g].inputs = stored[d][g].inputs
          /\ x[g].evidence = stored[d][g].evidence
    BY <1>1, <1>2, <1>5, <1>6
    DEF CallerInv, Agrees, Inserted, InputsAgree, EvidenceAgrees
  <2> QED
    BY <1>1, <1>3, <2>1 DEF Agrees, Inserted, Valued
<1>7. ASSUME NEW g \in DOMAIN old, NEW f \in old[g].members,
             NEW e \in Decisions, NEW h \in Groups, Owns(e, h, f)
      PROVE  e = d /\ h = g
  <2>1. <<e, h>> \in Owners(f)
    BY <1>7 DEF Owns, Owners
  <2>2. DOMAIN inputs[g] = old[g].members
    BY <1>7 DEF Inputs
  <2>3. Owners(f) \subseteq {<<d, g>>}
    BY <1>5, <1>7, <2>2 DEF ValuesAreFree
  <2> QED
    BY <2>1, <2>3
<1>8. ValuesOwn(c)'
  <2>1. \A g \in DOMAIN x : \A f \in x[g].members :
          \A e \in Decisions, h \in Groups : Owns(e, h, f) => e = d /\ h = g
    BY <1>2, <1>7
  <2>2. \A f : \A e \in Decisions, h \in Groups : Owns(e, h, f)' => Owns(e, h, f)
    BY <1>1 DEF Owns
  <2>3. \A g \in DOMAIN x : \A f \in x[g].members :
          \A e \in Decisions, h \in Groups : Owns(e, h, f)' => e = d /\ h = g
    BY <2>1, <2>2
  <2> QED
    BY <1>3, <2>3 DEF ValuesOwn
<1>9. Fresh(c)' = Fresh(c) /\ Fresh(c) \subseteq DOMAIN old
  BY <1>1, <1>2, <1>3 DEF Fresh
<1>10. CallerInv(c)'
  <2>1. FreshApart(c)'
    <3>1. \A g, h \in Fresh(c) : g # h => x[g].members \cap x[h].members = {}
      BY <1>1, <1>2, <1>9 DEF FreshApart, CallerInv
    <3> QED
      BY <1>3, <1>9, <3>1 DEF FreshApart
  <2> QED
    BY <1>1, <1>2, <1>3, <1>6, <1>8, <2>1 DEF CallerInv
<1>11. ASSUME NEW b \in Callers \ {c}
       PROVE  PairInv(b, c)' /\ PairInv(c, b)'
  <2>1. /\ Fresh(b)' = Fresh(b) /\ Fresh(b) \subseteq DOMAIN draft[b]
        /\ Inserted(b)' <=> Inserted(b)
        /\ Valued(b)' <=> Valued(b)
    BY <1>1, <1>3 DEF Fresh, Inserted, Valued
  <2>2. KeysApart(b, c) /\ KeysApart(c, b) /\ Inserted(c)
    BY <1>1 DEF IInv, PairInv, Inserted
  <2>3. KeysApart(b, c)' /\ KeysApart(c, b)'
    BY <1>2, <1>3, <1>9, <2>1, <2>2 DEF KeysApart
  <2>4. Valued(b) => \A g \in DOMAIN old, h \in Fresh(b) :
                       old[g].members \cap draft[b][h].members = {}
    BY <1>11 DEF CalculateFactors, Valued
  <2>5. ValuesApart(b, c)'
    BY <1>2, <1>3, <2>1, <2>4 DEF ValuesApart
  <2>6. ASSUME Valued(b), NEW g \in DOMAIN draft[b], NEW h \in Fresh(c),
               NEW f \in draft[b][g].members, f \in old[h].members
        PROVE  FALSE
    <3>1. g \notin Fresh(b)
      BY <1>9, <2>4, <2>6
    <3>2. /\ task[b] \in Decisions /\ g \in Groups
          /\ draft[b][g].members = stored[task[b]][g].members
          /\ stored[task[b]][g] # None
      BY <2>6, <3>1 DEF IInv, CallerInv, Agrees, Valued, Inserted, Fresh
    <3>3. task[b] = d /\ g = h
      BY <1>7, <1>9, <2>6, <3>2 DEF Owns
    <3> QED
      BY <2>6, <3>2, <3>3 DEF Fresh
  <2>7. ValuesApart(c, b)'
    BY <1>2, <1>3, <1>9, <2>1, <2>6 DEF ValuesApart
  <2> QED
    BY <2>3, <2>5, <2>7 DEF PairInv
<1> QED
  BY <1>1, <1>3, <1>4, <1>10, <1>11, OneCaller

(* Whatever the rules make of a group is a row of it. *)
LEMMA EvaluatedRow ==
    ASSUME NEW members, NEW inputs, NEW known, NEW expense,
           NEW r, r = Evaluated(members, inputs, known, expense)
    PROVE  /\ IsRow(r) /\ r.members = members
           /\ r.inputs = inputs /\ r.evidence = known
<1> PICK ranks, tiers : r = Rows(members, inputs, known, expense, ranks, tiers)
  BY DEF Evaluated
<1>1. /\ r.members = members /\ r.inputs = inputs /\ r.evidence = known
      /\ r.expense = expense /\ r.ranks = ranks /\ r.tiers = tiers
  BY DEF Rows
<1> QED
  BY <1>1 DEF IsRow

LEMMA RowsEqual ==
    ASSUME NEW x, NEW r, IsRow(x), IsRow(r),
           x.members = r.members, x.inputs = r.inputs, x.evidence = r.evidence,
           x.expense = r.expense, x.ranks = r.ranks, x.tiers = r.tiers
    PROVE  x = r
BY DEF IsRow

LEMMA ScoresKeep ==
    ASSUME IInv, NEW c \in Callers, CalculateScores(c)
    PROVE  IInv'
<1> PICK old : old = draft[c]
  OBVIOUS
<1> PICK d \in Decisions : d = task[c]
  BY DEF CalculateScores, IInv, CallerInv
<1> PICK x : x = [g \in DOMAIN old |->
           Evaluated(old[g].members, old[g].inputs, old[g].evidence,
                     [f \in old[g].members |-> data[f].expense])]
  OBVIOUS
<1>1. /\ pc' = [pc EXCEPT ![c] = "commit"] /\ task' = [task EXCEPT ![c] = d]
      /\ draft' = [draft EXCEPT ![c] = x] /\ stored' = stored
      /\ "commit" \in Steps /\ Shape /\ pc[c] = "scores" /\ CallerInv(c)
  BY DEF CalculateScores, Steps, IInv, Shape
<1>2. /\ DOMAIN x = DOMAIN old
      /\ \A g \in DOMAIN old : /\ IsRow(x[g]) /\ x[g].members = old[g].members
                               /\ x[g].inputs = old[g].inputs
                               /\ x[g].evidence = old[g].evidence
  BY EvaluatedRow
<1>3. /\ pc' \in [Callers -> Steps]
      /\ task' = [b \in Callers |-> task'[b]]
      /\ draft' = [b \in Callers |-> draft'[b]]
      /\ pc'[c] = "commit" /\ task'[c] = d /\ draft'[c] = x
      /\ \A b \in Callers \ {c} : /\ pc'[b] = pc[b] /\ task'[b] = task[b]
                                  /\ draft'[b] = draft[b]
  BY <1>1, Assigned
<1>4. Shape'
  BY <1>1, <1>3 DEF Shape
<1>5. \A g \in DOMAIN old : ResultAgrees(d, g, x[g])
  BY DEF CalculateScores
<1>6. ASSUME NEW g \in DOMAIN old
      PROVE  Agrees(c, g)'
  <2>1. ASSUME stored[d][g] # None
        PROVE  x[g] = stored[d][g]
    <3> PICK r : r = stored[d][g]
      OBVIOUS
    <3>1. /\ old[g].members = r.members /\ old[g].inputs = r.inputs
          /\ old[g].evidence = r.evidence /\ g \in Groups
      BY <1>1, <1>6, <2>1 DEF CallerInv, Agrees, Inserted, Valued
    <3>2. x[g].expense = r.expense /\ x[g].ranks = r.ranks /\ x[g].tiers = r.tiers
      BY <1>5, <1>6, <2>1 DEF ResultAgrees, ScoresAgree, RanksAgree, TiersAgree
    <3>3. IsRow(r)
      BY <1>1, <2>1, <3>1 DEF Shape
    <3> QED
      <4>1. /\ IsRow(x[g]) /\ x[g].members = r.members
            /\ x[g].inputs = r.inputs /\ x[g].evidence = r.evidence
        BY <1>2, <1>6, <3>1
      <4> QED
        BY <3>2, <3>3, <4>1, RowsEqual
  <2> QED
    BY <1>1, <1>2, <1>3, <1>6, <2>1 DEF Agrees, Inserted, Valued
<1>7. Fresh(c)' = Fresh(c) /\ Fresh(c) \subseteq DOMAIN old
  BY <1>1, <1>2, <1>3 DEF Fresh
<1>8. ValuesOwn(c)'
  <2>1. \A g \in DOMAIN x : \A f \in x[g].members :
          \A e \in Decisions, h \in Groups : Owns(e, h, f) => e = d /\ h = g
    <3>1. ValuesOwn(c) /\ Valued(c)
      BY <1>1 DEF CallerInv, Valued
    <3>2. \A g \in DOMAIN old : \A f \in old[g].members :
            \A e \in Decisions, h \in Groups : Owns(e, h, f) => e = d /\ h = g
      BY <3>1 DEF ValuesOwn
    <3> QED
      BY <1>2, <3>2
  <2>2. \A f : \A e \in Decisions, h \in Groups : Owns(e, h, f)' => Owns(e, h, f)
    BY <1>1 DEF Owns
  <2>3. \A g \in DOMAIN x : \A f \in x[g].members :
          \A e \in Decisions, h \in Groups : Owns(e, h, f)' => e = d /\ h = g
    BY <2>1, <2>2
  <2> QED
    BY <1>3, <2>3 DEF ValuesOwn
<1>9. CallerInv(c)'
  <2>1. FreshApart(c)'
    <3>1. \A g, h \in Fresh(c) : g # h => x[g].members \cap x[h].members = {}
      BY <1>1, <1>2, <1>7 DEF FreshApart, CallerInv
    <3> QED
      BY <1>3, <1>7, <3>1 DEF FreshApart
  <2> QED
    BY <1>1, <1>2, <1>3, <1>6, <1>8, <2>1 DEF CallerInv
<1>10. ASSUME NEW b \in Callers \ {c}
       PROVE  PairInv(b, c)' /\ PairInv(c, b)'
  <2>1. /\ Fresh(b)' = Fresh(b)
        /\ Inserted(b)' <=> Inserted(b)
        /\ Valued(b)' <=> Valued(b)
    BY <1>1, <1>3 DEF Fresh, Inserted, Valued
  <2>2. /\ PairInv(b, c) /\ PairInv(c, b)
        /\ Inserted(c) /\ Valued(c)
    BY <1>1 DEF IInv, Inserted, Valued
  <2>3. KeysApart(b, c)' /\ KeysApart(c, b)'
    BY <1>2, <1>3, <1>7, <2>1, <2>2 DEF KeysApart, PairInv
  <2>4. ValuesApart(b, c)' /\ ValuesApart(c, b)'
    <3>1. Valued(b) => \A g \in DOMAIN x, h \in Fresh(b) :
                         x[g].members \cap draft[b][h].members = {}
      BY <1>2, <2>2 DEF ValuesApart, PairInv
    <3>2. Valued(b) => \A g \in DOMAIN draft[b], h \in Fresh(c) :
                         draft[b][g].members \cap x[h].members = {}
      BY <1>2, <1>7, <2>2 DEF ValuesApart, PairInv
    <3> QED
      BY <1>3, <1>7, <2>1, <3>1, <3>2 DEF ValuesApart
  <2> QED
    BY <2>3, <2>4 DEF PairInv
<1> QED
  BY <1>1, <1>3, <1>4, <1>9, <1>10, OneCaller

-----------------------------------------------------------------------------
(* What is committed *)

(* A commit adds the new groups of its transaction and changes nothing. *)
LEMMA CommitAdds ==
    ASSUME IInv, NEW c \in Callers, Commit(c)
    PROVE  /\ CallerInv(c) /\ task[c] \in Decisions /\ pc[c] = "commit"
           /\ Fresh(c) \subseteq DOMAIN draft[c] \cap Groups
           /\ stored' = [e \in Decisions |-> [g \in Groups |-> stored'[e][g]]]
           /\ \A e \in Decisions, g \in Groups :
                \/ stored'[e][g] = stored[e][g]
                \/ /\ e = task[c] /\ g \in Fresh(c) /\ stored[e][g] = None
                   /\ stored'[e][g] = draft[c][g]
<1> PICK d \in Decisions : d = task[c]
  BY DEF Commit, IInv, CallerInv
<1>1. CallerInv(c) /\ pc[c] = "commit" /\ Shape
  BY DEF Commit, IInv
<1>2. Fresh(c) \subseteq DOMAIN draft[c] \cap Groups
  BY <1>1 DEF Fresh, CallerInv
<1>3. stored' = [stored EXCEPT ![d] =
        [g \in Groups |-> IF g \in DOMAIN draft[c] THEN draft[c][g] ELSE stored[d][g]]]
  BY DEF Commit
<1>4. /\ \A e \in Decisions \ {d} : stored'[e] = stored[e]
      /\ stored'[d] =
           [g \in Groups |-> IF g \in DOMAIN draft[c] THEN draft[c][g] ELSE stored[d][g]]
      /\ DOMAIN stored' = Decisions
  BY <1>1, <1>3 DEF Shape
<1>5. ASSUME NEW e \in Decisions
      PROVE  stored'[e] = [g \in Groups |-> stored'[e][g]]
  <2>1. CASE e = d
    BY <1>4, <2>1
  <2>2. CASE e # d
    BY <1>1, <1>4, <2>2 DEF Shape
  <2> QED
    BY <2>1, <2>2
<1>6. stored' = [e \in Decisions |-> stored'[e]]
  BY <1>1, <1>3 DEF Shape
<1>7. stored' = [e \in Decisions |-> [g \in Groups |-> stored'[e][g]]]
  BY <1>5, <1>6
<1>8. ASSUME NEW e \in Decisions, NEW g \in Groups
      PROVE  \/ stored'[e][g] = stored[e][g]
             \/ /\ e = d /\ g \in Fresh(c) /\ stored[e][g] = None
                /\ stored'[e][g] = draft[c][g]
  <2>1. CASE e # d \/ g \notin DOMAIN draft[c]
    BY <1>4, <2>1
  <2>2. CASE e = d /\ g \in DOMAIN draft[c]
    <3>1. stored[d][g] # None => draft[c][g] = stored[d][g]
      BY <1>1, <2>2 DEF CallerInv, Agrees
    <3> QED
      BY <1>4, <2>2, <3>1 DEF Fresh
  <2> QED
    BY <2>1, <2>2
<1> QED
  BY <1>1, <1>2, <1>7, <1>8

LEMMA CommitKeeps ==
    ASSUME IInv, NEW c \in Callers, Commit(c)
    PROVE  IInv'
<1> PICK d \in Decisions : d = task[c]
  BY DEF Commit, IInv, CallerInv
<1> PICK x : x = draft[c]
  OBVIOUS
<1> PICK new : new = Fresh(c)
  OBVIOUS
<1>1. /\ pc' = [pc EXCEPT ![c] = "idle"] /\ task' = [task EXCEPT ![c] = None]
      /\ draft' = [draft EXCEPT ![c] = <<>>] /\ "idle" \in Steps /\ Shape
  BY DEF Commit, Leave, Steps, IInv
<1>2. /\ CallerInv(c) /\ pc[c] = "commit"
      /\ new \subseteq DOMAIN x \cap Groups
      /\ \A g \in new : stored[d][g] = None
      /\ stored' = [e \in Decisions |-> [g \in Groups |-> stored'[e][g]]]
  BY CommitAdds DEF Fresh
<1>3. \A e \in Decisions, g \in Groups :
        \/ stored'[e][g] = stored[e][g]
        \/ /\ e = d /\ g \in new /\ stored[e][g] = None
           /\ stored'[e][g] = x[g]
  BY CommitAdds
<1>4. /\ pc' \in [Callers -> Steps]
      /\ task' = [b \in Callers |-> task'[b]]
      /\ draft' = [b \in Callers |-> draft'[b]]
      /\ pc'[c] = "idle"
      /\ \A b \in Callers \ {c} : /\ pc'[b] = pc[b] /\ task'[b] = task[b]
                                  /\ draft'[b] = draft[b]
  BY <1>1, Assigned
<1>5. Shape'
  <2>1. ASSUME NEW e \in Decisions, NEW g \in Groups, stored'[e][g] # None
        PROVE  IsRow(stored'[e][g])
    <3>1. CASE stored'[e][g] = stored[e][g]
      BY <1>1, <2>1, <3>1 DEF Shape
    <3>2. CASE g \in new /\ stored'[e][g] = x[g]
      BY <1>2, <3>2 DEF CallerInv, Agrees
    <3> QED
      BY <1>3, <3>1, <3>2
  <2>2. \A e \in Decisions, g \in Groups : (stored[e][g] # None => IsRow(stored[e][g]))'
    BY <2>1 DEF IsRow
  <2> QED
    BY <1>2, <1>4, <2>2 DEF Shape
<1>6. ASSUME NEW e \in Decisions, NEW h \in Groups, NEW f, Owns(e, h, f)'
      PROVE  Owns(e, h, f) \/ (e = d /\ h \in new /\ f \in x[h].members)
  <2>1. stored'[e][h] # None /\ f \in stored'[e][h].members
    BY <1>6 DEF Owns
  <2>2. CASE stored'[e][h] = stored[e][h]
    <3>1. stored[e][h] # None /\ f \in stored[e][h].members
      BY <2>1, <2>2
    <3> QED
      BY <3>1 DEF Owns
  <2>3. CASE e = d /\ h \in new /\ stored'[e][h] = x[h]
    BY <2>1, <2>3
  <2> QED
    BY <1>3, <2>2, <2>3
<1>7. \A h \in new : \A f \in x[h].members :
        \A e \in Decisions, g \in Groups : ~Owns(e, g, f)
  <2>1. ValuesOwn(c) /\ Valued(c)
    BY <1>2 DEF CallerInv, Valued
  <2> QED
    BY <1>2, <2>1 DEF ValuesOwn, Owns
<1>8. OneOwner'
  <2>1. ASSUME NEW f \in Funds, NEW e1 \in Decisions, NEW e2 \in Decisions,
               NEW g \in Groups, NEW h \in Groups, Owns(e1, g, f)', Owns(e2, h, f)'
        PROVE  e1 = e2 /\ g = h
    <3>1. CASE Owns(e1, g, f) /\ Owns(e2, h, f)
      BY <3>1 DEF IInv, OneOwner
    <3>2. CASE ~Owns(e1, g, f) \/ ~Owns(e2, h, f)
      <4>1. /\ e1 = d /\ g \in new /\ f \in x[g].members
            /\ e2 = d /\ h \in new /\ f \in x[h].members
        BY <1>6, <1>7, <2>1, <3>2
      <4>2. FreshApart(c)
        BY <1>2 DEF CallerInv
      <4> QED
        BY <4>1, <4>2 DEF FreshApart
    <3> QED
      BY <3>1, <3>2
  <2> QED
    BY <2>1 DEF OneOwner
<1>9. ASSUME NEW b \in Callers \ {c}
      PROVE  Fresh(b)' \subseteq Fresh(b) \/ pc[b] = "idle"
  <2>1. CASE pc[b] # "idle"
    <3>1. task[b] \in Decisions /\ DOMAIN draft[b] \subseteq Groups
      BY <2>1 DEF IInv, CallerInv
    <3>2. \A g \in Groups : stored'[task[b]][g] = None => stored[task[b]][g] = None
      BY <1>2, <1>3, <3>1
    <3> QED
      BY <1>4, <3>1, <3>2 DEF Fresh
  <2> QED
    BY <2>1
<1>10. ASSUME NEW b \in Callers \ {c}, pc[b] # "idle"
       PROVE  CallerInv(b)'
  <2>1. /\ CallerInv(b) /\ task[b] \in Decisions /\ DOMAIN draft[b] \subseteq Groups
        /\ ValuesOwn(b) /\ FreshApart(b)
    BY <1>10 DEF IInv, CallerInv
  <2>2. ASSUME NEW g \in DOMAIN draft[b]
        PROVE  Agrees(b, g)'
    <3>1. Agrees(b, g) /\ g \in Groups
      BY <1>10, <2>1, <2>2 DEF CallerInv
    <3>2. CASE stored'[task[b]][g] = stored[task[b]][g]
      BY <1>4, <3>1, <3>2 DEF Agrees, Inserted, Valued, IsRow
    <3>3. CASE /\ task[b] = d /\ g \in new /\ stored[task[b]][g] = None
               /\ stored'[task[b]][g] = x[g]
      <4>1. KeysApart(c, b) /\ Inserted(c)
        BY <1>2 DEF IInv, PairInv, Inserted
      <4>2. ~Inserted(b)
        BY <2>2, <3>3, <4>1 DEF KeysApart
      <4> QED
        BY <1>4, <3>1, <3>3, <4>2 DEF Agrees, Inserted, Valued, IsRow
    <3> QED
      BY <1>3, <2>1, <3>1, <3>2, <3>3
  <2>3. ASSUME Valued(b), NEW g \in DOMAIN draft[b], NEW f \in draft[b][g].members,
               NEW e \in Decisions, NEW h \in Groups, Owns(e, h, f)'
        PROVE  e = task[b] /\ h = g
    <3>1. CASE Owns(e, h, f)
      BY <2>1, <2>3, <3>1 DEF ValuesOwn
    <3>2. CASE h \in new /\ f \in x[h].members
      <4>1. ValuesApart(c, b) /\ Valued(c)
        BY <1>2 DEF IInv, PairInv, Valued
      <4> QED
        BY <2>3, <3>2, <4>1 DEF ValuesApart
    <3> QED
      BY <1>6, <2>3, <3>1, <3>2
  <2>4. ValuesOwn(b)'
    BY <1>4, <2>3 DEF ValuesOwn, Valued
  <2>5. FreshApart(b)'
    BY <1>4, <1>9, <1>10, <2>1 DEF FreshApart
  <2> QED
    BY <1>4, <2>1, <2>2, <2>4, <2>5 DEF CallerInv
<1>11. \A b \in Callers : CallerInv(b)'
  <2>1. ASSUME NEW b \in Callers, pc'[b] = "idle"
        PROVE  CallerInv(b)'
    BY <2>1 DEF CallerInv
  <2> QED
    BY <1>4, <1>10, <2>1
<1>12. ASSUME NEW a \in Callers, NEW b \in Callers, a # b
       PROVE  PairInv(a, b)'
  <2>1. CASE pc'[a] = "idle" \/ pc'[b] = "idle"
    BY <2>1 DEF PairInv, KeysApart, ValuesApart, Inserted, Valued
  <2>2. CASE pc'[a] # "idle" /\ pc'[b] # "idle"
    <3>1. /\ a # c /\ b # c /\ Fresh(a)' \subseteq Fresh(a)
          /\ pc'[a] = pc[a] /\ task'[a] = task[a] /\ draft'[a] = draft[a]
          /\ pc'[b] = pc[b] /\ task'[b] = task[b] /\ draft'[b] = draft[b]
      BY <1>4, <1>9, <2>2
    <3>2. PairInv(a, b)
      BY <1>12 DEF IInv
    <3>3. KeysApart(a, b)'
      BY <3>1, <3>2 DEF PairInv, KeysApart, Inserted
    <3>4. ValuesApart(a, b)'
      BY <3>1, <3>2 DEF PairInv, ValuesApart, Valued
    <3> QED
      BY <3>3, <3>4 DEF PairInv
  <2> QED
    BY <2>1, <2>2
<1> QED
  BY <1>5, <1>8, <1>11, <1>12 DEF IInv

-----------------------------------------------------------------------------
(* The theorems                                                            *)

LEMMA InitIInv == Init => IInv
<1> SUFFICES ASSUME Init
             PROVE  IInv
  OBVIOUS
<1>1. \A d \in Decisions, g \in Groups : stored[d][g] = None
  BY DEF Init
<1>2. Shape
  BY <1>1 DEF Init, Shape, Steps
<1>3. OneOwner
  BY <1>1 DEF OneOwner, Owns
<1>4. \A c \in Callers : CallerInv(c)
  BY DEF Init, CallerInv
<1>5. \A b, c \in Callers : b # c => PairInv(b, c)
  BY DEF Init, PairInv, KeysApart, ValuesApart, Inserted, Valued
<1> QED
  BY <1>2, <1>3, <1>4, <1>5 DEF IInv

LEMMA NextKeeps == IInv /\ [Next]_vars => IInv'
<1> SUFFICES ASSUME IInv, [Next]_vars
             PROVE  IInv'
  OBVIOUS
<1>1. ASSUME NEW c \in Callers, Run(c)
      PROVE  IInv'
  BY <1>1, BeginKeeps, InsertKeeps, FactorsKeep, ScoresKeep, CommitKeeps, FailKeeps
  DEF Run
<1>2. ASSUME NEW f \in Funds, NEW r \in Data, Revise(f, r)
      PROVE  IInv'
  BY <1>2, WorldSteps DEF Revise
<1>3. ASSUME NEW f \in Funds, NEW g \in Groups \cup {None}, Regroup(f, g)
      PROVE  IInv'
  BY <1>3, WorldSteps DEF Regroup
<1>4. ASSUME NEW e \in Evidence, Revalidate(e)
      PROVE  IInv'
  BY <1>4, WorldSteps DEF Revalidate
<1>5. CASE UNCHANGED vars
  BY <1>5, WorldSteps DEF vars
<1> QED
  BY <1>1, <1>2, <1>3, <1>4, <1>5 DEF Next

LEMMA Invariance == Spec => []IInv
<1> QED
  BY InitIInv, NextKeeps, PTL DEF Spec

LEMMA OwnersAreOne == IInv => OneEvaluationPerFund
<1> SUFFICES ASSUME IInv, NEW f \in Funds
             PROVE  Cardinality(Owners(f)) <= 1
  BY DEF OneEvaluationPerFund
<1>1. \A o, p \in Owners(f) : o = p
  <2> SUFFICES ASSUME NEW o \in Owners(f), NEW p \in Owners(f)
               PROVE  o = p
    OBVIOUS
  <2>1. o \in Decisions \X Groups /\ p \in Decisions \X Groups
    BY DEF Owners
  <2>2. Owns(o[1], o[2], f) /\ Owns(p[1], p[2], f)
    BY DEF Owners, Owns
  <2>3. o[1] = p[1] /\ o[2] = p[2]
    BY <2>1, <2>2 DEF IInv, OneOwner
  <2> QED
    BY <2>1, <2>3
<1>2. CASE Owners(f) = {}
  BY <1>2, FS_EmptySet
<1>3. CASE \E o : o \in Owners(f)
  <2> PICK o : o \in Owners(f)
    BY <1>3
  <2>1. Owners(f) = {o}
    BY <1>1
  <2>2. Cardinality(Owners(f)) = 1
    BY <2>1, FS_Singleton
  <2> QED
    BY <2>2
<1> QED
  BY <1>2, <1>3

(* However many transactions of however many decisions interleave, and     *)
(* whatever data change under them, the values of a fund on a day belong   *)
(* to one group of one decision.                                           *)
THEOREM EvaluatedOnce == Spec => []OneEvaluationPerFund
<1> QED
  BY Invariance, OwnersAreOne, PTL

(* What a decision has stored of a group is what every later evaluation    *)
(* of it must find: no step changes it.                                    *)
THEOREM EvaluationsStand == Spec => StoredIsKept
<1>1. ASSUME IInv, [Next]_vars, NEW d \in Decisions, NEW g \in Groups,
             stored[d][g] # None
      PROVE  stored'[d][g] = stored[d][g]
  <2>1. ASSUME NEW c \in Callers, Commit(c)
        PROVE  stored'[d][g] = stored[d][g]
    BY <1>1, <2>1, CommitAdds
  <2>2. CASE UNCHANGED stored
    BY <2>2
  <2>3. UNCHANGED stored \/ \E c \in Callers : Commit(c)
    BY <1>1 DEF Next, Run, Begin, InsertGroups, CalculateFactors, CalculateScores,
                Fail, Revise, Regroup, Revalidate, vars
  <2> QED
    BY <2>1, <2>2, <2>3
<1>2. IInv /\ [Next]_vars =>
        [\A d \in Decisions, g \in Groups :
           stored[d][g] # None => stored'[d][g] = stored[d][g]]_vars
  BY <1>1
<1> QED
  BY <1>2, Invariance, PTL DEF Spec, StoredIsKept

-----------------------------------------------------------------------------
(* Normalisation                                                           *)

Maybe == Int \cup {None}

(* Both are absent, or both are there and the first is no less.            *)
AtLeast(u, v) == (u = None <=> v = None) /\ (u # None => u >= v)

(* What is better has the smaller rank, and no rank is beyond the last.    *)
LEMMA RankOrder ==
    ASSUME NEW M, IsFiniteSet(M), NEW x \in [M -> Int], NEW f \in M, NEW h \in M,
           x[f] >= x[h]
    PROVE  /\ DoubledRank(x, f) \in Nat \ {0} /\ DoubledRank(x, h) \in Nat \ {0}
           /\ DoubledRank(x, f) <= DoubledRank(x, h)
           /\ DoubledRank(x, h) <= 2 * Cardinality(M)
<1>1. ASSUME NEW e \in M
      PROVE  /\ IsFiniteSet(Better(x, e)) /\ IsFiniteSet(Equal(x, e))
             /\ Cardinality(Better(x, e)) \in Nat /\ Cardinality(Equal(x, e)) \in Nat \ {0}
             /\ Cardinality(Better(x, e) \cup Equal(x, e))
                  = Cardinality(Better(x, e)) + Cardinality(Equal(x, e))
             /\ Cardinality(Better(x, e) \cup Equal(x, e)) <= Cardinality(M)
  <2>1. /\ Better(x, e) \subseteq M /\ Equal(x, e) \subseteq M
        /\ Better(x, e) \cap Equal(x, e) = {} /\ e \in Equal(x, e)
    BY DEF Better, Equal
  <2>2. IsFiniteSet(Better(x, e)) /\ IsFiniteSet(Equal(x, e))
    BY <2>1, FS_Subset
  <2>3. Cardinality(Better(x, e)) \in Nat /\ Cardinality(Equal(x, e)) \in Nat
    BY <2>2, FS_CardinalityType
  <2>4. Cardinality(Equal(x, e)) # 0
    BY <2>1, <2>2, FS_EmptySet
  <2>5. Cardinality(Better(x, e) \cup Equal(x, e))
          = Cardinality(Better(x, e)) + Cardinality(Equal(x, e)) - Cardinality({})
    BY <2>1, <2>2, FS_Union
  <2>6. Cardinality({}) = 0
    BY FS_EmptySet
  <2>7. Better(x, e) \cup Equal(x, e) \subseteq M
    BY <2>1
  <2>8. Cardinality(Better(x, e) \cup Equal(x, e)) <= Cardinality(M)
    BY <2>7, FS_Subset
  <2> QED
    BY <2>2, <2>3, <2>4, <2>5, <2>6, <2>8
<1>2. Cardinality(M) \in Nat
  BY FS_CardinalityType
<1> PICK b, k : b = Cardinality(Better(x, f)) /\ k = Cardinality(Equal(x, f))
  OBVIOUS
<1> PICK c, l : c = Cardinality(Better(x, h)) /\ l = Cardinality(Equal(x, h))
  OBVIOUS
<1> PICK n \in Nat : n = Cardinality(M)
  BY <1>2
<1>3. /\ b \in Nat /\ c \in Nat /\ k \in Nat \ {0} /\ l \in Nat \ {0}
      /\ b + k <= n /\ c + l <= n
      /\ Cardinality(Better(x, f) \cup Equal(x, f)) = b + k
  BY <1>1
<1>4. DoubledRank(x, f) = 2 * b + k + 1 /\ DoubledRank(x, h) = 2 * c + l + 1
  BY DEF DoubledRank
<1>5. (b = c /\ k = l) \/ b + k <= c
  <2>1. CASE x[f] = x[h]
    BY <2>1 DEF Better, Equal
  <2>2. CASE x[f] # x[h]
    <3>1. Better(x, f) \cup Equal(x, f) \subseteq Better(x, h)
      BY <2>2 DEF Better, Equal
    <3>2. IsFiniteSet(Better(x, h))
      BY <1>1
    <3>3. Cardinality(Better(x, f) \cup Equal(x, f)) <= Cardinality(Better(x, h))
      BY <3>1, <3>2, FS_Subset
    <3> QED
      BY <1>3, <3>3
  <2> QED
    BY <2>1, <2>2
<1>6. /\ 2 * b + k + 1 \in Nat \ {0} /\ 2 * c + l + 1 \in Nat \ {0}
      /\ 2 * b + k + 1 <= 2 * c + l + 1 /\ 2 * c + l + 1 <= 2 * n
  <2>1. b \in Nat /\ c \in Nat /\ k \in Nat /\ l \in Nat /\ k > 0 /\ l > 0 /\ c + l <= n
    BY <1>3
  <2> QED
    BY <1>5, <2>1
<1> QED
  BY <1>4, <1>6

LEMMA KnownType ==
    ASSUME NEW M, IsFiniteSet(M), NEW x \in [M -> Maybe]
    PROVE  /\ DOMAIN Known(x) = {g \in M : x[g] # None}
           /\ Known(x) \in [DOMAIN Known(x) -> Int]
           /\ \A g \in M : x[g] # None => g \in DOMAIN Known(x) /\ Known(x)[g] = x[g]
           /\ IsFiniteSet(DOMAIN Known(x)) /\ Cardinality(DOMAIN Known(x)) \in Nat
<1>1. DOMAIN Known(x) = {g \in M : x[g] # None}
  BY DEF Known
<1>2. IsFiniteSet(DOMAIN Known(x)) /\ Cardinality(DOMAIN Known(x)) \in Nat
  BY <1>1, FS_Subset, FS_CardinalityType
<1> QED
  BY <1>1, <1>2 DEF Known, Maybe

(* Normalisation keeps the order of what it is given. *)
LEMMA NormalizedOrder ==
    ASSUME NEW M, IsFiniteSet(M), NEW x \in [M -> Maybe],
           NEW f \in M, NEW h \in M, AtLeast(x[f], x[h])
    PROVE  /\ Normalized(x)[f] \in Maybe /\ Normalized(x)[h] \in Maybe
           /\ AtLeast(Normalized(x)[f], Normalized(x)[h])
           /\ Normalized(x)[f] # None => Normalized(x)[h] >= 0
<1> DEFINE known == Known(x)
           n == Cardinality(DOMAIN known)
           step == FullMark \div (2 * (n - 1))
<1>1. \A g \in M : Normalized(x)[g] =
        IF n < MinimumSample \/ x[g] = None THEN None
        ELSE step * (2 * n - DoubledRank(known, g))
  BY DEF Normalized
<1>2. n \in Nat
  BY KnownType
<1>3. CASE n < MinimumSample \/ x[f] = None
  BY <1>1, <1>3 DEF AtLeast, Maybe
<1>4. CASE ~(n < MinimumSample) /\ x[f] # None
  <2>1. x[h] # None /\ x[f] >= x[h] /\ f \in DOMAIN known /\ h \in DOMAIN known
        /\ known[f] >= known[h]
    <3>1. x[h] # None /\ x[f] >= x[h]
      BY <1>4 DEF AtLeast
    <3>2. \A g \in M : x[g] # None => g \in DOMAIN known /\ known[g] = x[g]
      BY KnownType
    <3> QED
      BY <1>4, <3>1, <3>2
  <2>2. /\ DoubledRank(known, f) \in Nat /\ DoubledRank(known, h) \in Nat
        /\ DoubledRank(known, f) <= DoubledRank(known, h)
        /\ DoubledRank(known, h) <= 2 * n
    BY <2>1, KnownType, RankOrder
  <2>3. 2 * (n - 1) \in Nat \ {0}
    BY <1>2, <1>4, ScoringAssumption
  <2> HIDE DEF n, known
  <2>4. step \in Nat
    BY <2>3 DEF FullMark
  <2>5. /\ Normalized(x)[f] = step * (2 * n - DoubledRank(known, f))
        /\ Normalized(x)[h] = step * (2 * n - DoubledRank(known, h))
    BY <1>1, <1>4, <2>1
  <2>6. \A s, a, b \in Nat : a >= b => s * a \in Nat /\ s * b \in Nat /\ s * a >= s * b
    OBVIOUS
  <2> DEFINE p == 2 * n - DoubledRank(known, f)
             q == 2 * n - DoubledRank(known, h)
  <2>7. p \in Nat /\ q \in Nat /\ p >= q
    BY <1>2, <2>2
  <2> HIDE DEF step
  <2>8. step * p \in Nat /\ step * q \in Nat /\ step * p >= step * q
    BY <2>4, <2>6, <2>7
  <2>9. step * p # None /\ step * q # None
    BY <2>8, AbsenceAssumption
  <2> QED
    BY <2>5, <2>8, <2>9 DEF AtLeast, Maybe
<1> QED
  BY <1>3, <1>4

-----------------------------------------------------------------------------
(* The tracking error                                                      *)

(* What a profile makes of a tracking error keeps the order of what the    *)
(* profile goes by.                                                        *)
Prefers(te, ratio, f, h) ==
  \/ te[f] = te[h] /\ ratio[f] = ratio[h]
  \/ /\ None \notin {Preference(te[f], ratio[f]), Preference(te[h], ratio[h])}
     /\ Preference(te[f], ratio[f]) >= Preference(te[h], ratio[h])

LEMMA CompositeType ==
    ASSUME NEW t \in Nat \cup {None}, NEW q \in Maybe
    PROVE  Composite(t, q) \in Maybe
<1>1. t # None => t \in Nat /\ -t \in Int
  OBVIOUS
<1>2. q # None => q \in Int
  BY DEF Maybe
<1>3. \A a, b \in Int : a * b \in Int
  OBVIOUS
<1> QED
  BY <1>1, <1>2, <1>3 DEF Composite, Maybe

LEMMA InteractionOrder ==
    ASSUME NEW M, IsFiniteSet(M), NEW te \in [M -> Nat \cup {None}], NEW ratio \in [M -> Maybe],
           NEW f \in M, NEW h \in M, Prefers(te, ratio, f, h),
           Interactions(te, ratio)[f] # None, Interactions(te, ratio)[h] # None
    PROVE  /\ Interactions(te, ratio)[f] \in Int /\ Interactions(te, ratio)[h] \in Int
           /\ Interactions(te, ratio)[f] >= Interactions(te, ratio)[h]
<1> DEFINE kept == Negated(te)
           made == [g \in M |-> Composite(te[g], ratio[g])]
           plain == Normalized(kept)
           composites == Normalized(made)
           known == Interactions(te, ratio)
<1>1. kept \in [M -> Maybe] /\ \A g \in M : kept[g] = IF te[g] = None THEN None ELSE -te[g]
  BY DEF Negated, Maybe
<1>2. made \in [M -> Maybe] /\ \A g \in M : made[g] = Composite(te[g], ratio[g])
  BY CompositeType
<1>3. /\ Profile = "passive_equity" => \A g \in M : known[g] = plain[g]
      /\ Profile = "bond" => \A g \in M :
           known[g] = IF te[g] # None /\ te[g] > BondLimit THEN 0 ELSE plain[g]
      /\ Profile \notin {"passive_equity", "bond"} => \A g \in M :
           known[g] = IF IsNeutral(te[g], ratio[g]) THEN FullMark \div 2 ELSE composites[g]
  BY DEF Interactions
<1>4. \A g \in M : te[g] # None => te[g] \in Nat /\ -te[g] \in Int
  OBVIOUS
<1> HIDE DEF kept, made, known
<1>5. CASE Profile \in {"passive_equity", "bond"}
  <2>1. te[f] = te[h] \/ (te[f] # None /\ te[h] # None /\ -te[f] >= -te[h])
    BY <1>5 DEF Prefers, Preference
  <2>2. AtLeast(kept[f], kept[h])
    BY <1>1, <1>4, <2>1, AbsenceAssumption DEF AtLeast
  <2>3. /\ plain[f] \in Maybe /\ plain[h] \in Maybe /\ AtLeast(plain[f], plain[h])
        /\ plain[f] # None => plain[h] >= 0
    BY <1>1, <2>2, NormalizedOrder
  <2>4. te[f] # None /\ te[h] # None => te[f] \in Nat /\ te[h] \in Nat /\ te[f] <= te[h]
    BY <1>4, <2>1
  <2> HIDE DEF plain
  <2>5. CASE Profile = "passive_equity"
    BY <1>3, <2>3, <2>5 DEF AtLeast, Maybe, known
  <2>6. CASE Profile = "bond"
    BY <1>3, <2>1, <2>3, <2>4, <2>6 DEF AtLeast, Maybe, BondLimit, known
  <2> QED
    BY <1>5, <2>5, <2>6
<1>6. CASE Profile \notin {"passive_equity", "bond"}
  <2>1. /\ made[f] = made[h] /\ (IsNeutral(te[f], ratio[f]) <=> IsNeutral(te[h], ratio[h]))
        \/ /\ made[f] # None /\ made[h] # None /\ made[f] >= made[h]
           /\ ~IsNeutral(te[f], ratio[f]) /\ ~IsNeutral(te[h], ratio[h])
    BY <1>2, <1>6 DEF Prefers, Preference, Composite
  <2>2. AtLeast(made[f], made[h])
    BY <1>2, <2>1 DEF AtLeast, Maybe
  <2>3. composites[f] \in Maybe /\ composites[h] \in Maybe /\ AtLeast(composites[f], composites[h])
    BY <1>2, <2>2, NormalizedOrder
  <2> HIDE DEF composites
  <2>4. FullMark \div 2 = 600
    BY DEF FullMark
  <2> QED
    BY <1>3, <1>6, <2>1, <2>3, <2>4 DEF AtLeast, Maybe, known
<1> QED
  BY <1>5, <1>6

LEMMA Reflexive == \A u \in Maybe : AtLeast(u, u)
BY DEF AtLeast, Maybe

LEMMA NormalizedType ==
    ASSUME NEW M, IsFiniteSet(M), NEW x \in [M -> Maybe]
    PROVE  \A g \in M : Normalized(x)[g] \in Maybe
BY NormalizedOrder, Reflexive

LEMMA NegatedType ==
    ASSUME NEW M, NEW x \in [M -> Nat \cup {None}]
    PROVE  Negated(x) \in [M -> Maybe]
BY DEF Negated, Maybe

LEMMA InteractionType ==
    ASSUME NEW M, IsFiniteSet(M), NEW te \in [M -> Nat \cup {None}], NEW ratio \in [M -> Maybe]
    PROVE  \A g \in M : Interactions(te, ratio)[g] \in Maybe
<1> DEFINE made == [g \in M |-> Composite(te[g], ratio[g])]
<1>1. made \in [M -> Maybe]
  BY CompositeType
<1>2. \A g \in M : Normalized(Negated(te))[g] \in Maybe /\ Normalized(made)[g] \in Maybe
  BY <1>1, NegatedType, NormalizedType
<1>3. \A g \in M : Interactions(te, ratio)[g] \in
        {0, FullMark \div 2, Normalized(Negated(te))[g], Normalized(made)[g]}
  <2>1. Profile \in {"passive_equity", "bond"} \/ Profile \notin {"passive_equity", "bond"}
    OBVIOUS
  <2> QED
    BY <2>1 DEF Interactions
<1>4. 0 \in Maybe /\ FullMark \div 2 \in Maybe
  BY DEF FullMark, Maybe
<1> HIDE DEF made
<1> QED
  BY <1>2, <1>3, <1>4

(* What is scored of a fund, for each metric.                              *)
LEMMA ValuesType ==
    ASSUME NEW M, IsFiniteSet(M), NEW te \in [M -> Nat \cup {None}], NEW ratio \in [M -> Maybe],
           NEW expense \in [M -> Nat \cup {None}], NEW g \in M
    PROVE  \A m \in Metrics : ScoringValues(te, ratio, expense)[m][g] \in Maybe
<1> DEFINE values == ScoringValues(te, ratio, expense)
<1>1. /\ values["TE"][g] = ScoringValue(Interactions(te, ratio)[g], Normalized(Negated(te))[g])
      /\ values["RATIO"][g] = Normalized(ratio)[g]
      /\ values["EXPENSE"][g] = Normalized(Negated(expense))[g]
  BY DEF ScoringValues
<1>2. /\ Interactions(te, ratio)[g] \in Maybe /\ Normalized(Negated(te))[g] \in Maybe
      /\ Normalized(ratio)[g] \in Maybe /\ Normalized(Negated(expense))[g] \in Maybe
  BY InteractionType, NegatedType, NormalizedType
<1> HIDE DEF values
<1> QED
  BY <1>1, <1>2 DEF ScoringValue, Metrics, values

LEMMA ValuesOrder ==
    ASSUME NEW M, IsFiniteSet(M), NEW te \in [M -> Nat \cup {None}], NEW ratio \in [M -> Maybe],
           NEW expense \in [M -> Nat \cup {None}], NEW f \in M, NEW h \in M,
           Interactions(te, ratio)[f] # None, Interactions(te, ratio)[h] # None,
           Prefers(te, ratio, f, h), AtLeast(ratio[f], ratio[h]),
           expense[f] # None, expense[h] # None, expense[f] <= expense[h]
    PROVE  \A m \in Metrics : AtLeast(ScoringValues(te, ratio, expense)[m][f],
                                      ScoringValues(te, ratio, expense)[m][h])
<1> DEFINE values == ScoringValues(te, ratio, expense)
<1>1. \A g \in M :
        /\ values["TE"][g] = ScoringValue(Interactions(te, ratio)[g], Normalized(Negated(te))[g])
        /\ values["RATIO"][g] = Normalized(ratio)[g]
        /\ values["EXPENSE"][g] = Normalized(Negated(expense))[g]
  BY DEF ScoringValues
<1> HIDE DEF values
<1>2. AtLeast(values["TE"][f], values["TE"][h])
  <2>1. /\ values["TE"][f] = Interactions(te, ratio)[f]
        /\ values["TE"][h] = Interactions(te, ratio)[h]
    BY <1>1 DEF ScoringValue
  <2> QED
    BY <2>1, InteractionOrder DEF AtLeast
<1>3. AtLeast(values["RATIO"][f], values["RATIO"][h])
  BY <1>1, NormalizedOrder
<1>4. AtLeast(values["EXPENSE"][f], values["EXPENSE"][h])
  <2>1. AtLeast(Negated(expense)[f], Negated(expense)[h])
    <3>1. /\ Negated(expense)[f] = -expense[f] /\ Negated(expense)[h] = -expense[h]
          /\ expense[f] \in Nat /\ expense[h] \in Nat
      BY DEF Negated
    <3>2. -expense[f] \in Int /\ -expense[h] \in Int /\ -expense[f] >= -expense[h]
      BY <3>1
    <3> QED
      BY <3>1, <3>2, AbsenceAssumption DEF AtLeast
  <2> QED
    BY <1>1, <2>1, NegatedType, NormalizedOrder
<1> QED
  BY <1>2, <1>3, <1>4 DEF Metrics, values

-----------------------------------------------------------------------------
(* The score                                                               *)

(* What the fold of a sum computes of a set: one of its members, and the   *)
(* rest.                                                                   *)
Sums(S, v, sum) ==
    sum = [s \in SUBSET S |-> IF s = {} THEN 0
                              ELSE v[CHOOSE x \in s : TRUE]
                                   + sum[s \ {CHOOSE x \in s : TRUE}]]

(* The sum over metrics.                                                   *)
Part(s, v, m) == IF m \in s THEN v[m] ELSE 0
SumOf(s, v) == Part(s, v, "TE") + Part(s, v, "RATIO") + Part(s, v, "EXPENSE")

LEMMA PartType ==
    ASSUME NEW S \in SUBSET Metrics, NEW v \in [S -> Int], NEW s \in SUBSET S
    PROVE  /\ \A m \in Metrics : Part(s, v, m) \in Int
           /\ SumOf(s, v) \in Int
BY DEF Part, SumOf, Metrics

LEMMA OneLess ==
    ASSUME NEW S \in SUBSET Metrics, NEW v \in [S -> Int], NEW s \in SUBSET S, NEW x \in s
    PROVE  SumOf(s, v) = v[x] + SumOf(s \ {x}, v)
<1>1. /\ Part(s, v, x) = v[x] /\ Part(s \ {x}, v, x) = 0 /\ v[x] \in Int
      /\ \A m \in Metrics : m # x => Part(s \ {x}, v, m) = Part(s, v, m)
      /\ \A m \in Metrics : Part(s, v, m) \in Int
      /\ x \in Metrics
  BY PartType DEF Part
<1>2. CASE x = "TE"
  BY <1>1, <1>2 DEF SumOf, Metrics
<1>3. CASE x = "RATIO"
  BY <1>1, <1>3 DEF SumOf, Metrics
<1>4. CASE x = "EXPENSE"
  BY <1>1, <1>4 DEF SumOf, Metrics
<1> QED
  BY <1>1, <1>2, <1>3, <1>4 DEF Metrics

LEMMA MetricSum ==
    ASSUME NEW S \in SUBSET Metrics, NEW v \in [S -> Int]
    PROVE  /\ \E sum : Sums(S, v, sum)
           /\ \A sum : Sums(S, v, sum) => sum[S] = SumOf(S, v)
<1>0. \A s : s # {} => (CHOOSE x \in s : TRUE) \in s
  OBVIOUS
<1>1. \E sum : Sums(S, v, sum)
  <2> DEFINE g == [s \in SUBSET S |-> SumOf(s, v)]
  <2>1. SumOf({}, v) = 0
    BY DEF SumOf, Part
  <2>2. ASSUME NEW s \in SUBSET S, s # {}
        PROVE  g[s] = v[CHOOSE x \in s : TRUE] + g[s \ {CHOOSE x \in s : TRUE}]
    <3> PICK x : x = (CHOOSE y \in s : TRUE)
      OBVIOUS
    <3>1. x \in s
      BY <1>0, <2>2
    <3>2. s \ {x} \in SUBSET S
      OBVIOUS
    <3>3. g[s] = v[x] + g[s \ {x}]
      BY <3>1, <3>2, OneLess
    <3> QED
      BY <3>3
  <2>3. Sums(S, v, g)
    BY <2>1, <2>2 DEF Sums
  <2> QED
    BY <2>3
<1>2. ASSUME NEW sum, Sums(S, v, sum)
      PROVE  sum[S] = SumOf(S, v)
  <2>1. ASSUME NEW s \in SUBSET S, s # {},
               \A x \in s : sum[s \ {x}] = SumOf(s \ {x}, v)
        PROVE  sum[s] = SumOf(s, v)
    <3> PICK x : x = (CHOOSE y \in s : TRUE)
      OBVIOUS
    <3>1. x \in s
      BY <1>0, <2>1
    <3>2. sum[s] = v[x] + sum[s \ {x}]
      BY <1>2, <2>1 DEF Sums
    <3>3. SumOf(s, v) = v[x] + SumOf(s \ {x}, v)
      BY <3>1, OneLess
    <3> QED
      BY <2>1, <3>1, <3>2, <3>3
  <2>2. sum[{}] = SumOf({}, v)
    BY <1>2 DEF Sums, SumOf, Part
  <2>3. \A a \in S : sum[{a}] = SumOf({a}, v)
    <3> TAKE a \in S
    <3>1. {a} \in SUBSET S /\ {a} # {} /\ \A x \in {a} : {a} \ {x} = {}
      OBVIOUS
    <3> QED
      BY <2>1, <2>2, <3>1
  <2>4. \A a, b \in S : sum[{a, b}] = SumOf({a, b}, v)
    <3> TAKE a, b \in S
    <3>1. {a, b} \in SUBSET S /\ {a, b} # {}
          /\ \A x \in {a, b} : {a, b} \ {x} \in {{}, {a}, {b}}
      OBVIOUS
    <3>2. \A x \in {a, b} : sum[{a, b} \ {x}] = SumOf({a, b} \ {x}, v)
      BY <2>2, <2>3, <3>1
    <3> QED
      BY <2>1, <3>1, <3>2
  <2>5. \A a, b, c \in S : sum[{a, b, c}] = SumOf({a, b, c}, v)
    <3> TAKE a, b, c \in S
    <3>1. {a, b, c} \in SUBSET S /\ {a, b, c} # {}
          /\ \A x \in {a, b, c} :
               {a, b, c} \ {x} \in {{}, {a}, {b}, {c}, {a, b}, {a, c}, {b, c}}
      OBVIOUS
    <3>2. \A t \in {{}, {a}, {b}, {c}, {a, b}, {a, c}, {b, c}} : sum[t] = SumOf(t, v)
      BY <2>2, <2>3, <2>4
    <3>3. \A x \in {a, b, c} : sum[{a, b, c} \ {x}] = SumOf({a, b, c} \ {x}, v)
      BY <3>1, <3>2
    <3> QED
      BY <2>1, <3>1, <3>3
  <2>6. \/ S = {} \/ (\E a \in S : S = {a}) \/ (\E a, b \in S : S = {a, b})
        \/ (\E a, b, c \in S : S = {a, b, c})
    <3>1. CASE \E a, b, c \in S : {a, b, c} = Metrics
      <4> PICK a \in S, b \in S, c \in S : {a, b, c} = Metrics
        BY <3>1
      <4>1. S = {a, b, c}
        OBVIOUS
      <4> QED
        BY <4>1
    <3>2. CASE \E m \in Metrics : m \notin S
      <4> PICK m \in Metrics : m \notin S
        BY <3>2
      <4> PICK a \in Metrics, b \in Metrics : Metrics = {a, b, m}
        BY DEF Metrics
      <4>1. S \subseteq {a, b}
        OBVIOUS
      <4>2. CASE a \in S
        BY <4>1, <4>2
      <4>3. CASE a \notin S
        BY <4>1, <4>3
      <4> QED
        BY <4>2, <4>3
    <3> QED
      BY <3>1, <3>2 DEF Metrics
  <2>7. CASE S = {}
    BY <2>2, <2>7
  <2>8. CASE \E a \in S : S = {a}
    BY <2>3, <2>8
  <2>9. CASE \E a, b \in S : S = {a, b}
    BY <2>4, <2>9
  <2>10. CASE \E a, b, c \in S : S = {a, b, c}
    BY <2>5, <2>10
  <2> QED
    BY <2>6, <2>7, <2>8, <2>9, <2>10
<1> QED
  BY <1>1, <1>2

LEMMA WeightSum ==
    ASSUME NEW S \in SUBSET Metrics
    PROVE  TotalWeight(S) = SumOf(S, [m \in S |-> Weight[m]])
<1> DEFINE v == [m \in S |-> Weight[m]]
           Rule(g) == g = [t \in SUBSET S |-> IF t = {} THEN 0
                              ELSE Weight[CHOOSE x \in t : TRUE]
                                   + g[t \ {CHOOSE x \in t : TRUE}]]
           sum == CHOOSE g : Rule(g)
<1>1. \A t \in SUBSET S : t # {} => (CHOOSE x \in t : TRUE) \in S
  OBVIOUS
<1>2. ASSUME NEW g PROVE Rule(g) <=> Sums(S, v, g)
  <2>1. \A t \in SUBSET S : t # {} => v[CHOOSE x \in t : TRUE] = Weight[CHOOSE x \in t : TRUE]
    BY <1>1
  <2> QED
    BY <2>1 DEF Sums
<1>3. v \in [S -> Int]
  BY ScoringAssumption
<1> HIDE DEF v, Rule
<1>4. Sums(S, v, sum)
  BY <1>2, <1>3, MetricSum
<1>5. TotalWeight(S) = sum[S]
  BY DEF TotalWeight, MapThenSumSet, MapThenFoldSet, Rule
<1> HIDE DEF sum
<1> QED
  BY <1>3, <1>4, <1>5, MetricSum DEF v

(* The sum that a score has of a fund.                                     *)
Weighted(values, f, S) == MapThenSumSet(LAMBDA m : values[m][f] * Weight[m], S)

LEMMA ValueSum ==
    ASSUME NEW values, NEW f, NEW S \in SUBSET Metrics, \A m \in S : values[m][f] \in Int
    PROVE  Weighted(values, f, S) = SumOf(S, [m \in S |-> values[m][f] * Weight[m]])
<1> DEFINE v == [m \in S |-> values[m][f] * Weight[m]]
           Rule(g) == g = [t \in SUBSET S |-> IF t = {} THEN 0
                              ELSE values[CHOOSE x \in t : TRUE][f] * Weight[CHOOSE x \in t : TRUE]
                                   + g[t \ {CHOOSE x \in t : TRUE}]]
           sum == CHOOSE g : Rule(g)
<1>1. \A t \in SUBSET S : t # {} => (CHOOSE x \in t : TRUE) \in S
  OBVIOUS
<1>2. ASSUME NEW g PROVE Rule(g) <=> Sums(S, v, g)
  <2>1. \A t \in SUBSET S : t # {} =>
          v[CHOOSE x \in t : TRUE]
            = values[CHOOSE x \in t : TRUE][f] * Weight[CHOOSE x \in t : TRUE]
    BY <1>1
  <2> QED
    BY <2>1 DEF Sums
<1>3. v \in [S -> Int]
  <2>1. \A a, b \in Int : a * b \in Int
    OBVIOUS
  <2> QED
    BY <2>1, ScoringAssumption
<1> HIDE DEF v, Rule
<1>4. Sums(S, v, sum)
  BY <1>2, <1>3, MetricSum
<1>5. Weighted(values, f, S) = sum[S]
  BY DEF Weighted, MapThenSumSet, MapThenFoldSet, Rule
<1> HIDE DEF sum
<1> QED
  BY <1>3, <1>4, <1>5, MetricSum DEF v

LEMMA ScoreOrder ==
    ASSUME NEW values, NEW verdict, NEW f, NEW h,
           \A m \in Metrics : /\ values[m][f] \in Maybe /\ values[m][h] \in Maybe
                              /\ AtLeast(values[m][f], values[m][h])
    PROVE  /\ Score(values, verdict, f) \in Maybe
           /\ AtLeast(Score(values, verdict, f), Score(values, verdict, h))
<1> PICK U : U = Usable(values, verdict, f)
  OBVIOUS
<1> DEFINE available(e) == {m \in Metrics : values[m][e] # None}
           vf == [m \in U |-> values[m][f] * Weight[m]]
           vh == [m \in U |-> values[m][h] * Weight[m]]
           factor == Whole \div TotalWeight(U)
           few == \/ \E m \in Metrics : verdict[m] = "VALIDATION_PENDING"
                  \/ Cardinality(U) < MinimumFactors
                  \/ 100 * Cardinality(available(f)) < MinimumCompleteness * Cardinality(Metrics)
<1>1. U \in SUBSET Metrics /\ U = Usable(values, verdict, h) /\ available(f) = available(h)
  BY DEF Usable, AtLeast
<1>2. /\ Score(values, verdict, f) = IF few THEN None ELSE Weighted(values, f, U) * factor
      /\ Score(values, verdict, h) = IF few THEN None ELSE Weighted(values, h, U) * factor
  BY <1>1 DEF Score, Weighted
<1> HIDE DEF factor
<1>3. CASE few
  BY <1>2, <1>3 DEF AtLeast, Maybe
<1>4. CASE ~few
  <2>1. /\ \A m \in U : values[m][f] \in Int /\ values[m][h] \in Int /\ values[m][f] >= values[m][h]
    BY <1>1 DEF Usable, AtLeast, Maybe
  <2>2. U # {}
    <3>1. ~(Cardinality(U) < MinimumFactors)
      BY <1>4
    <3> QED
      BY <3>1, FS_EmptySet, ScoringAssumption
  <2>3. \A m \in U : Weight[m] \in Nat /\ Weight[m] > 0
    BY <1>1, ScoringAssumption
  <2>4. factor \in Nat
    <3> DEFINE w == [m \in U |-> Weight[m]]
    <3>1. /\ \A m \in Metrics : Part(U, w, m) \in Nat
          /\ \A m \in U : Part(U, w, m) > 0
      BY <2>3 DEF Part
    <3> HIDE DEF w
    <3>2. PICK m \in Metrics : Part(U, w, m) > 0
      BY <1>1, <2>2, <3>1
    <3>3. SumOf(U, w) \in Nat /\ SumOf(U, w) > 0
      <4> DEFINE a == Part(U, w, "TE")
                 b == Part(U, w, "RATIO")
                 c == Part(U, w, "EXPENSE")
      <4>1. a \in Nat /\ b \in Nat /\ c \in Nat /\ (a > 0 \/ b > 0 \/ c > 0)
        BY <3>1, <3>2 DEF Metrics
      <4>2. SumOf(U, w) = a + b + c
        BY DEF SumOf
      <4> HIDE DEF a, b, c
      <4> QED
        BY <4>1, <4>2
    <3>4. TotalWeight(U) = SumOf(U, w)
      BY <1>1, WeightSum DEF w
    <3>5. \A t \in Nat : t > 0 => 60 \div t \in Nat
      OBVIOUS
    <3> QED
      BY <3>3, <3>4, <3>5 DEF factor, Whole
  <2>5. \A m \in U : vf[m] \in Int /\ vh[m] \in Int /\ vf[m] >= vh[m]
    <3>1. \A a, b \in Int, w \in Nat : a >= b => a * w \in Int /\ b * w \in Int /\ a * w >= b * w
      OBVIOUS
    <3> QED
      BY <2>1, <2>3, <3>1
  <2> DEFINE p == Weighted(values, f, U)
             q == Weighted(values, h, U)
  <2>6. p = SumOf(U, vf) /\ q = SumOf(U, vh)
    BY <1>1, <2>1, ValueSum
  <2>7. p \in Int /\ q \in Int /\ p >= q
    <3> HIDE DEF p, q
    <3>1. \A m \in Metrics : /\ Part(U, vf, m) \in Int /\ Part(U, vh, m) \in Int
                             /\ Part(U, vf, m) >= Part(U, vh, m)
      BY <2>5 DEF Part
    <3> HIDE DEF vf, vh
    <3> QED
      BY <2>6, <3>1 DEF SumOf, Metrics
  <2> HIDE DEF p, q
  <2>8. p * factor \in Int /\ q * factor \in Int /\ p * factor >= q * factor
    BY <2>4, <2>7
  <2>9. Score(values, verdict, f) = p * factor /\ Score(values, verdict, h) = q * factor
    BY <1>2, <1>4 DEF p, q
  <2> QED
    BY <2>8, <2>9, AbsenceAssumption DEF AtLeast, Maybe
<1> QED
  BY <1>3, <1>4

-----------------------------------------------------------------------------
(* Ranks, tiers and the universe                                           *)

LEMMA RanksOrder ==
    ASSUME NEW M, IsFiniteSet(M), NEW scores \in [M -> Maybe],
           NEW f \in M, NEW h \in M, AtLeast(scores[f], scores[h])
    PROVE  /\ Ranks(scores)[f] = None <=> Ranks(scores)[h] = None
           /\ Ranks(scores)[f] # None =>
                /\ Ranks(scores)[f] \in Nat /\ Ranks(scores)[h] \in Nat
                /\ Ranks(scores)[f] <= Ranks(scores)[h]
<1> DEFINE known == Known(scores)
           few == Cardinality(DOMAIN known) < MinimumSample
<1>1. \A g \in M : Ranks(scores)[g] =
        IF few \/ scores[g] = None THEN None ELSE DoubledRank(known, g)
  BY DEF Ranks
<1>2. CASE few \/ scores[f] = None
  BY <1>1, <1>2 DEF AtLeast
<1>3. CASE ~few /\ scores[f] # None
  <2>1. scores[h] # None /\ scores[f] >= scores[h]
    BY <1>3 DEF AtLeast
  <2>2. \A g \in M : scores[g] # None => g \in DOMAIN known /\ known[g] = scores[g]
    BY KnownType
  <2>3. known \in [DOMAIN known -> Int] /\ IsFiniteSet(DOMAIN known)
    BY KnownType
  <2> HIDE DEF known
  <2>4. f \in DOMAIN known /\ h \in DOMAIN known /\ known[f] >= known[h]
    BY <1>3, <2>1, <2>2
  <2>5. /\ DoubledRank(known, f) \in Nat /\ DoubledRank(known, h) \in Nat
        /\ DoubledRank(known, f) <= DoubledRank(known, h)
    BY <2>3, <2>4, RankOrder
  <2>6. DoubledRank(known, f) # None /\ DoubledRank(known, h) # None
    BY <2>5, AbsenceAssumption
  <2>7. Ranks(scores)[f] = DoubledRank(known, f) /\ Ranks(scores)[h] = DoubledRank(known, h)
    BY <1>1, <1>3, <2>1
  <2> QED
    BY <2>5, <2>6, <2>7
<1> QED
  BY <1>2, <1>3

(* A better rank has a tier that the universe admits too.                  *)
LEMMA TierOrder ==
    ASSUME NEW n \in Nat, NEW a \in Nat, NEW b \in Nat, a <= b,
           AdmitsTheBest, Tier(b, n) \in EligibleTiers
    PROVE  Tier(a, n) \in EligibleTiers
<1>1. a # None /\ b # None
  BY AbsenceAssumption
<1>2. None \notin EligibleTiers
  BY AbsenceAssumption, ScoringAssumption
<1>3. ~(n < MinimumSample)
  BY <1>2 DEF Tier
<1>4. /\ "B" \in EligibleTiers => "A" \in EligibleTiers
      /\ "C" \in EligibleTiers => "A" \in EligibleTiers /\ "B" \in EligibleTiers
      /\ "D" \in EligibleTiers =>
           "A" \in EligibleTiers /\ "B" \in EligibleTiers /\ "C" \in EligibleTiers
  <2>1. /\ BestFirst[1] = "A" /\ BestFirst[2] = "B" /\ BestFirst[3] = "C" /\ BestFirst[4] = "D"
    BY DEF BestFirst
  <2>2. /\ 1 \in 1..2 /\ 1 \in 1..3 /\ 2 \in 1..3 /\ 1 \in 1..4 /\ 2 \in 1..4 /\ 3 \in 1..4
        /\ 4 \in 1..4
    OBVIOUS
  <2> QED
    BY <2>1, <2>2 DEF AdmitsTheBest
<1>5. /\ 10 * b <= 2 * 2 * n => 10 * a <= 2 * 2 * n
      /\ 10 * b <= 5 * 2 * n => 10 * a <= 5 * 2 * n
      /\ 10 * b <= 8 * 2 * n => 10 * a <= 8 * 2 * n
  OBVIOUS
<1> QED
  BY <1>1, <1>3, <1>4, <1>5 DEF Tier

-----------------------------------------------------------------------------
(* The rows of a group                                                     *)

Observations == [te : Nat \cup {None}, ratio : Maybe]

(* The rows hold what was computed from the inputs they hold.              *)
ValuesOf(r) == ScoringValues(Column(r.inputs, "te"), Column(r.inputs, "ratio"), r.expense)
IsEvaluated(r) ==
  /\ r.members \subseteq Funds
  /\ r.inputs \in [r.members -> Observations]
  /\ r.expense \in [r.members -> Nat \cup {None}]
  /\ r.ranks = Ranks([f \in r.members |-> Score(ValuesOf(r), Verdict(r.evidence), f)])
  /\ r.tiers = Tiers(r.ranks)
  /\ r.selected = Selected(r.tiers)

LEMMA RowOrder ==
    ASSUME NEW r, IsEvaluated(r), NEW f \in r.members, NEW h \in r.members,
           AtLeastAsGood(r, f, h)
    PROVE  /\ r.ranks[h] # None => r.ranks[f] # None /\ r.ranks[f] <= r.ranks[h]
           /\ AdmitsTheBest /\ h \in r.selected => f \in r.selected
<1> PICK M : M = r.members
  OBVIOUS
<1> PICK te : te = Column(r.inputs, "te")
  OBVIOUS
<1> PICK ratio : ratio = Column(r.inputs, "ratio")
  OBVIOUS
<1> PICK expense : expense = r.expense
  OBVIOUS
<1> PICK values : values = ScoringValues(te, ratio, expense)
  OBVIOUS
<1> PICK scores : scores = [e \in M |-> Score(values, Verdict(r.evidence), e)]
  OBVIOUS
<1>1. IsFiniteSet(M) /\ f \in M /\ h \in M
  BY EvaluationAssumption, FS_Subset DEF IsEvaluated
<1>2. /\ te \in [M -> Nat \cup {None}] /\ ratio \in [M -> Maybe]
      /\ expense \in [M -> Nat \cup {None}]
      /\ \A e \in M : te[e] = r.inputs[e].te /\ ratio[e] = r.inputs[e].ratio
  BY DEF IsEvaluated, Observations, Column
<1>3. /\ Interactions(te, ratio)[f] # None /\ Interactions(te, ratio)[h] # None
      /\ expense[f] # None /\ expense[h] # None /\ expense[f] <= expense[h]
  BY DEF AtLeastAsGood
<1>4. /\ \/ te[f] = te[h] /\ ratio[f] = ratio[h]
         \/ /\ None \notin {Preference(te[f], ratio[f]), Preference(te[h], ratio[h]),
                            ratio[f], ratio[h]}
            /\ Preference(te[f], ratio[f]) >= Preference(te[h], ratio[h])
            /\ ratio[f] >= ratio[h]
  BY <1>1, <1>2 DEF AtLeastAsGood
<1>5. Prefers(te, ratio, f, h)
  BY <1>4 DEF Prefers
<1>6. AtLeast(ratio[f], ratio[h])
  BY <1>1, <1>2, <1>4, Reflexive DEF AtLeast
<1>7. \A m \in Metrics : /\ \A e \in M : values[m][e] \in Maybe
                         /\ AtLeast(values[m][f], values[m][h])
  BY <1>1, <1>2, <1>3, <1>5, <1>6, ValuesType, ValuesOrder
<1>8. scores \in [M -> Maybe]
  BY <1>7, Reflexive, ScoreOrder
<1>9. AtLeast(scores[f], scores[h])
  BY <1>1, <1>7, ScoreOrder
<1>10. r.ranks = Ranks(scores) /\ r.tiers = Tiers(r.ranks) /\ r.selected = Selected(r.tiers)
  BY DEF IsEvaluated, ValuesOf
<1>11. /\ r.ranks[f] = None <=> r.ranks[h] = None
       /\ r.ranks[f] # None => /\ r.ranks[f] \in Nat /\ r.ranks[h] \in Nat
                               /\ r.ranks[f] <= r.ranks[h]
  BY <1>1, <1>8, <1>9, <1>10, RanksOrder
<1>12. ASSUME AdmitsTheBest, h \in r.selected
       PROVE  f \in r.selected
  <2> PICK n : n = Cardinality({e \in DOMAIN r.ranks : r.ranks[e] # None})
    OBVIOUS
  <2>1. DOMAIN r.ranks = M
    BY <1>8, <1>10 DEF Ranks
  <2>2. n \in Nat
    <3>1. {e \in DOMAIN r.ranks : r.ranks[e] # None} \subseteq M
      BY <2>1
    <3>2. IsFiniteSet({e \in DOMAIN r.ranks : r.ranks[e] # None})
      BY <1>1, <3>1, FS_Subset
    <3> QED
      BY <3>2, FS_CardinalityType
  <2>3. \A e \in M : e \in r.selected <=> Tier(r.ranks[e], n) \in EligibleTiers
    BY <1>10, <2>1 DEF Selected, Tiers
  <2>4. Tier(r.ranks[h], n) \in EligibleTiers
    BY <1>1, <1>12, <2>3
  <2>5. r.ranks[h] # None
    BY <2>4, AbsenceAssumption, ScoringAssumption DEF Tier
  <2>6. Tier(r.ranks[f], n) \in EligibleTiers
    BY <1>11, <1>12, <2>2, <2>4, <2>5, TierOrder
  <2> QED
    BY <1>1, <2>3, <2>6
<1> QED
  BY <1>11, <1>12

(* Every evaluation that is stored or about to be is of the values it      *)
(* holds, whatever the data have become.                                   *)
DraftInv(c) ==
  pc[c] # "idle" => \A g \in DOMAIN draft[c] :
    /\ draft[c][g].members \subseteq Funds
    /\ Valued(c) => draft[c][g].inputs \in [draft[c][g].members -> Observations]
    /\ pc[c] = "commit" => IsEvaluated(draft[c][g])

RowsInv ==
  /\ data \in [Funds -> Data]
  /\ \A d \in Decisions, g \in Groups : stored[d][g] # None => IsEvaluated(stored[d][g])
  /\ \A c \in Callers : DraftInv(c)

LEMMA DraftKept ==
    ASSUME NEW c \in Callers, DraftInv(c), pc'[c] = pc[c], draft'[c] = draft[c]
    PROVE  DraftInv(c)'
BY DEF DraftInv, Valued, IsEvaluated, ValuesOf

(* A step of one caller that stores nothing. *)
LEMMA OneDraft ==
    ASSUME IInv, RowsInv, NEW c \in Callers, NEW p \in Steps, NEW t, NEW x,
           pc' = [pc EXCEPT ![c] = p], task' = [task EXCEPT ![c] = t],
           draft' = [draft EXCEPT ![c] = x], stored' = stored, data' = data,
           p # "idle" => \A g \in DOMAIN x :
             /\ x[g].members \subseteq Funds
             /\ p \in {"scores", "commit"} => x[g].inputs \in [x[g].members -> Observations]
             /\ p = "commit" => IsEvaluated(x[g])
    PROVE  RowsInv'
<1>1. /\ pc'[c] = p /\ draft'[c] = x
      /\ \A b \in Callers \ {c} : pc'[b] = pc[b] /\ draft'[b] = draft[b]
  BY Assigned DEF IInv
<1>2. DraftInv(c)'
  BY <1>1 DEF DraftInv, Valued, IsEvaluated, ValuesOf
<1>3. \A b \in Callers : DraftInv(b)'
  BY <1>1, <1>2, DraftKept DEF RowsInv
<1>4. \A d \in Decisions, g \in Groups :
        (stored[d][g] # None => IsEvaluated(stored[d][g]))'
  BY DEF RowsInv, IsEvaluated, ValuesOf
<1> QED
  BY <1>3, <1>4 DEF RowsInv

LEMMA BeginEvaluates ==
    ASSUME IInv, RowsInv, NEW c \in Callers, NEW d \in Decisions, Begin(c, d)
    PROVE  RowsInv'
<1> PICK gs \in SUBSET Groups : gs = {g \in Groups : Members(g) # {}}
  OBVIOUS
<1> DEFINE x == [g \in gs |-> [members |-> Snapshot(d, g), new |-> stored[d][g] = None]]
<1>1. /\ pc' = [pc EXCEPT ![c] = "insert"] /\ task' = [task EXCEPT ![c] = d]
      /\ draft' = [draft EXCEPT ![c] = x] /\ stored' = stored /\ data' = data
      /\ "insert" \in Steps
  BY DEF Begin, Steps, world
<1>2. \A g \in gs : Snapshot(d, g) \subseteq Funds
  BY DEF Snapshot, Members, RowsInv, IsEvaluated
<1>3. \A g \in DOMAIN x : x[g].members \subseteq Funds
  BY <1>2
<1> HIDE DEF x
<1> QED
  BY <1>1, <1>3, OneDraft

LEMMA InsertEvaluates ==
    ASSUME IInv, RowsInv, NEW c \in Callers, InsertGroups(c)
    PROVE  RowsInv'
<1> PICK t : t = task[c]
  OBVIOUS
<1> PICK x : x = [g \in DOMAIN draft[c] |-> [members |-> draft[c][g].members]]
  OBVIOUS
<1>1. /\ pc' = [pc EXCEPT ![c] = "factors"] /\ task' = [task EXCEPT ![c] = t]
      /\ draft' = [draft EXCEPT ![c] = x] /\ stored' = stored /\ data' = data
      /\ "factors" \in Steps /\ pc[c] = "insert"
  BY DEF InsertGroups, Steps, IInv, Shape, world
<1>2. \A g \in DOMAIN x : x[g].members \subseteq Funds
  BY <1>1 DEF RowsInv, DraftInv
<1> QED
  BY <1>1, <1>2, OneDraft

LEMMA FactorsEvaluate ==
    ASSUME IInv, RowsInv, NEW c \in Callers, CalculateFactors(c)
    PROVE  RowsInv'
<1> PICK t : t = task[c]
  OBVIOUS
<1> PICK x : x = [g \in DOMAIN draft[c] |->
                    [members |-> draft[c][g].members,
                     inputs |-> [e \in DOMAIN draft[c] |-> Inputs(draft[c][e].members)][g],
                     evidence |-> Detail]]
  OBVIOUS
<1>1. /\ pc' = [pc EXCEPT ![c] = "scores"] /\ task' = [task EXCEPT ![c] = t]
      /\ draft' = [draft EXCEPT ![c] = x] /\ stored' = stored /\ data' = data
      /\ "scores" \in Steps /\ pc[c] = "factors"
  BY DEF CalculateFactors, Steps, IInv, Shape, world
<1>2. \A f \in Funds : Observed(f) \in Observations
  <2>1. \A f \in Funds : /\ data[f].te \in Nat \cup {None}
                         /\ data[f].ratio \in Int \cup {None}
    BY EvaluationAssumption DEF RowsInv
  <2> QED
    BY <2>1 DEF Observed, Observations, Maybe
<1>3. ASSUME NEW g \in DOMAIN x
      PROVE  /\ x[g].members \subseteq Funds
             /\ x[g].inputs \in [x[g].members -> Observations]
  <2>1. /\ x[g].members = draft[c][g].members /\ g \in DOMAIN draft[c]
        /\ x[g].inputs = Inputs(draft[c][g].members)
    OBVIOUS
  <2>2. draft[c][g].members \subseteq Funds
    BY <1>1, <2>1 DEF RowsInv, DraftInv
  <2> QED
    BY <1>2, <2>1, <2>2 DEF Inputs
<1> QED
  BY <1>1, <1>3, OneDraft

LEMMA ScoresEvaluate ==
    ASSUME IInv, RowsInv, NEW c \in Callers, CalculateScores(c)
    PROVE  RowsInv'
<1> PICK t : t = task[c]
  OBVIOUS
<1> PICK old : old = draft[c]
  OBVIOUS
<1> PICK x : x = [g \in DOMAIN old |->
           Evaluated(old[g].members, old[g].inputs, old[g].evidence,
                     [f \in old[g].members |-> data[f].expense])]
  OBVIOUS
<1>1. /\ pc' = [pc EXCEPT ![c] = "commit"] /\ task' = [task EXCEPT ![c] = t]
      /\ draft' = [draft EXCEPT ![c] = x] /\ stored' = stored /\ data' = data
      /\ "commit" \in Steps /\ pc[c] = "scores"
  BY DEF CalculateScores, Steps, IInv, Shape, world
<1>2. ASSUME NEW g \in DOMAIN x
      PROVE  IsEvaluated(x[g])
  <2> PICK members : members = old[g].members
    OBVIOUS
  <2> PICK expense : expense = [f \in members |-> data[f].expense]
    OBVIOUS
  <2>1. members \subseteq Funds /\ old[g].inputs \in [members -> Observations]
    BY <1>1 DEF RowsInv, DraftInv, Valued
  <2>2. expense \in [members -> Nat \cup {None}]
    <3>1. \A f \in Funds : data[f].expense \in Nat \cup {None}
      BY EvaluationAssumption DEF RowsInv
    <3> QED
      BY <2>1, <3>1
  <2>3. x[g] = Evaluated(members, old[g].inputs, old[g].evidence, expense)
    OBVIOUS
  <2> QED
    BY <2>1, <2>2, <2>3 DEF Evaluated, Rows, IsEvaluated, ValuesOf
<1>3. ASSUME NEW g \in DOMAIN x
      PROVE  /\ x[g].members \subseteq Funds
             /\ x[g].inputs \in [x[g].members -> Observations]
  <2> PICK r : r = x[g]
    OBVIOUS
  <2>1. IsEvaluated(r)
    BY <1>2
  <2>2. r.members \subseteq Funds /\ r.inputs \in [r.members -> Observations]
    BY <2>1 DEF IsEvaluated
  <2> QED
    BY <2>2
<1>4. \A g \in DOMAIN x :
        /\ x[g].members \subseteq Funds
        /\ x[g].inputs \in [x[g].members -> Observations]
        /\ IsEvaluated(x[g])
  BY <1>2, <1>3
<1> QED
  BY <1>1, <1>4, OneDraft

LEMMA CommitEvaluates ==
    ASSUME IInv, RowsInv, NEW c \in Callers, Commit(c)
    PROVE  RowsInv'
<1>1. /\ pc' = [pc EXCEPT ![c] = "idle"] /\ task' = [task EXCEPT ![c] = None]
      /\ draft' = [draft EXCEPT ![c] = <<>>] /\ "idle" \in Steps /\ data' = data
  BY DEF Commit, Leave, Steps, world
<1>2. /\ pc'[c] = "idle"
      /\ \A b \in Callers \ {c} : pc'[b] = pc[b] /\ draft'[b] = draft[b]
  BY <1>1, Assigned DEF IInv
<1>3. \A b \in Callers : DraftInv(b)'
  <2>1. DraftInv(c)'
    BY <1>2 DEF DraftInv
  <2> QED
    BY <1>2, <2>1, DraftKept DEF RowsInv
<1>4. ASSUME NEW d \in Decisions, NEW g \in Groups, stored'[d][g] # None
      PROVE  IsEvaluated(stored'[d][g])
  <2>1. CASE stored'[d][g] = stored[d][g]
    BY <1>4, <2>1 DEF RowsInv
  <2>2. CASE g \in Fresh(c) /\ stored'[d][g] = draft[c][g]
    BY <2>2, CommitAdds DEF RowsInv, DraftInv
  <2> QED
    BY <1>4, <2>1, <2>2, CommitAdds
<1>5. \A d \in Decisions, g \in Groups :
        (stored[d][g] # None => IsEvaluated(stored[d][g]))'
  BY <1>4 DEF IsEvaluated, ValuesOf
<1> QED
  BY <1>1, <1>3, <1>5 DEF RowsInv

LEMMA InitRows == Init => RowsInv
BY DEF Init, RowsInv, DraftInv

LEMMA NextRows == IInv /\ RowsInv /\ [Next]_vars => RowsInv'
<1> SUFFICES ASSUME IInv, RowsInv, [Next]_vars
             PROVE  RowsInv'
  OBVIOUS
<1>1. ASSUME NEW c \in Callers, Fail(c)
      PROVE  RowsInv'
  <2>1. /\ pc' = [pc EXCEPT ![c] = "idle"] /\ task' = [task EXCEPT ![c] = None]
        /\ draft' = [draft EXCEPT ![c] = <<>>] /\ stored' = stored /\ data' = data
        /\ "idle" \in Steps
    BY <1>1 DEF Fail, Leave, Steps, world
  <2> QED
    BY <2>1, OneDraft
<1>2. ASSUME NEW c \in Callers, Run(c)
      PROVE  RowsInv'
  BY <1>1, <1>2, BeginEvaluates, InsertEvaluates, FactorsEvaluate, ScoresEvaluate,
     CommitEvaluates DEF Run
<1>3. ASSUME UNCHANGED <<stored, pc, draft>>, data' \in [Funds -> Data]
      PROVE  RowsInv'
  <2>1. \A c \in Callers : DraftInv(c)'
    BY <1>3, DraftKept DEF RowsInv
  <2>2. \A d \in Decisions, g \in Groups :
          (stored[d][g] # None => IsEvaluated(stored[d][g]))'
    BY <1>3 DEF RowsInv, IsEvaluated, ValuesOf
  <2> QED
    BY <1>3, <2>1, <2>2 DEF RowsInv
<1>4. data \in [Funds -> Data]
  BY DEF RowsInv
<1>5. ASSUME NEW f \in Funds, NEW r \in Data, Revise(f, r)
      PROVE  RowsInv'
  BY <1>3, <1>4, <1>5 DEF Revise
<1>6. ASSUME NEW f \in Funds, NEW g \in Groups \cup {None}, Regroup(f, g)
      PROVE  RowsInv'
  BY <1>3, <1>4, <1>6 DEF Regroup
<1>7. ASSUME NEW e \in Evidence, Revalidate(e)
      PROVE  RowsInv'
  BY <1>3, <1>4, <1>7 DEF Revalidate
<1>8. CASE UNCHANGED vars
  BY <1>3, <1>4, <1>8 DEF vars
<1> QED
  BY <1>2, <1>5, <1>6, <1>7, <1>8 DEF Next

(* A fund that is at least as good as another of its group - its ratio is  *)
(* no smaller, it is not dearer, and its tracking error is preferred by    *)
(* the rule of the profile - is never ranked behind it, and is selected if *)
(* the other is, however the group is composed, for every profile, weight  *)
(* and threshold.                                                          *)
THEOREM BetterIsNeverWorse == Spec => []BetterIsNotWorse
<1>1. RowsInv => BetterIsNotWorse
  <2> SUFFICES ASSUME RowsInv, NEW r \in Stored, NEW f \in r.members, NEW h \in r.members,
                      AtLeastAsGood(r, f, h)
               PROVE  /\ r.ranks[h] # None => r.ranks[f] # None /\ r.ranks[f] <= r.ranks[h]
                      /\ AdmitsTheBest /\ h \in r.selected => f \in r.selected
    BY DEF BetterIsNotWorse
  <2>1. IsEvaluated(r)
    BY DEF Stored, RowsInv
  <2> QED
    BY <2>1, RowOrder
<1> QED
  BY <1>1, Invariance, InitRows, NextRows, PTL DEF Spec
=============================================================================
