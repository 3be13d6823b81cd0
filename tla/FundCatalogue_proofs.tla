------------------------- MODULE FundCatalogue_proofs -------------------------
(***************************************************************************)
(* Proofs about FundCatalogue, for any lists, jobs, reports and workers: a *)
(* mapped code is not moved, every answer is kept once, products of several*)
(* shares stay in review, the company is the provider's last word, and     *)
(* disputes and disclosures are not forgotten.                             *)
(***************************************************************************)
EXTENDS FundCatalogue, FiniteSetTheorems, TLAPS

Fields == {"program", "left", "seen", "several", "stage", "day", "product", "identity",
           "told", "raw", "answered", "stored", "captured"}

(* What the proofs need to know of a transaction: what it maps, and that   *)
(* it counts the answers of the subject that it is working on.             *)
Counts(t) ==
    /\ t.raw \in Nat /\ t.answered \in Nat /\ t.captured \in Nat
    /\ t.stored = t.captured
    /\ t.answered = t.raw + t.captured
    /\ t.stage # "refresh" => t.captured = 0
    /\ t.left = <<>> => t.stage = "first"

TxOK(t) ==
    /\ DOMAIN t = Fields
    /\ t.identity = [c \in Codes |-> t.identity[c]]
    /\ Counts(t)

Shape ==
    /\ identity = [c \in Codes |-> identity[c]]
    /\ tx = [w \in Workers |-> tx[w]]
    /\ \A w \in Workers : tx[w] = None \/ TxOK(tx[w])

(* A code is mapped by one transaction at a time, and by none while it is  *)
(* mapped already.                                                         *)
OneMapper ==
    \A c \in Codes, w \in Workers : Maps(w, c) =>
        /\ identity[c] = None
        /\ \A v \in Workers : Maps(v, c) => v = w

Kept == raw \in Nat /\ AnswersAreKept

IInv == Shape /\ OneMapper /\ Kept

-----------------------------------------------------------------------------
LEMMA InitIInv == Init => IInv
<1> SUFFICES ASSUME Init PROVE IInv
  OBVIOUS
<1>1. identity = [c \in Codes |-> identity[c]]
  BY DEF Init, Unmapped
<1>2. tx = [w \in Workers |-> None]
  BY DEF Init
<1> QED
  BY <1>1, <1>2 DEF Init, IInv, Shape, OneMapper, Maps, Kept, AnswersAreKept

(* A step of one worker's transaction that commits nothing preserves the   *)
(* invariant when it maps at most what nobody has mapped.                  *)
LEMMA StepOfOne ==
    ASSUME IInv, NEW w \in Workers, NEW t,
           tx' = [tx EXCEPT ![w] = t],
           UNCHANGED <<identity, raw, answered>>,
           t = None \/ TxOK(t),
           t # None => \A c \in Codes : t.identity[c] # None =>
                \/ Maps(w, c)
                \/ identity[c] = None /\ \A v \in Workers \ {w} : ~Maps(v, c)
    PROVE  IInv'
<1>1. /\ tx'[w] = t
      /\ \A v \in Workers \ {w} : tx'[v] = tx[v]
      /\ tx' = [v \in Workers |-> tx'[v]]
  BY DEF IInv, Shape
<1>2. Shape'
  BY <1>1 DEF IInv, Shape
<1>3. \A v \in Workers \ {w}, c \in Codes : Maps(v, c)' <=> Maps(v, c)
  BY <1>1 DEF Maps
<1>4. \A c \in Codes : Maps(w, c)' => t # None /\ t.identity[c] # None
  BY <1>1 DEF Maps
<1>5. OneMapper'
  <2> SUFFICES ASSUME NEW c \in Codes, NEW v \in Workers, Maps(v, c)'
               PROVE  identity[c] = None /\ \A u \in Workers : Maps(u, c)' => u = v
    BY DEF OneMapper
  <2>1. CASE v = w
    <3>1. Maps(w, c) \/ (identity[c] = None /\ \A u \in Workers \ {w} : ~Maps(u, c))
      BY <1>4, <2>1
    <3>2. identity[c] = None /\ \A u \in Workers \ {w} : ~Maps(u, c)
      BY <3>1 DEF IInv, OneMapper
    <3> QED
      BY <3>2, <1>3, <2>1
  <2>2. CASE v # w
    <3>1. Maps(v, c)
      BY <1>3, <2>2
    <3>2. identity[c] = None /\ \A u \in Workers \ {v} : ~Maps(u, c)
      BY <3>1 DEF IInv, OneMapper
    <3>3. ~Maps(w, c)'
      BY <3>1, <3>2, <1>4, <2>2
    <3> QED
      BY <3>2, <3>3, <1>3, <2>2
  <2> QED
    BY <2>1, <2>2
<1>6. Kept'
  BY DEF IInv, Kept, AnswersAreKept
<1> QED
  BY <1>2, <1>5, <1>6 DEF IInv

(* What maps as before keeps it. *)
LEMMA StepMappingNothing ==
    ASSUME IInv, NEW w \in Workers, NEW t, tx[w] # None,
           tx' = [tx EXCEPT ![w] = t],
           UNCHANGED <<identity, raw, answered>>,
           TxOK(t), t.identity = tx[w].identity
    PROVE  IInv'
<1>1. \A c \in Codes : t.identity[c] # None => Maps(w, c)
  BY DEF Maps
<1> QED
  BY <1>1, StepOfOne

-----------------------------------------------------------------------------
(* The actions *)

LEMMA BeginsOK ==
    ASSUME IInv, NEW w \in Workers, NEW program, NEW left, NEW answers \in Nat,
           Begin(w, program, left, answers),
           UNCHANGED <<identity, raw, answered>>
    PROVE  IInv'
<1> DEFINE t == [program |-> program, left |-> left, seen |-> None, several |-> FALSE,
                 stage |-> "first", day |-> today, product |-> Nowhere, identity |-> Unmapped,
                 told |-> Nowhere, raw |-> answers, answered |-> answers,
                 stored |-> 0, captured |-> 0]
<1>1. tx' = [tx EXCEPT ![w] = t]
  BY DEF Begin
<1>2. TxOK(t)
  BY DEF TxOK, Counts, Fields, Unmapped
<1>3. \A c \in Codes : t.identity[c] = None
  BY DEF Unmapped
<1> HIDE DEF t
<1> QED
  BY <1>1, <1>2, <1>3, StepOfOne

LEMMA RunningOK ==
    ASSUME IInv, NEW w \in Workers, NEW program, NEW stage, Runs(w, program, stage)
    PROVE  /\ TxOK(tx[w]) /\ tx[w] # None
           /\ tx[w].stage = stage /\ tx[w].left # <<>>
BY DEF IInv, Shape, Runs

LEMMA LookUpOK ==
    ASSUME IInv, NEW w \in Workers, LookUp(w)
    PROVE  IInv'
<1> DEFINE seen == IdentitySeen(w, Head(tx[w].left).code)
           t == [tx[w] EXCEPT !.seen = seen, !.stage = "register"]
<1>1. TxOK(tx[w]) /\ tx[w] # None /\ tx[w].stage = "first" /\ tx[w].left # <<>>
  BY RunningOK DEF LookUp
<1>2. tx' = [tx EXCEPT ![w] = t]
  BY DEF LookUp
<1>3. TxOK(t) /\ t.identity = tx[w].identity
  BY <1>1 DEF TxOK, Counts, Fields
<1> HIDE DEF t
<1> QED
  BY <1>1, <1>2, <1>3, StepMappingNothing DEF LookUp

LEMMA RegisteredOK ==
    ASSUME NEW t, TxOK(t), t.left # <<>>, t.stage = "register",
           NEW share, NEW several, NEW written, NEW code, NEW mapped
    PROVE  LET u == Registered(t, share, several, written, code, mapped)
           IN  /\ TxOK(u)
               /\ \A c \in Codes : u.identity[c] =
                    IF c = code /\ mapped # None THEN mapped ELSE t.identity[c]
<1> DEFINE u == Registered(t, share, several, written, code, mapped)
<1>1. u.identity = [t.identity EXCEPT ![code] = IF mapped # None THEN mapped ELSE @]
  BY DEF Registered, TxOK, Fields
<1>2. /\ DOMAIN u = Fields
      /\ u.raw = t.raw /\ u.answered = t.answered /\ u.captured = t.captured
      /\ u.stored = t.stored /\ u.left = t.left /\ u.stage = "classify"
  BY DEF TxOK, Fields, Registered
<1>3. u.identity = [c \in Codes |-> u.identity[c]]
  BY <1>1 DEF TxOK
<1>4. Counts(u)
  BY <1>2 DEF TxOK, Counts
<1> HIDE DEF u
<1>5. TxOK(u)
  BY <1>2, <1>3, <1>4 DEF TxOK
<1>6. \A c \in Codes : u.identity[c] = IF c = code /\ mapped # None THEN mapped ELSE t.identity[c]
  BY <1>1 DEF TxOK
<1> QED
  BY <1>5, <1>6 DEF u

LEMMA RegisterOK ==
    ASSUME IInv, NEW w \in Workers, Register(w)
    PROVE  IInv'
<1> DEFINE row == Head(tx[w].left)
<1>1. /\ TxOK(tx[w]) /\ tx[w] # None
      /\ tx[w].stage = "register" /\ tx[w].left # <<>>
  BY RunningOK DEF Register
<1>2. PICK share, several, written, mapped :
        /\ tx' = [tx EXCEPT ![w] = Registered(@, share, several, written, row.code, mapped)]
        /\ mapped # None =>
              /\ IdentitySeen(w, row.code) = None
              /\ \A v \in Workers \ {w} : ~Maps(v, row.code)
  BY Zenon DEF Register, EnsureIdentity
<1> DEFINE t == Registered(tx[w], share, several, written, row.code, mapped)
<1>3. /\ TxOK(t)
      /\ \A c \in Codes : t.identity[c] =
            IF c = row.code /\ mapped # None THEN mapped ELSE tx[w].identity[c]
  BY <1>1, RegisteredOK
<1>4. ASSUME NEW c \in Codes, t.identity[c] # None
      PROVE  \/ Maps(w, c)
             \/ identity[c] = None /\ \A v \in Workers \ {w} : ~Maps(v, c)
  <2>1. CASE c = row.code /\ mapped # None
    <3>1. IdentitySeen(w, c) = None
      BY <2>1, <1>2
    <3> QED
      BY <3>1, <2>1, <1>2 DEF IdentitySeen, Maps
  <2>2. CASE c # row.code \/ mapped = None
    <3>1. t.identity[c] = tx[w].identity[c]
      BY <2>2, <1>3
    <3> QED
      BY <3>1, <1>1, <1>4 DEF Maps
  <2> QED
    BY <2>1, <2>2
<1>5. UNCHANGED <<identity, raw, answered>>
  BY DEF Register
<1> HIDE DEF t
<1> QED
  BY <1>2, <1>3, <1>4, <1>5, StepOfOne DEF t

LEMMA ClassifyOK ==
    ASSUME IInv, NEW w \in Workers, Classify(w)
    PROVE  IInv'
<1> DEFINE p == tx[w].seen.product
           New(cited) == Classified(ProductSeen(w, p), "fund_list", Head(tx[w].left).report,
                                    tx[w].day, cited)
<1>0. PICK cited \in BOOLEAN :
        tx' = [tx EXCEPT ![w].stage = "first", ![w].left = Tail(@), ![w].seen = None,
                         ![w].several = FALSE,
                         ![w].product[p] = IF tx[w].several
                                           THEN [New(cited) EXCEPT !.grouping = New(cited).revision]
                                           ELSE New(cited)]
  BY DEF Classify
<1> DEFINE new == New(cited)
           filed == IF tx[w].several THEN [new EXCEPT !.grouping = new.revision] ELSE new
           t == [tx[w] EXCEPT !.stage = "first", !.left = Tail(@), !.seen = None,
                              !.several = FALSE, !.product[p] = filed]
<1>1. TxOK(tx[w]) /\ tx[w] # None /\ tx[w].stage = "classify" /\ tx[w].left # <<>>
  BY RunningOK DEF Classify
<1> HIDE DEF New
<1>2. tx' = [tx EXCEPT ![w] = t]
  BY <1>0, <1>1 DEF TxOK, Fields
<1>3. TxOK(t) /\ t.identity = tx[w].identity
  BY <1>1 DEF TxOK, Counts, Fields
<1> HIDE DEF t
<1> QED
  BY <1>1, <1>2, <1>3, StepMappingNothing DEF Classify

LEMMA AnsweredCounts ==
    ASSUME NEW t, TxOK(t)
    PROVE  LET u == Answered(t)
           IN  /\ DOMAIN u = Fields /\ u.identity = t.identity /\ u.left = t.left
               /\ u.raw = t.raw /\ u.raw \in Nat
               /\ u.captured \in Nat /\ u.stored = u.captured
               /\ u.answered = u.raw + u.captured
BY DEF TxOK, Counts, Fields, Answered

(* The end of an item, failed or not, stores its answers once. *)
LEMMA ItemEnds ==
    ASSUME NEW t, DOMAIN t = Fields, t.raw \in Nat,
           t.captured \in Nat, t.stored = t.captured,
           t.answered = t.raw + t.captured,
           t.identity = [c \in Codes |-> t.identity[c]]
    PROVE  /\ TxOK(ItemFailed(t)) /\ ItemFailed(t).identity = t.identity
           /\ TxOK(ItemSucceeded(t)) /\ ItemSucceeded(t).identity = t.identity
<1>1. TxOK(ItemFailed(t)) /\ ItemFailed(t).identity = t.identity
  BY DEF TxOK, Counts, Fields, ItemFailed, EndOfItem
<1>2. TxOK(ItemSucceeded(t)) /\ ItemSucceeded(t).identity = t.identity
  BY DEF TxOK, Counts, Fields, ItemSucceeded, EndOfItem
<1> QED
  BY <1>1, <1>2

LEMMA ErrorsOK ==
    ASSUME NEW t, TxOK(t), NEW u \in Errors(t)
    PROVE  TxOK(u) /\ u.identity = t.identity
<1> DEFINE v == Answered(t)
<1>1. /\ DOMAIN v = Fields /\ v.identity = t.identity /\ v.raw \in Nat
      /\ v.captured \in Nat /\ v.stored = v.captured
      /\ v.answered = v.raw + v.captured
  BY AnsweredCounts
<1>2. v.identity = [c \in Codes |-> v.identity[c]]
  BY <1>1 DEF TxOK
<1> HIDE DEF v
<1>3. TxOK(ItemFailed(v)) /\ ItemFailed(v).identity = t.identity
  BY <1>1, <1>2, ItemEnds
<1>4. TxOK(ItemFailed(t)) /\ ItemFailed(t).identity = t.identity
  BY ItemEnds DEF TxOK, Counts
<1>5. u = ItemFailed(v) \/ u = ItemFailed(t)
  BY DEF Errors, v
<1> QED
  BY <1>3, <1>4, <1>5

LEMMA HeardOK ==
    ASSUME NEW t, TxOK(t), NEW p, NEW name, NEW time, NEW record
    PROVE  LET u == Heard(t, p, name, time, record)
           IN  TxOK(u) /\ u.identity = t.identity
<1> DEFINE v == Answered(t)
           s == ItemSucceeded(v)
<1>1. /\ DOMAIN v = Fields /\ v.identity = t.identity /\ v.raw \in Nat
      /\ v.captured \in Nat /\ v.stored = v.captured
      /\ v.answered = v.raw + v.captured
  BY AnsweredCounts
<1>2. v.identity = [c \in Codes |-> v.identity[c]]
  BY <1>1 DEF TxOK
<1> HIDE DEF v
<1>3. TxOK(s) /\ s.identity = t.identity
  BY <1>1, <1>2, ItemEnds
<1> HIDE DEF s
<1> DEFINE u == [s EXCEPT !.told[p] = IF name = None THEN @ ELSE [name |-> name, at |-> time],
                           !.product[p] = record]
<1>4. TxOK(u) /\ u.identity = s.identity
  BY <1>3 DEF TxOK, Counts, Fields
<1> QED
  BY <1>3, <1>4 DEF s, v, Heard

(* An overview is counted while its product is refreshed.                  *)
LEMMA AnsweredOK ==
    ASSUME NEW t, TxOK(t), t.left # <<>>, NEW day, NEW seen
    PROVE  LET u == [Answered(t) EXCEPT !.stage = "refresh", !.day = day, !.seen = seen]
           IN  TxOK(u) /\ u.identity = t.identity
<1> DEFINE v == Answered(t)
           u == [v EXCEPT !.stage = "refresh", !.day = day, !.seen = seen]
<1>1. /\ DOMAIN v = Fields /\ v.identity = t.identity /\ v.left = t.left /\ v.raw \in Nat
      /\ v.captured \in Nat /\ v.stored = v.captured
      /\ v.answered = v.raw + v.captured
  BY AnsweredCounts
<1>2. v.identity = [c \in Codes |-> v.identity[c]]
  BY <1>1 DEF TxOK
<1> HIDE DEF v
<1>3. TxOK(u) /\ u.identity = v.identity
  BY <1>1, <1>2 DEF TxOK, Counts, Fields
<1> QED
  BY <1>1, <1>3 DEF v

LEMMA FetchOverviewOK ==
    ASSUME IInv, NEW w \in Workers, FetchOverview(w)
    PROVE  IInv'
<1>1. TxOK(tx[w]) /\ tx[w] # None /\ tx[w].stage = "first" /\ tx[w].left # <<>>
  BY RunningOK DEF FetchOverview
<1>2. UNCHANGED <<identity, raw, answered>>
  BY DEF FetchOverview
<1>3. PICK t : /\ tx' = [tx EXCEPT ![w] = t]
               /\ \/ t \in Errors(tx[w])
                  \/ \E seen : t = [Answered(tx[w]) EXCEPT !.stage = "refresh", !.day = today,
                                                           !.seen = seen]
  BY Zenon DEF FetchOverview
<1>4. TxOK(t) /\ t.identity = tx[w].identity
  <2>1. CASE t \in Errors(tx[w])
    BY <1>1, <2>1, ErrorsOK
  <2>2. ASSUME NEW seen, t = [Answered(tx[w]) EXCEPT !.stage = "refresh", !.day = today,
                                                     !.seen = seen]
        PROVE  TxOK(t) /\ t.identity = tx[w].identity
    BY <1>1, <2>2, AnsweredOK
  <2> QED
    BY <1>3, <2>1, <2>2
<1> QED
  BY <1>1, <1>2, <1>3, <1>4, StepMappingNothing

LEMMA RefreshFundOK ==
    ASSUME IInv, NEW w \in Workers, RefreshFund(w)
    PROVE  IInv'
<1> DEFINE p == Head(tx[w].left)
           Record(name, cited) ==
             Refreshed(ProductSeen(w, p), tx[w].seen, name, tx[w].day, cited)
           Hears(name, cited) ==
             tx' = [tx EXCEPT ![w] = Heard(@, p, name, clock', Record(name, cited))]
<1>1. TxOK(tx[w]) /\ tx[w] # None /\ tx[w].stage = "refresh" /\ tx[w].left # <<>>
  BY RunningOK DEF RefreshFund
<1>2. UNCHANGED <<identity, raw, answered>>
  BY DEF RefreshFund
<1>3. \/ \E name \in CompanyAnswers, cited \in BOOLEAN : Hears(name, cited)
      \/ \E failed \in Errors(tx[w]) : tx' = [tx EXCEPT ![w] = failed]
  BY DEF RefreshFund
<1>4. ASSUME NEW name, NEW cited, Hears(name, cited)
      PROVE  IInv'
  <2> DEFINE t == Heard(tx[w], p, name, clock', Record(name, cited))
  <2>1. tx' = [tx EXCEPT ![w] = t]
    BY <1>4
  <2>2. TxOK(t) /\ t.identity = tx[w].identity
    BY <1>1, HeardOK
  <2> HIDE DEF t
  <2> QED
    BY <1>1, <1>2, <2>1, <2>2, StepMappingNothing
<1>5. ASSUME NEW failed \in Errors(tx[w]), tx' = [tx EXCEPT ![w] = failed]
      PROVE  IInv'
  BY <1>1, <1>2, <1>5, ErrorsOK, StepMappingNothing
<1> QED
  BY <1>3, <1>4, <1>5

LEMMA BackfillFundOK ==
    ASSUME IInv, NEW w \in Workers, BackfillFund(w)
    PROVE  IInv'
<1> DEFINE p == Head(tx[w].left)
           t == [tx[w] EXCEPT
                    !.left = Tail(@),
                    !.product[p] =
                        IF Lacking(p)
                        THEN [product[p] EXCEPT !.company = Candidate(product[p].history)]
                        ELSE @]
<1>1. TxOK(tx[w]) /\ tx[w] # None /\ tx[w].stage = "first" /\ tx[w].left # <<>>
  BY RunningOK DEF BackfillFund
<1>2. tx' = [tx EXCEPT ![w] = t]
  BY <1>1 DEF BackfillFund, TxOK, Fields
<1>3. TxOK(t) /\ t.identity = tx[w].identity
  BY <1>1 DEF TxOK, Counts, Fields
<1> HIDE DEF t
<1> QED
  BY <1>1, <1>2, <1>3, StepMappingNothing DEF BackfillFund

LEMMA FailOK ==
    ASSUME IInv, NEW w \in Workers, Fail(w)
    PROVE  IInv'
<1>1. tx' = [tx EXCEPT ![w] = None] /\ UNCHANGED <<identity, raw, answered>>
  BY DEF Fail
<1> QED
  BY <1>1, StepOfOne

(* A commit maps what its transaction has mapped; whatever was mapped stays.*)
LEMMA CommitMaps ==
    ASSUME IInv, NEW w \in Workers, Commit(w), NEW c \in Codes
    PROVE  /\ identity'[c] = IF Maps(w, c) THEN tx[w].identity[c] ELSE identity[c]
           /\ identity[c] # None => identity'[c] = identity[c]
           /\ identity' = [d \in Codes |-> identity'[d]]
<1>1. tx[w] # None /\ identity' = Merged(w, "identity")
  BY DEF Commit
<1>2. Stored("identity") = identity
  BY DEF Stored
<1>3. DOMAIN identity = Codes
  BY DEF IInv, Shape
<1>4. identity' = [d \in Codes |-> IF tx[w].identity[d] # None THEN tx[w].identity[d]
                                   ELSE identity[d]]
  BY <1>1, <1>2, <1>3 DEF Merged
<1>5. identity'[c] = IF Maps(w, c) THEN tx[w].identity[c] ELSE identity[c]
  BY <1>1, <1>4 DEF Maps
<1>6. Maps(w, c) => identity[c] = None
  BY DEF IInv, OneMapper
<1> QED
  BY <1>4, <1>5, <1>6

LEMMA CommitOK ==
    ASSUME IInv, NEW w \in Workers, Commit(w)
    PROVE  IInv'
<1>1. /\ tx[w] # None /\ tx[w].left = <<>>
      /\ raw' = raw + tx[w].raw /\ answered' = answered + tx[w].answered
      /\ tx' = [tx EXCEPT ![w] = None]
  BY DEF Commit
<1>2. /\ tx'[w] = None
      /\ \A v \in Workers \ {w} : tx'[v] = tx[v]
      /\ tx' = [v \in Workers |-> tx'[v]]
  BY <1>1 DEF IInv, Shape
<1>3. identity' = [d \in Codes |-> identity'[d]]
  <2>1. CASE Codes = {}
    BY <2>1 DEF Commit, Merged, Stored, IInv, Shape
  <2>2. CASE Codes # {}
    BY <2>2, CommitMaps
  <2> QED
    BY <2>1, <2>2
<1>4. Shape'
  BY <1>2, <1>3 DEF IInv, Shape
<1>5. OneMapper'
  <2> SUFFICES ASSUME NEW c \in Codes, NEW v \in Workers, Maps(v, c)'
               PROVE  identity'[c] = None /\ \A u \in Workers : Maps(u, c)' => u = v
    BY DEF OneMapper
  <2>1. v # w /\ \A u \in Workers : Maps(u, c)' => Maps(u, c)
    BY <1>2 DEF Maps
  <2>2. identity[c] = None /\ \A u \in Workers : Maps(u, c) => u = v
    BY <2>1 DEF IInv, OneMapper
  <2>3. ~Maps(w, c)
    BY <2>1, <2>2
  <2> QED
    BY <2>1, <2>2, <2>3, CommitMaps
<1>6. Kept'
  <2>1. Counts(tx[w])
    BY <1>1 DEF IInv, Shape, TxOK
  <2>2. tx[w].captured = 0
    BY <1>1, <2>1 DEF Counts
  <2>3. /\ raw \in Nat /\ raw = answered /\ tx[w].raw \in Nat
        /\ tx[w].answered = tx[w].raw
    BY <2>1, <2>2 DEF Counts, IInv, Kept, AnswersAreKept
  <2> QED
    BY <1>1, <2>3 DEF Kept, AnswersAreKept
<1> QED
  BY <1>4, <1>5, <1>6 DEF IInv

LEMMA CloseIdentityOK ==
    ASSUME IInv, NEW c \in Codes, CloseIdentity(c)
    PROVE  IInv'
<1>1. /\ identity[c] # None /\ identity' = [identity EXCEPT ![c] = None]
      /\ UNCHANGED <<tx, raw, answered>>
  BY DEF CloseIdentity
<1>2. \A v \in Workers, d \in Codes : Maps(v, d)' <=> Maps(v, d)
  BY <1>1 DEF Maps
<1> QED
  BY <1>1, <1>2 DEF IInv, Shape, OneMapper, Kept, AnswersAreKept, TxOK, Counts

-----------------------------------------------------------------------------
LEMMA StepIInv ==
    ASSUME IInv, [Next]_vars
    PROVE  IInv'
<1>1. ASSUME NEW w \in Workers, IngestFunds(w)
      PROVE  IInv'
  BY <1>1, BeginsOK DEF IngestFunds
<1>2. ASSUME NEW w \in Workers, BasicInfo(w)
      PROVE  IInv'
  BY <1>2, BeginsOK DEF BasicInfo
<1>3. ASSUME NEW w \in Workers, Backfill(w)
      PROVE  IInv'
  BY <1>3, BeginsOK DEF Backfill
<1>4. CASE UNCHANGED vars
  <2>1. UNCHANGED <<identity, tx, raw, answered>>
    BY <1>4 DEF vars
  <2> QED
    BY <2>1 DEF IInv, Shape, OneMapper, Maps, Kept, AnswersAreKept, TxOK, Counts
<1>5. CASE Midnight
  <2>1. UNCHANGED <<identity, tx, raw, answered>>
    BY <1>5 DEF Midnight
  <2> QED
    BY <2>1 DEF IInv, Shape, OneMapper, Maps, Kept, AnswersAreKept, TxOK, Counts
<1> QED
  BY <1>1, <1>2, <1>3, <1>4, <1>5, LookUpOK, RegisterOK, ClassifyOK, FetchOverviewOK,
     RefreshFundOK, BackfillFundOK, CommitOK, FailOK, CloseIdentityOK DEF Next

(* Every answer of the provider that a committed transaction has received  *)
(* is in raw_payload once, whatever its subjects did (_CapturingAdapter).  *)
THEOREM EveryAnswerKept == Spec => []AnswersAreKept
<1>1. IInv => AnswersAreKept
  BY DEF IInv, Kept
<1> QED
  BY InitIInv, StepIInv, <1>1, PTL DEF Spec

(* A step leaves a mapped code where it is, or the operator closes it. *)
LEMMA StepMapping ==
    ASSUME IInv, [Next]_vars, NEW c \in Codes, identity[c] # None
    PROVE  identity'[c] \in {identity[c], None}
<1>1. ASSUME NEW w \in Workers, Commit(w)
      PROVE  identity'[c] = identity[c]
  BY <1>1, CommitMaps
<1>2. ASSUME NEW d \in Codes, CloseIdentity(d)
      PROVE  identity'[c] \in {identity[c], None}
  BY <1>2 DEF CloseIdentity, IInv, Shape
<1>3. \/ UNCHANGED identity
      \/ \E w \in Workers : Commit(w)
      \/ \E d \in Codes : CloseIdentity(d)
  BY DEF Next, vars, IngestFunds, LookUp, Register, Classify, BasicInfo, FetchOverview,
         RefreshFund, Backfill, BackfillFund, Fail, Midnight
<1> QED
  BY <1>1, <1>2, <1>3

(* No program moves a mapped code to another share, however their          *)
(* transactions race (_ensure_provider_identity).                          *)
THEOREM MappingIsKept == Spec => MappingStands
<1>1. IInv /\ [Next]_vars =>
        [\A c \in Codes : identity[c] # None => identity'[c] \in {identity[c], None}]_vars
  BY StepMapping
<1> QED
  BY InitIInv, StepIInv, <1>1, PTL DEF Spec, MappingStands

-----------------------------------------------------------------------------
(* The rows: what is committed of a product, and what a transaction has    *)
(* written of it                                                           *)

Several(r) == Cardinality(r.classes) > 1
InReview(r) == r.grouping = r.revision /\ r.revision > 0

\* From the day of the last answer on the same is in force, and a type that was told
\* is, from its day on, in what is in force.
RecordOK(r) ==
    /\ r \in Product
    /\ \A x, y \in Days : x >= r.written /\ y >= r.written => InForce(r, x) = InForce(r, y)
    /\ \A d \in Datasets, x \in Days : r.types[d] # None /\ x >= r.types[d].day =>
         InForce(r, x)[d].formal_type = r.types[d].type

\* Only of the product that was grouped by names are several shares not in review,
\* until a list classifies it.
Placed(p, r) == Several(r) => InReview(r) \/ (p = Legacy /\ "fund_list" \notin r.heard)
Whole(p, r) == p = Legacy => r.classes = Classes

\* The company is the last word on it, or the one of the first version is still
\* to be carried over.
LastWord(r, word) ==
    /\ word # None => r.company = word.name \/ (r.company = None /\ word.at = 0)
    /\ r.company = None =>
         /\ \A v \in DOMAIN r.history : r.history[v].name # None => word # None /\ v = 1
         /\ word # None => r.history # <<>> /\ r.history[1].name = word.name

\* Unless an answer of an earlier day was written, nothing is forgotten.
Later(r, s) ==
    /\ r.late <= s.late
    /\ s.late = r.late =>
         \A x \in Days, d \in Datasets, f \in ContextFields :
           InForce(r, x)[d][f] # None => InForce(s, x)[d][f] # None

\* The constant operators of a state: rows, last words and the time.
RowInv(p, rows, words, time) ==
    /\ rows[p] # None => /\ RecordOK(rows[p]) /\ Whole(p, rows[p]) /\ Placed(p, rows[p])
                         /\ LastWord(rows[p], words[p])
    /\ words[p] # None => rows[p] # None /\ words[p] \in Words /\ words[p].at <= time

ShareOK(share, rows) == share \in Shares /\ (share.product = Legacy => rows[Legacy] # None)

\* Between its registration and its classification a row's product may have several
\* shares that are not in review yet, but its transaction knows.
Pending(t, p) == t.stage = "classify" /\ t.seen.product = p /\ t.several
WordOf(t, p, words) == IF t.told[p] # None THEN t.told[p] ELSE words[p]

WriteInv(t, p, rows, words, time) ==
    /\ t.product[p] # None =>
         /\ RecordOK(t.product[p]) /\ Whole(p, t.product[p])
         /\ Placed(p, t.product[p]) \/ Pending(t, p)
         /\ LastWord(t.product[p], WordOf(t, p, words))
         /\ rows[p] # None => Later(rows[p], t.product[p])
    /\ t.told[p] # None =>
         /\ t.product[p] # None
         /\ t.told[p] \in Words /\ t.told[p].at <= time
         /\ words[p] # None => t.told[p].at > words[p].at

LeftInv(t, rows) ==
    /\ t.program = "ingest-funds" => t.left \in Seq(Rows)
    /\ t.program = "basic-info" =>
         t.left \in Seq(Products) /\ \A i \in DOMAIN t.left : rows[t.left[i]] # None
    /\ t.program = "backfill" =>
         t.left \in Seq(Products) /\ \A p \in Products : t.told[p] = None

SeenInv(t, rows) ==
    /\ t.stage = "register" => t.seen = None \/ ShareOK(t.seen, rows)
    /\ t.stage = "classify" =>
         /\ ShareOK(t.seen, rows)
         /\ t.product[t.seen.product] # None \/ rows[t.seen.product] # None
         /\ t.seen.product = Legacy /\ Cardinality(Classes) > 1 => t.several
    /\ t.stage = "refresh" => t.seen.report \in Overviews /\ t.seen.at \in Nat

TransactionInv(t, rows, words, time) ==
    /\ t.product = [p \in Products |-> t.product[p]]
    /\ t.told = [p \in Products |-> t.told[p]]
    /\ \A p \in Products : WriteInv(t, p, rows, words, time)
    /\ \A c \in Codes : t.identity[c] # None => ShareOK(t.identity[c], rows)
    /\ LeftInv(t, rows) /\ SeenInv(t, rows)
    /\ t.day \in Days

CatalogueInv ==
    /\ clock \in Nat /\ today \in Days
    /\ product = [p \in Products |-> product[p]]
    /\ told = [p \in Products |-> told[p]]
    /\ \A p \in Products : RowInv(p, product, told, clock)
    /\ \A c \in Codes : identity[c] # None => ShareOK(identity[c], product)
    /\ \A w \in Workers : tx[w] # None => TransactionInv(tx[w], product, told, clock)
    /\ \A p \in Products, w \in Workers : Holds(w, p) => Free(w, p)

-----------------------------------------------------------------------------
(* Evidence and records                                                    *)

LEMMA ReportFields ==
    ASSUME NEW r \in Reports \cup Evidence
    PROVE  DOMAIN r = {"name", "formal_type", "investment_strategy", "tracking_target",
                       "index_membership"}
BY DEF Reports, Evidence

LEMMA RetainedType ==
    ASSUME NEW e \in Evidence
    PROVE  /\ Retained(e) \in Evidence
           /\ \A f \in ContextFields : Retained(e)[f] = e[f]
BY DEF Evidence, Retained, ContextFields

\* Merging keeps what a report does not say.
LEMMA MergeType ==
    ASSUME NEW e \in [Datasets -> Evidence], NEW d \in Datasets, NEW r \in Reports
    PROVE  /\ Merge(e, d, r) \in [Datasets -> Evidence]
           /\ \A x \in Datasets, f \in ContextFields :
                Merge(e, d, r)[x][f] = IF x = d /\ r[f] # None THEN r[f] ELSE e[x][f]
<1> DEFINE Row(x) == [f \in DOMAIN r |-> IF x = d /\ r[f] # None THEN r[f]
                                         ELSE Retained(e[x])[f]]
<1>1. ASSUME NEW x \in Datasets
      PROVE  /\ Row(x) \in Evidence
             /\ \A f \in ContextFields :
                  Row(x)[f] = IF x = d /\ r[f] # None THEN r[f] ELSE e[x][f]
  <2> DEFINE k == Retained(e[x])
             One(f) == IF x = d /\ r[f] # None THEN r[f] ELSE k[f]
  <2>1. k \in Evidence /\ \A f \in ContextFields : k[f] = e[x][f]
    BY RetainedType
  <2> HIDE DEF k
  <2>2. /\ r.name # None => r.name \in SUBSET (Assets \cup Strategies \cup Tags)
        /\ r.formal_type \in FormalTypes \cup {None}
        /\ r.investment_strategy \in {None} \cup SUBSET Clauses
        /\ r.tracking_target \in Targets \cup {None}
        /\ r.index_membership \in Memberships \cup {None}
    BY DEF Reports
  <2>3. Row(x) = [name |-> One("name"), formal_type |-> One("formal_type"),
                  investment_strategy |-> One("investment_strategy"),
                  tracking_target |-> One("tracking_target"),
                  index_membership |-> One("index_membership")]
    BY ReportFields DEF k
  <2>4. Row(x) \in Evidence
    <3> HIDE DEF Row
    <3> QED
      BY <2>1, <2>2, <2>3 DEF Evidence
  <2> HIDE DEF Evidence
  <2>5. \A f \in ContextFields : f \in DOMAIN r
    BY ReportFields DEF ContextFields
  <2> QED
    BY <2>1, <2>4, <2>5 DEF k
<1>2. Merge(e, d, r) = [x \in Datasets |-> Row(x)]
  BY DEF Merge
<1> HIDE DEF Row
<1> QED
  BY <1>1, <1>2

\* Of a good record, every day has evidence in force.
LEMMA InForceType ==
    ASSUME NEW r, r \in Product, NEW x \in Days
    PROVE  InForce(r, x) \in [Datasets -> Evidence]
<1>1. NoEvidence \in Evidence
  BY DEF NoEvidence, NoReport, Evidence
<1>2. Nothing \in [Datasets -> Evidence]
  BY <1>1 DEF Nothing
<1>3. r.evidence[x] \in [Datasets -> Evidence] \cup {None}
  BY DEF Product
<1> QED
  BY <1>2, <1>3 DEF InForce

LEMMA TypesType ==
    ASSUME NEW types \in [Datasets -> Types \cup {None}], NEW d \in Datasets,
           NEW report \in Reports, NEW day \in Days
    PROVE  LET k == Told(types, d, report, day)
           IN  /\ k \in [Datasets -> Types \cup {None}]
               /\ \A x \in Datasets : k[x] # None =>
                    /\ k[x].day <= day
                    /\ x = d /\ report.formal_type # None => k[x].type = report.formal_type
                                                          /\ k[x].day = day
                    /\ x # d \/ report.formal_type = None => k[x] = types[x]
<1> DEFINE k == Told(types, d, report, day)
           new == [type |-> report.formal_type, day |-> day]
<1>1. report.formal_type # None => new \in Types /\ new.day = day /\ new.type = report.formal_type
  BY DEF Reports, Types
<1>2. day \in Nat /\ \A t \in Types : t.day \in Nat
  BY InputAssumption DEF Types, Days
<1> HIDE DEF new
<1>3. k = [x \in Datasets |-> IF x = d /\ report.formal_type # None THEN new
                             ELSE IF types[x] # None /\ types[x].day > day THEN None ELSE types[x]]
  BY DEF Told, new
<1> HIDE DEF k
<1>4. k \in [Datasets -> Types \cup {None}]
  BY <1>1, <1>3
<1>5. ASSUME NEW x \in Datasets, k[x] # None
      PROVE  /\ k[x].day <= day
             /\ x = d /\ report.formal_type # None => k[x].type = report.formal_type
                                                   /\ k[x].day = day
             /\ x # d \/ report.formal_type = None => k[x] = types[x]
  <2>1. CASE x = d /\ report.formal_type # None
    BY <1>1, <1>2, <1>3, <2>1
  <2>2. CASE ~(x = d /\ report.formal_type # None)
    <3>1. k[x] = types[x] /\ ~(types[x].day > day) /\ types[x] \in Types
      BY <1>3, <1>5, <2>2
    <3> QED
      BY <1>2, <2>2, <3>1
  <2> QED
    BY <2>1, <2>2
<1> QED
  BY <1>4, <1>5 DEF k

\* An answer is in force from its day on, merged into what was in force then.
LEMMA EvidencedOK ==
    ASSUME NEW r, RecordOK(r), NEW d \in Datasets, NEW report \in Reports, NEW day \in Days
    PROVE  LET s == Evidenced(r, d, report, day)
           IN  /\ RecordOK(s) /\ Later(r, s)
               /\ s.classes = r.classes /\ s.company = r.company /\ s.history = r.history
               /\ s.revision = r.revision /\ s.grouping = r.grouping
               /\ s.heard = r.heard \cup {d}
<1> DEFINE e == Written(r, d, report, day)
           k == Told(r.types, d, report, day)
           late == IF day < r.written THEN r.late + 1 ELSE r.late
           heard == r.heard \cup {d}
           merged == Merge(InForce(r, day), d, report)
           s == [r EXCEPT !.evidence = e, !.types = k, !.heard = heard, !.late = late,
                          !.written = day]
<1>1. /\ r \in Product /\ r.evidence \in [Days -> [Datasets -> Evidence] \cup {None}]
      /\ r.types \in [Datasets -> Types \cup {None}] /\ r.late \in Nat /\ r.written \in Days
      /\ r.heard \in SUBSET Datasets
  BY DEF RecordOK, Product
<1>2. s = Evidenced(r, d, report, day)
  BY <1>1 DEF Evidenced, Product
<1>3. \A x \in Days : x \in Nat
  BY InputAssumption DEF Days
<1>4. /\ merged \in [Datasets -> Evidence] /\ merged # None
      /\ \A x \in Datasets, f \in ContextFields :
           merged[x][f] = IF x = d /\ report[f] # None THEN report[f]
                          ELSE InForce(r, day)[x][f]
  <2>1. InForce(r, day) \in [Datasets -> Evidence]
    BY <1>1, InForceType
  <2> QED
    BY <2>1, MergeType, InputAssumption
<1> HIDE DEF merged
<1>5. /\ e \in [Days -> [Datasets -> Evidence] \cup {None}]
      /\ \A x \in Days : e[x] = IF x >= day THEN merged ELSE r.evidence[x]
  BY <1>1, <1>4 DEF Written, merged
<1>6. /\ k \in [Datasets -> Types \cup {None}]
      /\ \A x \in Datasets : k[x] # None =>
           /\ k[x].day <= day
           /\ x = d /\ report.formal_type # None => k[x].type = report.formal_type
                                                 /\ k[x].day = day
           /\ x # d \/ report.formal_type = None => k[x] = r.types[x]
  BY <1>1, TypesType
<1>7. late \in Nat /\ r.late <= late /\ (late = r.late => day >= r.written) /\ heard \in SUBSET Datasets
  BY <1>1, <1>3
<1> HIDE DEF e, k, late, heard
<1>8. /\ s \in Product /\ s.evidence = e /\ s.types = k /\ s.late = late /\ s.written = day
      /\ s.heard = heard /\ s.classes = r.classes /\ s.company = r.company
      /\ s.history = r.history /\ s.revision = r.revision /\ s.grouping = r.grouping
  BY <1>1, <1>5, <1>6, <1>7 DEF Product
<1> HIDE DEF s
<1>9. \A x \in Days : InForce(s, x) = IF x >= day THEN merged ELSE InForce(r, x)
  BY <1>4, <1>5, <1>8 DEF InForce
<1>10. RecordOK(s)
  <2>1. \A x, y \in Days : x >= day /\ y >= day => InForce(s, x) = InForce(s, y)
    BY <1>9
  <2>2. ASSUME NEW c \in Datasets, NEW x \in Days, k[c] # None, x >= k[c].day
        PROVE  InForce(s, x)[c].formal_type = k[c].type
    <3>1. "formal_type" \in ContextFields
      BY DEF ContextFields
    <3>2. k[c] \in Types /\ k[c].day \in Days
      BY <1>6, <2>2 DEF Types
    <3>3. CASE c = d /\ report.formal_type # None
      BY <1>4, <1>6, <1>9, <2>2, <3>1, <3>3
    <3>4. CASE ~(c = d /\ report.formal_type # None)
      <4>1. /\ k[c] = r.types[c]
            /\ InForce(r, x)[c].formal_type = k[c].type
            /\ InForce(r, day)[c].formal_type = k[c].type
        <5>1. k[c] = r.types[c] /\ day >= k[c].day
          BY <1>3, <1>6, <2>2, <3>2, <3>4
        <5> QED
          BY <2>2, <5>1 DEF RecordOK
      <4>2. merged[c].formal_type = InForce(r, day)[c].formal_type
        BY <1>4, <3>1, <3>4
      <4> QED
        BY <1>9, <4>1, <4>2
    <3> QED
      BY <3>3, <3>4
  <2> QED
    BY <1>8, <2>1, <2>2 DEF RecordOK
<1>11. Later(r, s)
  <2> SUFFICES ASSUME late = r.late, NEW x \in Days, NEW c \in Datasets, NEW f \in ContextFields,
                      InForce(r, x)[c][f] # None
               PROVE  InForce(s, x)[c][f] # None
    BY <1>7, <1>8 DEF Later
  <2>1. CASE x >= day
    <3>1. x >= r.written /\ day >= r.written
      BY <1>1, <1>3, <1>7, <2>1
    <3>2. InForce(r, x) = InForce(r, day)
      BY <3>1 DEF RecordOK
    <3> QED
      BY <1>4, <1>9, <2>1, <3>2
  <2>2. CASE ~(x >= day)
    BY <1>9, <2>2
  <2> QED
    BY <2>1, <2>2
<1> QED
  BY <1>2, <1>8, <1>10, <1>11 DEF heard

\* What has the evidence of another record is as good.
LEMMA SameEvidence ==
    ASSUME NEW r, RecordOK(r), NEW s \in Product,
           s.evidence = r.evidence, s.types = r.types, s.written = r.written, s.late = r.late
    PROVE  RecordOK(s) /\ Later(r, s)
<1>1. \A x \in Days : InForce(s, x) = InForce(r, x)
  BY DEF InForce
<1>2. r.late \in Nat
  BY DEF RecordOK, Product
<1> QED
  BY <1>1, <1>2 DEF RecordOK, Later

LEMMA LaterSelf ==
    ASSUME NEW r, RecordOK(r)
    PROVE  Later(r, r)
<1>1. r.late \in Nat
  BY DEF RecordOK, Product
<1> QED
  BY <1>1 DEF Later

LEMMA LaterTwice ==
    ASSUME NEW q, RecordOK(q), NEW r, RecordOK(r), NEW s, RecordOK(s), Later(q, r), Later(r, s)
    PROVE  Later(q, s)
<1>1. q.late \in Nat /\ r.late \in Nat /\ s.late \in Nat
  BY DEF RecordOK, Product
<1>2. q.late <= s.late /\ (s.late = q.late => s.late = r.late /\ r.late = q.late)
  BY <1>1 DEF Later
<1> QED
  BY <1>2 DEF Later

\* A classification adds to what is known of a product, and keeps it in review.
LEMMA ClassifiedOK ==
    ASSUME NEW r, RecordOK(r), NEW d \in Datasets, NEW report \in Reports, NEW day \in Days,
           NEW cited \in BOOLEAN
    PROVE  LET s == Classified(r, d, report, day, cited)
           IN  /\ RecordOK(s) /\ Later(r, s)
               /\ s.classes = r.classes /\ s.company = r.company /\ s.history = r.history
               /\ s.revision > 0
               /\ InReview(r) => InReview(s)
               /\ s.heard = r.heard \cup {d}
<1> DEFINE m == Evidenced(r, d, report, day)
           n == r.revision + IF Makes(r, d, report, day, cited) THEN 1 ELSE 0
           g == IF r.grouping = 0 THEN 0 ELSE n
           s == [m EXCEPT !.revision = n, !.grouping = g]
<1>1. /\ RecordOK(m) /\ Later(r, m)
      /\ m.classes = r.classes /\ m.company = r.company /\ m.history = r.history
      /\ m.revision = r.revision /\ m.grouping = r.grouping
      /\ m.heard = r.heard \cup {d}
  BY EvidencedOK
<1>2. r.revision \in Nat /\ r.grouping \in Nat
  BY DEF RecordOK, Product
<1>3. n \in Nat /\ n > 0 /\ g \in Nat
  BY <1>2 DEF Makes
<1>4. r.revision > 0 /\ r.grouping = r.revision => g = n
  BY <1>2
<1>5. s = Classified(r, d, report, day, cited)
  <2>1. Classified(r, d, report, day, cited) =
          [m EXCEPT !.revision = n, !.grouping = IF @ = 0 THEN 0 ELSE n]
    BY DEF Classified
  <2>2. m \in Product
    BY <1>1 DEF RecordOK
  <2> HIDE DEF m, n
  <2> QED
    BY <1>1, <2>1, <2>2 DEF Product
<1> HIDE DEF m, n, g
<1>6. /\ s \in Product /\ s.evidence = m.evidence /\ s.types = m.types
      /\ s.written = m.written /\ s.late = m.late /\ s.heard = m.heard
      /\ s.revision = n /\ s.grouping = g
      /\ s.classes = m.classes /\ s.company = m.company /\ s.history = m.history
  BY <1>1, <1>3 DEF RecordOK, Product
<1> HIDE DEF s
<1>7. RecordOK(s) /\ Later(m, s)
  BY <1>1, <1>6, SameEvidence
<1>8. Later(r, s)
  BY <1>1, <1>7, LaterTwice
<1> QED
  BY <1>1, <1>3, <1>4, <1>5, <1>6, <1>7, <1>8 DEF InReview

LEMMA NewProductOK ==
    ASSUME NEW class \in Classes
    PROVE  LET r == [NewProduct EXCEPT !.classes = {class}]
           IN  RecordOK(r) /\ r.classes = {class} /\ LastWord(r, None)
<1> DEFINE none == [x \in Days |-> None]
           types == [d \in Datasets |-> None]
           empty == <<>>
           r == [classes |-> {class}, evidence |-> none, revision |-> 0, grouping |-> 0,
                 company |-> None, history |-> empty,
                 heard |-> {}, written |-> 0, late |-> 0, types |-> types]
<1>1. r = [NewProduct EXCEPT !.classes = {class}]
  <2>1. NewProduct = [classes |-> {}, evidence |-> none, revision |-> 0, grouping |-> 0,
                      company |-> None, history |-> empty,
                      heard |-> {}, written |-> 0, late |-> 0, types |-> types]
    BY DEF NewProduct
  <2> HIDE DEF none, types, empty
  <2> QED
    BY <2>1
<1>2. none \in [Days -> [Datasets -> Evidence] \cup {None}] /\ 0 \in Days
  BY InputAssumption DEF Days
<1>3. <<>> \in Seq(Versions)
  OBVIOUS
<1>4. types \in [Datasets -> Types \cup {None}] /\ \A d \in Datasets : types[d] = None
  OBVIOUS
<1>5. \A x \in Days : none[x] = None
  OBVIOUS
<1> HIDE DEF none, types
<1>6. r \in Product /\ r.evidence = none /\ r.types = types
  BY <1>2, <1>3, <1>4 DEF Product
<1>7. RecordOK(r)
  BY <1>4, <1>5, <1>6 DEF RecordOK, InForce
<1> QED
  BY <1>1, <1>7 DEF LastWord

\* None is no record, no word and no share.
LEMMA NoneIsNothing ==
    /\ \A r : RecordOK(r) => r # None
    /\ \A w \in Words : w # None
    /\ \A s \in Shares : s # None
BY InputAssumption DEF RecordOK

LEMMA GroupedOK ==
    ASSUME NEW name \in Names, NEW membership \in Memberships \cup {None}
    PROVE  LET r == Grouped(name, membership)
           IN  /\ RecordOK(r) /\ r.classes = Classes /\ r.heard = {}
               /\ r.company = None /\ r.history = <<[report |-> NoReport, name |-> name, at |-> 0]>>
               /\ LastWord(r, [name |-> name, at |-> 0])
<1> DEFINE none == [x \in Days |-> None]
           told1 == IF membership = None THEN none ELSE [x \in Days |-> Listed(membership)]
           types == [d \in Datasets |-> None]
           n == IF membership = None THEN 0 ELSE 1
           h == <<[report |-> NoReport, name |-> name, at |-> 0]>>
           r == [classes |-> Classes, evidence |-> told1, revision |-> n, grouping |-> 0,
                 company |-> None, history |-> h,
                 heard |-> {}, written |-> 0, late |-> 0, types |-> types]
<1>1. r = Grouped(name, membership)
  <2>1. NewProduct = [classes |-> {}, evidence |-> none, revision |-> 0, grouping |-> 0,
                      company |-> None, history |-> <<>>,
                      heard |-> {}, written |-> 0, late |-> 0, types |-> types]
    BY DEF NewProduct
  <2>2. Grouped(name, membership) =
          [NewProduct EXCEPT !.classes = Classes,
                       !.evidence = IF membership = None THEN @
                                    ELSE [x \in Days |-> Listed(membership)],
                       !.revision = n, !.history = h]
    BY DEF Grouped
  <2> HIDE DEF none, types, h, n
  <2> QED
    BY <2>1, <2>2
<1>2. Listed(membership) \in [Datasets -> Evidence]
  <2> DEFINE e == [NoEvidence EXCEPT !.index_membership = membership]
  <2>1. NoEvidence \in Evidence /\ e \in Evidence
    BY DEF NoEvidence, NoReport, Evidence
  <2>2. Listed(membership) = [d \in Datasets |-> IF d = "fund_index" THEN e ELSE NoEvidence]
    BY DEF Listed, Nothing, Datasets
  <2> HIDE DEF e
  <2> QED
    BY <2>1, <2>2
<1>3. /\ told1 \in [Days -> [Datasets -> Evidence] \cup {None}]
      /\ \A x, y \in Days : told1[x] = told1[y]
  BY <1>2
<1>4. h \in Seq(Versions) /\ Len(h) = 1 /\ h[1].name = name /\ DOMAIN h = {1} /\ h # <<>>
  BY DEF Versions
<1>5. n \in Nat /\ 0 \in Days
  BY InputAssumption DEF Days
<1>6. types \in [Datasets -> Types \cup {None}] /\ \A d \in Datasets : types[d] = None
  OBVIOUS
<1> HIDE DEF told1, h, n, types
<1>7. /\ r \in Product /\ r.classes = Classes /\ r.types = types /\ r.evidence = told1
      /\ r.company = None /\ r.history = h /\ r.heard = {}
  BY <1>3, <1>4, <1>5, <1>6 DEF Product
<1> HIDE DEF r
<1>8. RecordOK(r)
  BY <1>3, <1>6, <1>7 DEF RecordOK, InForce
<1>9. LastWord(r, [name |-> name, at |-> 0])
  <2> DEFINE word == [name |-> name, at |-> 0]
  <2>1. word \in Words /\ word.name = name /\ word.at = 0
    BY DEF Words
  <2> HIDE DEF word
  <2>2. word # None
    BY <2>1, NoneIsNothing
  <2>3. LastWord(r, word)
    BY <1>4, <1>7, <2>1, <2>2 DEF LastWord
  <2> QED
    BY <2>3 DEF word
<1> QED
  BY <1>1, <1>7, <1>8, <1>9 DEF h

LEMMA InitCatalogue == Init => CatalogueInv
<1> SUFFICES ASSUME Init PROVE CatalogueInv
  OBVIOUS
<1>0. today \in Days
  BY InputAssumption DEF Init, Days
<1>1. /\ tx = [w \in Workers |-> None] /\ clock = 0
      /\ told = [p \in Products |-> IF product[p] = None THEN None
                                    ELSE [name |-> product[p].history[1].name, at |-> 0]]
  BY DEF Init
<1>2. \A w \in Workers : tx[w] = None /\ \A p \in Products : ~Holds(w, p)
  BY <1>1 DEF Holds
<1>3. CASE product = Nowhere /\ identity = Unmapped
  <2>1. \A p \in Products : product[p] = None /\ told[p] = None
    BY <1>1, <1>3 DEF Nowhere
  <2>2. \A c \in Codes : identity[c] = None
    BY <1>3 DEF Unmapped
  <2>3. product = [p \in Products |-> product[p]] /\ told = [p \in Products |-> told[p]]
    BY <1>1, <1>3 DEF Nowhere
  <2> QED
    BY <1>0, <1>1, <1>2, <2>1, <2>2, <2>3 DEF CatalogueInv, RowInv, Free
<1>4. ASSUME NEW name \in Names, NEW class \in [Codes -> Classes],
             NEW listed \in Memberships \cup {None},
             product = [Nowhere EXCEPT ![Legacy] = Grouped(name, listed)],
             identity = [c \in Codes |-> [product |-> Legacy, class |-> class[c]]]
      PROVE  CatalogueInv
  <2> DEFINE r == Grouped(name, listed)
             word == [name |-> name, at |-> 0]
  <2>1. /\ Legacy \in Products
        /\ product = [p \in Products |-> IF p = Legacy THEN r ELSE None]
    BY <1>4 DEF Nowhere, Products
  <2>2. /\ RecordOK(r) /\ r.classes = Classes /\ r.heard = {}
        /\ LastWord(r, word) /\ r.history[1].name = name /\ r # None
    <3>1. /\ RecordOK(r) /\ r.classes = Classes /\ r.heard = {}
          /\ r.history = <<[report |-> NoReport, name |-> name, at |-> 0]>>
          /\ LastWord(r, word)
      BY GroupedOK
    <3> HIDE DEF r
    <3> QED
      BY <3>1, NoneIsNothing
  <2> HIDE DEF r
  <2>3. word \in Words /\ word.at = 0
    BY DEF Words
  <2>4. /\ told = [p \in Products |-> told[p]]
        /\ \A p \in Products : told[p] = IF p = Legacy THEN word ELSE None
    BY <1>1, <2>1, <2>2
  <2> HIDE DEF word
  <2>5. \A p \in Products : RowInv(p, product, told, clock)
    BY <1>1, <2>1, <2>2, <2>3, <2>4 DEF RowInv, Whole, Placed
  <2>6. \A c \in Codes : ShareOK(identity[c], product)
    BY <1>4, <2>1, <2>2 DEF ShareOK, Shares
  <2>7. product = [p \in Products |-> product[p]] /\ clock \in Nat
    BY <1>1, <2>1
  <2> QED
    BY <1>0, <1>2, <2>4, <2>5, <2>6, <2>7 DEF CatalogueInv
<1> QED
  BY <1>3, <1>4 DEF Init

-----------------------------------------------------------------------------
(* The steps                                                               *)

\* What nobody else holds stays so while a transaction writes it alone.
LEMMA OneWrites ==
    ASSUME IInv, CatalogueInv, NEW w \in Workers, NEW t,
           tx' = [tx EXCEPT ![w] = t],
           UNCHANGED <<product, identity, told, today>>,
           clock' \in Nat, clock' >= clock,
           t # None => /\ TransactionInv(t, product, told, clock')
                       /\ \A p \in Products : t.product[p] # None => Holds(w, p) \/ Free(w, p)
    PROVE  CatalogueInv'
<1>1. tx'[w] = t /\ \A v \in Workers \ {w} : tx'[v] = tx[v]
  BY DEF IInv, Shape
<1>2. \A n : n \in Nat /\ n <= clock => n <= clock'
  BY DEF CatalogueInv
<1>3. \A p \in Products : RowInv(p, product, told, clock')
  BY <1>2 DEF CatalogueInv, RowInv, Words
<1>4. \A v \in Workers \ {w} : tx[v] # None => TransactionInv(tx[v], product, told, clock')
  BY <1>2 DEF CatalogueInv, TransactionInv, WriteInv, Words
<1>5. \A v \in Workers, p \in Products : Holds(v, p)' => Free(v, p)'
  <2> SUFFICES ASSUME NEW v \in Workers, NEW p \in Products, Holds(v, p)',
                      NEW u \in Workers \ {v}, Holds(u, p)'
               PROVE  FALSE
    BY DEF Free
  <2>1. \A x \in Workers \ {w} : Holds(x, p)' <=> Holds(x, p)
    BY <1>1 DEF Holds
  <2>2. \A x, y \in Workers : Holds(x, p) /\ Holds(y, p) => x = y
    BY DEF CatalogueInv, Free
  <2>3. Holds(w, p)' => Holds(w, p) \/ Free(w, p)
    BY <1>1 DEF Holds
  <2> QED
    BY <2>1, <2>2, <2>3 DEF Free
<1>6. \A v \in Workers : tx'[v] # None => TransactionInv(tx'[v], product, told, clock')
  BY <1>1, <1>4
<1> QED
  BY <1>3, <1>5, <1>6 DEF CatalogueInv

LEMMA RunningKnows ==
    ASSUME IInv, CatalogueInv, NEW w \in Workers, NEW program, NEW stage,
           Runs(w, program, stage)
    PROVE  /\ TxOK(tx[w]) /\ tx[w] # None /\ TransactionInv(tx[w], product, told, clock)
           /\ tx[w].program = program /\ tx[w].stage = stage /\ tx[w].left # <<>>
           /\ \A p \in Products : tx[w].product[p] # None => Holds(w, p)
           /\ tx[w].day \in Days /\ today \in Days
           /\ clock \in Nat /\ clock + 1 \in Nat /\ clock <= clock + 1
<1>1. /\ TxOK(tx[w]) /\ tx[w] # None /\ TransactionInv(tx[w], product, told, clock)
      /\ tx[w].program = program /\ tx[w].stage = stage /\ tx[w].left # <<>>
  BY RunningOK DEF Runs, CatalogueInv
<1>2. tx[w].day \in Days
  BY <1>1 DEF TransactionInv
<1> QED
  BY <1>1, <1>2 DEF CatalogueInv, Holds

\* A transaction that goes on without writing.
LEMMA SameWrites ==
    ASSUME NEW rows, NEW words, NEW time, NEW later, time \in Nat, later \in Nat, time <= later,
           NEW s, TransactionInv(s, rows, words, time), s.stage # "classify",
           NEW t, t.product = s.product, t.told = s.told, t.identity = s.identity,
           LeftInv(t, rows), SeenInv(t, rows), t.day \in Days
    PROVE  TransactionInv(t, rows, words, later)
<1>1. ASSUME NEW p \in Products PROVE WriteInv(t, p, rows, words, later)
  <2>1. WriteInv(s, p, rows, words, time) /\ ~Pending(s, p)
    BY DEF TransactionInv, Pending
  <2>2. s.told[p] \in Words /\ s.told[p].at <= time => s.told[p].at <= later
    BY DEF Words
  <2> QED
    BY <2>1, <2>2 DEF WriteInv, WordOf
<1> QED
  BY <1>1 DEF TransactionInv

LEMMA TailLeft ==
    ASSUME NEW rows, NEW s, LeftInv(s, rows), s.left # <<>>,
           NEW t, t.program = s.program, t.left = Tail(s.left),
           s.program = "backfill" => t.told = s.told
    PROVE  LeftInv(t, rows)
<1>1. ASSUME NEW S, s.left \in Seq(S) PROVE t.left \in Seq(S)
  BY <1>1
<1>2. ASSUME s.left \in Seq(Products), \A i \in DOMAIN s.left : rows[s.left[i]] # None
      PROVE  \A i \in DOMAIN t.left : rows[t.left[i]] # None
  <2>1. /\ Len(s.left) \in Nat \ {0} /\ Len(t.left) = Len(s.left) - 1
        /\ DOMAIN s.left = 1..Len(s.left) /\ DOMAIN t.left = 1..Len(t.left)
        /\ \A i \in 1..Len(t.left) : t.left[i] = s.left[i + 1]
    BY <1>2
  <2>2. \A i \in 1..Len(t.left) : i + 1 \in 1..Len(s.left)
    BY <2>1
  <2> QED
    BY <1>2, <2>1, <2>2
<1> QED
  BY <1>1, <1>2 DEF LeftInv

\* The item in hand.
LEMMA HeadLeft ==
    ASSUME NEW S, NEW left \in Seq(S), left # <<>>
    PROVE  Head(left) \in S /\ 1 \in DOMAIN left /\ left[1] = Head(left)
<1>1. Len(left) \in Nat \ {0} /\ DOMAIN left = 1..Len(left)
  OBVIOUS
<1> QED
  BY <1>1

\* What a transaction sees of a product is good, written by it or committed.
LEMMA SeenRow ==
    ASSUME IInv, CatalogueInv, NEW w \in Workers, tx[w] # None, NEW p \in Products,
           ProductSeen(w, p) # None
    PROVE  /\ RecordOK(ProductSeen(w, p)) /\ Whole(p, ProductSeen(w, p))
           /\ Placed(p, ProductSeen(w, p)) \/ Pending(tx[w], p)
           /\ LastWord(ProductSeen(w, p), WordOf(tx[w], p, told))
           /\ product[p] # None => Later(product[p], ProductSeen(w, p))
<1>1. WriteInv(tx[w], p, product, told, clock) /\ RowInv(p, product, told, clock)
  BY DEF CatalogueInv, TransactionInv
<1>2. CASE Holds(w, p)
  BY <1>1, <1>2 DEF ProductSeen, Holds, WriteInv
<1>3. CASE ~Holds(w, p)
  <2>1. ProductSeen(w, p) = product[p] /\ tx[w].told[p] = None
    BY <1>1, <1>3 DEF ProductSeen, Holds, WriteInv
  <2>2. product[p] # None => Later(product[p], product[p])
    BY <1>1, LaterSelf DEF RowInv
  <2> QED
    BY <1>1, <2>1, <2>2 DEF RowInv, WordOf
<1> QED
  BY <1>2, <1>3

\* A transaction that writes one product.
LEMMA OneWrite ==
    ASSUME NEW rows, NEW words, NEW time, NEW later, time \in Nat, later \in Nat, time <= later,
           NEW s, TransactionInv(s, rows, words, time),
           NEW p \in Products, \A q \in Products \ {p} : ~Pending(s, q),
           NEW t, t.product = [q \in Products |-> t.product[q]],
           t.told = [q \in Products |-> t.told[q]],
           \A q \in Products \ {p} : t.product[q] = s.product[q] /\ t.told[q] = s.told[q],
           WriteInv(t, p, rows, words, later),
           \A c \in Codes : t.identity[c] # None => ShareOK(t.identity[c], rows),
           LeftInv(t, rows), SeenInv(t, rows), t.day \in Days
    PROVE  TransactionInv(t, rows, words, later)
<1>1. ASSUME NEW q \in Products \ {p} PROVE WriteInv(t, q, rows, words, later)
  <2>1. WriteInv(s, q, rows, words, time) /\ ~Pending(s, q)
    BY DEF TransactionInv
  <2>2. s.told[q] \in Words /\ s.told[q].at <= time => s.told[q].at <= later
    BY DEF Words
  <2>3. t.product[q] = s.product[q] /\ t.told[q] = s.told[q]
    OBVIOUS
  <2> QED
    BY <2>1, <2>2, <2>3 DEF WriteInv, WordOf
<1> QED
  BY <1>1 DEF TransactionInv

LEMMA BeginKeeps ==
    ASSUME IInv, CatalogueInv, NEW w \in Workers, NEW program, NEW left, NEW answers,
           Begin(w, program, left, answers),
           \/ program = "ingest-funds" /\ left \in Seq(Rows)
           \/ /\ program = "basic-info" /\ left \in Seq(Products)
              /\ \A i \in DOMAIN left : product[left[i]] # None
           \/ program = "backfill" /\ left \in Seq(Products),
           UNCHANGED <<product, identity, told, clock>>
    PROVE  CatalogueInv'
<1> DEFINE t == [program |-> program, left |-> left, seen |-> None, several |-> FALSE,
                 stage |-> "first", day |-> today, product |-> Nowhere, identity |-> Unmapped,
                 told |-> Nowhere, raw |-> answers, answered |-> answers,
                 stored |-> 0, captured |-> 0]
<1>1. tx' = [tx EXCEPT ![w] = t] /\ UNCHANGED today
  BY DEF Begin
<1>2. /\ t.program = program /\ t.left = left /\ t.stage = "first"
      /\ t.product = [p \in Products |-> None] /\ t.told = [p \in Products |-> None]
      /\ \A c \in Codes : t.identity[c] = None
      /\ t.day \in Days
  BY DEF Nowhere, Unmapped, CatalogueInv
<1> HIDE DEF t
<1>3. TransactionInv(t, product, told, clock)
  BY <1>2 DEF TransactionInv, WriteInv, LeftInv, SeenInv
<1>4. \A p \in Products : t.product[p] = None
  BY <1>2
<1>5. clock' \in Nat /\ clock' >= clock /\ TransactionInv(t, product, told, clock')
  BY <1>3 DEF CatalogueInv
<1> QED
  BY <1>1, <1>4, <1>5, OneWrites

LEMMA BeginsKeep ==
    ASSUME IInv, CatalogueInv, NEW w \in Workers, IngestFunds(w) \/ BasicInfo(w) \/ Backfill(w)
    PROVE  CatalogueInv'
<1>1. CASE IngestFunds(w)
  BY <1>1, BeginKeeps, InputAssumption DEF IngestFunds
<1>2. CASE BasicInfo(w)
  BY <1>2, BeginKeeps, InputAssumption DEF BasicInfo
<1>3. CASE Backfill(w)
  BY <1>3, BeginKeeps, InputAssumption DEF Backfill
<1> QED
  BY <1>1, <1>2, <1>3

LEMMA LookUpKeeps ==
    ASSUME IInv, CatalogueInv, NEW w \in Workers, LookUp(w)
    PROVE  CatalogueInv'
<1> DEFINE code == Head(tx[w].left).code
           seen == IdentitySeen(w, code)
           t == [tx[w] EXCEPT !.seen = seen, !.stage = "register"]
<1>1. /\ TxOK(tx[w]) /\ TransactionInv(tx[w], product, told, clock)
      /\ tx[w].program = "ingest-funds" /\ tx[w].stage = "first" /\ tx[w].left # <<>>
      /\ \A p \in Products : tx[w].product[p] # None => Holds(w, p)
      /\ clock \in Nat /\ tx[w].day \in Days
  BY RunningKnows DEF LookUp
<1>2. tx' = [tx EXCEPT ![w] = t] /\ UNCHANGED <<product, identity, told, clock, today>>
  BY DEF LookUp
<1>3. code \in Codes
  <2>1. tx[w].left \in Seq(Rows)
    BY <1>1 DEF TransactionInv, LeftInv
  <2>2. Head(tx[w].left) \in Rows
    BY <1>1, <2>1, HeadLeft
  <2> QED
    BY <2>2 DEF Rows
<1>4. seen = None \/ ShareOK(seen, product)
  BY <1>1, <1>3 DEF IdentitySeen, Maps, TransactionInv, CatalogueInv
<1> HIDE DEF seen
<1>5. /\ t.product = tx[w].product /\ t.told = tx[w].told /\ t.identity = tx[w].identity
      /\ t.left = tx[w].left /\ t.program = tx[w].program /\ t.stage = "register"
      /\ t.seen = seen /\ t.day = tx[w].day
  BY <1>1 DEF TxOK, Fields
<1> HIDE DEF t
<1>6. LeftInv(t, product) /\ SeenInv(t, product)
  BY <1>1, <1>4, <1>5 DEF TransactionInv, LeftInv, SeenInv
<1>7. TransactionInv(t, product, told, clock)
  BY <1>1, <1>5, <1>6, SameWrites
<1>8. clock' \in Nat /\ clock' >= clock /\ TransactionInv(t, product, told, clock')
  BY <1>1, <1>2, <1>7
<1> QED
  BY <1>1, <1>2, <1>5, <1>8, OneWrites

LEMMA FailKeeps ==
    ASSUME IInv, CatalogueInv, NEW w \in Workers, Fail(w)
    PROVE  CatalogueInv'
<1>1. /\ tx' = [tx EXCEPT ![w] = None] /\ UNCHANGED <<product, identity, told, today>>
      /\ clock' \in Nat /\ clock' >= clock
  BY DEF Fail, CatalogueInv
<1> QED
  BY <1>1, OneWrites

LEMMA CloseIdentityKeeps ==
    ASSUME IInv, CatalogueInv, NEW c \in Codes, CloseIdentity(c)
    PROVE  CatalogueInv'
<1>1. /\ identity' = [identity EXCEPT ![c] = None] /\ UNCHANGED <<product, tx, told, clock, today>>
      /\ \A d \in Codes : identity'[d] \in {identity[d], None}
  BY DEF CloseIdentity, IInv, Shape
<1>2. \A w \in Workers, p \in Products : (Holds(w, p)' <=> Holds(w, p)) /\ (Free(w, p)' <=> Free(w, p))
  BY <1>1 DEF Holds, Free
<1> QED
  BY <1>1, <1>2 DEF CatalogueInv

LEMMA RegisterKeeps ==
    ASSUME IInv, CatalogueInv, NEW w \in Workers, Register(w)
    PROVE  CatalogueInv'
<1> DEFINE row == Head(tx[w].left)
           share == ShareOf(row, tx[w].seen)
           p == share.product
           old == ProductSeen(w, p)
           new == IF old = None THEN [NewProduct EXCEPT !.classes = {share.class}]
                  ELSE [old EXCEPT !.classes = @ \cup {share.class}]
           written == IF new # old THEN new ELSE None
           mapped == EnsureIdentity(IdentitySeen(w, row.code), share)
           several == Cardinality(new.classes) > 1
           t == Registered(tx[w], share, several, written, row.code, mapped)
<1>1. /\ TxOK(tx[w]) /\ TransactionInv(tx[w], product, told, clock) /\ tx[w] # None
      /\ tx[w].program = "ingest-funds" /\ tx[w].stage = "register" /\ tx[w].left # <<>>
      /\ \A q \in Products : tx[w].product[q] # None => Holds(w, q)
      /\ clock \in Nat /\ tx[w].day \in Days
  BY RunningKnows DEF Register
<1>2. /\ tx' = [tx EXCEPT ![w] = t] /\ UNCHANGED <<product, identity, told, clock, today>>
      /\ written # None => Free(w, p)
  BY DEF Register
<1>3. row \in Rows /\ row.code \in Codes /\ row.class \in Classes
  <2>1. tx[w].left \in Seq(Rows)
    BY <1>1 DEF TransactionInv, LeftInv
  <2>2. row \in Rows
    BY <1>1, <2>1, HeadLeft
  <2> QED
    BY <2>2 DEF Rows
<1>4. /\ ShareOK(share, product) /\ p \in Products /\ share.class \in Classes
      /\ p = Legacy => product[Legacy] # None
  <2>1. tx[w].seen = None \/ ShareOK(tx[w].seen, product)
    BY <1>1 DEF TransactionInv, SeenInv
  <2>2. ShareOK(share, product)
    BY <1>3, <2>1, InputAssumption DEF ShareOf, ShareOK, Shares, Products
  <2> HIDE DEF share
  <2> QED
    BY <2>2 DEF ShareOK, Shares
<1> HIDE DEF row, share
<1>5. old # None => /\ RecordOK(old) /\ Whole(p, old) /\ Placed(p, old)
                    /\ LastWord(old, WordOf(tx[w], p, told))
                    /\ product[p] # None => Later(product[p], old)
  <2>1. ~Pending(tx[w], p)
    BY <1>1 DEF Pending
  <2> QED
    BY <1>1, <1>4, <2>1, SeenRow
<1>6. p = Legacy => old # None
  BY <1>1, <1>4 DEF ProductSeen, Holds
<1>7. old = None => product[p] = None /\ told[p] = None /\ tx[w].told[p] = None
  <2>1. WriteInv(tx[w], p, product, told, clock) /\ RowInv(p, product, told, clock)
    BY <1>1, <1>4 DEF CatalogueInv, TransactionInv
  <2> QED
    BY <1>1, <2>1 DEF ProductSeen, Holds, WriteInv, RowInv
<1>b. product[p] # None => RecordOK(product[p])
  BY <1>4 DEF CatalogueInv, RowInv
<1> HIDE DEF old
<1>8. /\ RecordOK(new) /\ Whole(p, new)
      /\ LastWord(new, WordOf(tx[w], p, told))
      /\ product[p] # None => Later(product[p], new)
      /\ new # None
  <2>1. CASE old = None
    BY <1>4, <1>6, <1>7, <2>1, NewProductOK, NoneIsNothing DEF Whole, WordOf
  <2>2. CASE old # None
    <3> DEFINE k == old.classes \cup {share.class}
    <3>1. /\ old \in Product /\ k \in SUBSET Classes
          /\ new = [old EXCEPT !.classes = k]
      BY <1>4, <1>5, <2>2 DEF RecordOK, Product
    <3>2. p = Legacy => k = Classes
      BY <1>4, <1>5, <2>2 DEF Whole
    <3> HIDE DEF k, new
    <3>3. /\ new \in Product /\ new.classes = k
          /\ new.evidence = old.evidence /\ new.types = old.types
          /\ new.written = old.written /\ new.late = old.late
          /\ new.company = old.company /\ new.history = old.history
      BY <3>1 DEF Product
    <3>4. RecordOK(new) /\ Later(old, new)
      BY <1>5, <2>2, <3>3, SameEvidence
    <3>5. product[p] # None => Later(product[p], new)
      BY <1>5, <1>b, <2>2, <3>4, LaterTwice
    <3> QED
      BY <1>5, <2>2, <3>2, <3>3, <3>4, <3>5, NoneIsNothing DEF Whole, LastWord
  <2> QED
    BY <2>1, <2>2
<1>9. /\ several = Several(new)
      /\ p = Legacy /\ Cardinality(Classes) > 1 => several
      /\ written = None => new = old
      /\ written # None => written = new
      /\ new = old => written = None
  BY <1>8 DEF Several, Whole
<1>10. mapped # None => ShareOK(mapped, product)
  BY <1>4 DEF EnsureIdentity
<1> HIDE DEF new, several, written, mapped
<1>11. /\ t.product = [tx[w].product EXCEPT ![p] = IF written # None THEN written ELSE @]
       /\ t.told = tx[w].told /\ t.left = tx[w].left /\ t.program = tx[w].program
       /\ t.stage = "classify" /\ t.seen = share /\ t.several = several
       /\ t.day = tx[w].day
  BY <1>1 DEF Registered, TxOK, Fields
<1>12. \A c \in Codes : t.identity[c] = IF c = row.code /\ mapped # None THEN mapped
                                        ELSE tx[w].identity[c]
  BY <1>1, RegisteredOK
<1> HIDE DEF t
<1>13. /\ t.product = [q \in Products |-> t.product[q]] /\ t.told = [q \in Products |-> t.told[q]]
       /\ \A q \in Products \ {p} : t.product[q] = tx[w].product[q] /\ t.told[q] = tx[w].told[q]
       /\ t.told[p] = tx[w].told[p]
       /\ t.product[p] = IF written # None THEN new ELSE tx[w].product[p]
  BY <1>1, <1>4, <1>9, <1>11 DEF TransactionInv
<1>14. WriteInv(t, p, product, told, clock)
  <2>1. WriteInv(tx[w], p, product, told, clock)
    BY <1>1, <1>4 DEF TransactionInv
  <2>2. Placed(p, new) \/ Pending(t, p)
    BY <1>9, <1>11 DEF Placed, Pending
  <2>3. CASE written # None
    BY <1>8, <1>13, <2>1, <2>2, <2>3 DEF WriteInv, WordOf
  <2>4. CASE written = None
    <3>1. ~Pending(tx[w], p)
      BY <1>1 DEF Pending
    <3> QED
      BY <1>13, <2>1, <2>4, <3>1 DEF WriteInv, WordOf
  <2> QED
    BY <2>3, <2>4
<1>15. LeftInv(t, product) /\ SeenInv(t, product)
  <2>1. t.product[p] # None \/ product[p] # None
    <3>1. CASE written # None
      BY <1>8, <1>13, <3>1
    <3>2. CASE written = None
      <4>1. old # None
        BY <1>8, <1>9, <3>2
      <4> QED
        BY <1>13, <3>2, <4>1 DEF old, ProductSeen, Holds
    <3> QED
      BY <3>1, <3>2
  <2>2. LeftInv(t, product)
    BY <1>1, <1>11 DEF TransactionInv, LeftInv
  <2> QED
    BY <1>4, <1>9, <1>11, <2>1, <2>2 DEF SeenInv
<1>16. TransactionInv(t, product, told, clock)
  <2>1. \A q \in Products \ {p} : ~Pending(tx[w], q)
    BY <1>1 DEF Pending
  <2>2. \A c \in Codes : t.identity[c] # None => ShareOK(t.identity[c], product)
    BY <1>1, <1>10, <1>12 DEF TransactionInv
  <2>3. clock <= clock
    BY <1>1
  <2> QED
    BY <1>1, <1>4, <1>11, <1>13, <1>14, <1>15, <2>1, <2>2, <2>3, OneWrite
<1>17. \A q \in Products : t.product[q] # None => Holds(w, q) \/ Free(w, q)
  BY <1>1, <1>2, <1>13
<1>18. clock' \in Nat /\ clock' >= clock /\ TransactionInv(t, product, told, clock')
  BY <1>1, <1>2, <1>16
<1> QED
  BY <1>2, <1>17, <1>18, OneWrites

LEMMA ClassifyKeeps ==
    ASSUME IInv, CatalogueInv, NEW w \in Workers, Classify(w)
    PROVE  CatalogueInv'
<1> DEFINE row == Head(tx[w].left)
           p == tx[w].seen.product
           old == ProductSeen(w, p)
           New(cited) == Classified(old, "fund_list", row.report, tx[w].day, cited)
<1>0. PICK cited \in BOOLEAN :
        tx' = [tx EXCEPT ![w].stage = "first", ![w].left = Tail(@), ![w].seen = None,
                         ![w].several = FALSE,
                         ![w].product[p] = IF tx[w].several
                                           THEN [New(cited) EXCEPT !.grouping = New(cited).revision]
                                           ELSE New(cited)]
  BY DEF Classify
<1> DEFINE new == New(cited)
           filed == IF tx[w].several THEN [new EXCEPT !.grouping = new.revision] ELSE new
           t == [tx[w] EXCEPT !.stage = "first", !.left = Tail(@), !.seen = None,
                              !.several = FALSE, !.product[p] = filed]
<1>1. /\ TxOK(tx[w]) /\ TransactionInv(tx[w], product, told, clock) /\ tx[w] # None
      /\ tx[w].program = "ingest-funds" /\ tx[w].stage = "classify" /\ tx[w].left # <<>>
      /\ \A q \in Products : tx[w].product[q] # None => Holds(w, q)
      /\ clock \in Nat /\ tx[w].day \in Days
  BY RunningKnows DEF Classify
<1>2. tx' = [tx EXCEPT ![w] = t] /\ UNCHANGED <<product, identity, told, clock, today>> /\ Free(w, p)
  <2>1. tx' = [tx EXCEPT ![w] = t]
    <3> HIDE DEF New
    <3> QED
      BY <1>0, <1>1 DEF TxOK, Fields
  <2> QED
    BY <2>1 DEF Classify
<1>3. row.report \in Reports
  <2>1. tx[w].left \in Seq(Rows)
    BY <1>1 DEF TransactionInv, LeftInv
  <2>2. row \in Rows
    BY <1>1, <2>1, HeadLeft
  <2> QED
    BY <2>2 DEF Rows
<1>4. /\ p \in Products /\ old # None
      /\ p = Legacy /\ Cardinality(Classes) > 1 => tx[w].several
  <2>1. SeenInv(tx[w], product)
    BY <1>1 DEF TransactionInv
  <2> QED
    BY <1>1, <2>1 DEF SeenInv, ShareOK, Shares, ProductSeen, Holds
<1>5. /\ RecordOK(old) /\ Whole(p, old)
      /\ Placed(p, old) \/ Pending(tx[w], p)
      /\ LastWord(old, WordOf(tx[w], p, told))
      /\ product[p] # None => Later(product[p], old)
  BY <1>1, <1>4, SeenRow
<1>b. product[p] # None => RecordOK(product[p])
  BY <1>4 DEF CatalogueInv, RowInv
<1> HIDE DEF old
<1>6. /\ RecordOK(new) /\ Later(old, new)
      /\ new.classes = old.classes /\ new.company = old.company /\ new.history = old.history
      /\ new.revision > 0 /\ (InReview(old) => InReview(new))
  BY <1>1, <1>3, <1>5, ClassifiedOK DEF Datasets
<1> HIDE DEF new
<1>7. /\ RecordOK(filed) /\ Later(old, filed)
      /\ filed.classes = old.classes /\ filed.company = old.company
      /\ filed.history = old.history
      /\ tx[w].several => InReview(filed)
      /\ InReview(old) => InReview(filed)
  <2>1. CASE ~tx[w].several
    BY <1>6, <2>1
  <2>2. CASE tx[w].several
    <3> DEFINE g == [new EXCEPT !.grouping = new.revision]
    <3>1. /\ g \in Product /\ g.evidence = new.evidence /\ g.types = new.types
          /\ g.written = new.written /\ g.late = new.late
          /\ g.classes = new.classes /\ g.company = new.company /\ g.history = new.history
          /\ g.revision = new.revision /\ g.grouping = new.revision
      BY <1>6 DEF RecordOK, Product
    <3> HIDE DEF g
    <3>2. filed = g
      BY <2>2 DEF g
    <3>3. RecordOK(g) /\ Later(new, g)
      BY <1>6, <3>1, SameEvidence
    <3>4. Later(old, g)
      BY <1>5, <1>6, <3>3, LaterTwice
    <3> QED
      BY <1>6, <2>2, <3>1, <3>2, <3>3, <3>4 DEF InReview
  <2> QED
    BY <2>1, <2>2
<1> HIDE DEF filed
<1>8. Placed(p, filed)
  <2>1. Several(filed) <=> Several(old)
    BY <1>7 DEF Several
  <2>2. CASE tx[w].several
    BY <1>7, <2>2 DEF Placed
  <2>3. CASE ~tx[w].several
    BY <1>4, <1>5, <1>7, <2>1, <2>3 DEF Placed, Pending, Whole, Several
  <2> QED
    BY <2>2, <2>3
<1>9. /\ t.product = [tx[w].product EXCEPT ![p] = filed]
      /\ t.told = tx[w].told /\ t.left = Tail(tx[w].left) /\ t.program = tx[w].program
      /\ t.identity = tx[w].identity /\ t.stage = "first" /\ t.day = tx[w].day
  BY <1>1 DEF TxOK, Fields
<1> HIDE DEF t
<1>10. /\ t.product = [q \in Products |-> t.product[q]] /\ t.told = [q \in Products |-> t.told[q]]
       /\ \A q \in Products \ {p} : t.product[q] = tx[w].product[q] /\ t.told[q] = tx[w].told[q]
       /\ t.product[p] = filed /\ t.told[p] = tx[w].told[p]
  BY <1>1, <1>4, <1>9 DEF TransactionInv
<1>11. WriteInv(t, p, product, told, clock)
  <2>1. WriteInv(tx[w], p, product, told, clock)
    BY <1>1, <1>4 DEF TransactionInv
  <2>2. LastWord(filed, WordOf(t, p, told))
    BY <1>5, <1>7, <1>10 DEF LastWord, WordOf
  <2>3. product[p] # None => Later(product[p], filed)
    BY <1>5, <1>7, <1>b, LaterTwice
  <2>4. filed # None /\ Whole(p, filed)
    BY <1>5, <1>7, NoneIsNothing DEF Whole
  <2> QED
    BY <1>7, <1>8, <1>10, <2>1, <2>2, <2>3, <2>4 DEF WriteInv
<1>12. LeftInv(t, product) /\ SeenInv(t, product)
  <2>1. LeftInv(tx[w], product)
    BY <1>1 DEF TransactionInv
  <2> QED
    BY <1>1, <1>9, <2>1, TailLeft DEF SeenInv
<1>13. TransactionInv(t, product, told, clock)
  <2>1. \A q \in Products \ {p} : ~Pending(tx[w], q)
    BY DEF Pending
  <2>2. \A c \in Codes : t.identity[c] # None => ShareOK(t.identity[c], product)
    BY <1>1, <1>9 DEF TransactionInv
  <2>3. clock <= clock
    BY <1>1
  <2> QED
    BY <1>1, <1>4, <1>9, <1>10, <1>11, <1>12, <2>1, <2>2, <2>3, OneWrite
<1>14. \A q \in Products : t.product[q] # None => Holds(w, q) \/ Free(w, q)
  BY <1>1, <1>2, <1>10
<1>15. clock' \in Nat /\ clock' >= clock /\ TransactionInv(t, product, told, clock')
  BY <1>1, <1>2, <1>13
<1> QED
  BY <1>2, <1>14, <1>15, OneWrites

\* What an item's end, failed or not, leaves of its transaction.
LEMMA ItemFields ==
    ASSUME NEW t, TxOK(t), NEW u \in Errors(t) \cup {ItemSucceeded(Answered(t))}
    PROVE  /\ DOMAIN u = Fields /\ u.product = t.product /\ u.told = t.told
           /\ u.identity = t.identity /\ u.program = t.program
           /\ u.left = Tail(t.left) /\ u.stage = "first" /\ u.day = t.day
<1> DEFINE v == Answered(t)
<1>1. /\ DOMAIN v = Fields /\ v.product = t.product /\ v.told = t.told
      /\ v.identity = t.identity /\ v.program = t.program /\ v.left = t.left
      /\ v.day = t.day
  BY DEF Answered, TxOK, Fields
<1>2. u \in {ItemFailed(v), ItemFailed(t), ItemSucceeded(v)}
  BY DEF Errors
<1> HIDE DEF v
<1>3. ASSUME NEW s, DOMAIN s = Fields, u \in {ItemFailed(s), ItemSucceeded(s)}
      PROVE  /\ DOMAIN u = Fields /\ u.product = s.product /\ u.told = s.told
             /\ u.identity = s.identity /\ u.program = s.program
             /\ u.left = Tail(s.left) /\ u.stage = "first" /\ u.day = s.day
  <2>1. CASE u = ItemFailed(s)
    BY <1>3, <2>1 DEF ItemFailed, EndOfItem, Fields
  <2>2. CASE u = ItemSucceeded(s)
    BY <1>3, <2>2 DEF ItemSucceeded, EndOfItem, Fields
  <2> QED
    BY <1>3, <2>1, <2>2
<1>4. DOMAIN t = Fields
  BY DEF TxOK
<1> QED
  BY <1>1, <1>2, <1>3, <1>4

\* A subject fails: the transaction goes on with the next.
LEMMA ErrorKeeps ==
    ASSUME IInv, CatalogueInv, NEW w \in Workers, NEW stage, Runs(w, "basic-info", stage),
           stage # "classify", NEW t \in Errors(tx[w]), tx' = [tx EXCEPT ![w] = t],
           UNCHANGED <<product, identity, told, clock, today>>
    PROVE  CatalogueInv'
<1>1. /\ TxOK(tx[w]) /\ TransactionInv(tx[w], product, told, clock)
      /\ tx[w].stage = stage /\ tx[w].left # <<>>
      /\ \A q \in Products : tx[w].product[q] # None => Holds(w, q)
      /\ clock \in Nat /\ tx[w].day \in Days
  BY RunningKnows
<1>2. /\ t.product = tx[w].product /\ t.told = tx[w].told /\ t.identity = tx[w].identity
      /\ t.program = tx[w].program /\ t.left = Tail(tx[w].left) /\ t.stage = "first"
      /\ t.day = tx[w].day
  BY <1>1, ItemFields
<1>3. LeftInv(t, product) /\ SeenInv(t, product)
  BY <1>1, <1>2, TailLeft DEF TransactionInv, SeenInv
<1>4. TransactionInv(t, product, told, clock) /\ clock <= clock
  BY <1>1, <1>2, <1>3, SameWrites
<1>5. clock' \in Nat /\ clock' >= clock /\ TransactionInv(t, product, told, clock')
  BY <1>1, <1>4
<1> QED
  BY <1>1, <1>2, <1>5, OneWrites

LEMMA FetchOverviewKeeps ==
    ASSUME IInv, CatalogueInv, NEW w \in Workers, FetchOverview(w)
    PROVE  CatalogueInv'
<1>0. Runs(w, "basic-info", "first") /\ UNCHANGED <<product, identity, told, today>>
  BY DEF FetchOverview
<1>1. ASSUME NEW failed \in Errors(tx[w]), tx' = [tx EXCEPT ![w] = failed], UNCHANGED clock
      PROVE  CatalogueInv'
  BY <1>0, <1>1, ErrorKeeps
<1>2. ASSUME NEW report \in Overviews, clock' = clock + 1,
             tx' = [tx EXCEPT ![w] = [Answered(tx[w]) EXCEPT !.stage = "refresh", !.day = today,
                                        !.seen = [report |-> report, at |-> clock']]]
      PROVE  CatalogueInv'
  <2>1. /\ TxOK(tx[w]) /\ TransactionInv(tx[w], product, told, clock)
        /\ tx[w].program = "basic-info" /\ tx[w].stage = "first"
        /\ \A q \in Products : tx[w].product[q] # None => Holds(w, q)
        /\ today \in Days
        /\ clock \in Nat /\ clock + 1 \in Nat /\ clock <= clock + 1
    BY <1>0, RunningKnows
  <2> DEFINE seen == [report |-> report, at |-> clock + 1]
             t == [Answered(tx[w]) EXCEPT !.stage = "refresh", !.day = today, !.seen = seen]
  <2>2. tx' = [tx EXCEPT ![w] = t]
    BY <1>2
  <2>3. seen.report \in Overviews /\ seen.at \in Nat
    BY <2>1
  <2> HIDE DEF seen
  <2>4. /\ t.product = tx[w].product /\ t.told = tx[w].told /\ t.identity = tx[w].identity
        /\ t.program = tx[w].program /\ t.left = tx[w].left /\ t.stage = "refresh"
        /\ t.seen = seen /\ t.day = today
    BY <2>1 DEF Answered, TxOK, Fields
  <2> HIDE DEF t
  <2>5. LeftInv(t, product) /\ SeenInv(t, product)
    BY <2>1, <2>3, <2>4 DEF TransactionInv, LeftInv, SeenInv
  <2>6. TransactionInv(t, product, told, clock + 1)
    BY <2>1, <2>4, <2>5, SameWrites
  <2>7. clock' \in Nat /\ clock' >= clock /\ TransactionInv(t, product, told, clock')
    BY <1>2, <2>1, <2>6
  <2> QED
    BY <1>0, <2>1, <2>2, <2>4, <2>7, OneWrites
<1> QED
  BY <1>1, <1>2 DEF FetchOverview

LEMMA VersionedOK ==
    ASSUME NEW history \in Seq(Versions), NEW overview, overview.report \in Overviews,
           overview.at \in Nat, NEW name \in CompanyAnswers
    PROVE  LET h == Versioned(history, overview, name)
           IN  /\ h \in Seq(Versions)
               /\ \A v \in DOMAIN h :
                    \/ (v \in DOMAIN history /\ h[v] = history[v])
                    \/ h[v].name = name
               /\ history # <<>> => h # <<>> /\ h[1] = history[1]
<1> DEFINE version == [report |-> overview.report, name |-> name, at |-> overview.at]
           h == Versioned(history, overview, name)
<1>1. version \in Versions /\ version.name = name
  BY DEF Versions, CompanyAnswers
<1>2. h = history \/ h = Append(history, version)
  BY DEF Versioned
<1> HIDE DEF version, h
<1> SUFFICES /\ h \in Seq(Versions)
             /\ \A v \in DOMAIN h :
                  \/ (v \in DOMAIN history /\ h[v] = history[v])
                  \/ h[v].name = name
             /\ history # <<>> => h # <<>> /\ h[1] = history[1]
  BY DEF h
<1>3. CASE h = history
  BY <1>3
<1>4. CASE h = Append(history, version)
  <2> HIDE DEF Versions
  <2>1. /\ h \in Seq(Versions) /\ Len(history) \in Nat
        /\ Len(h) = Len(history) + 1 /\ h[Len(history) + 1] = version
        /\ \A v \in 1..Len(history) : h[v] = history[v]
        /\ DOMAIN history = 1..Len(history) /\ DOMAIN h = 1..Len(h)
    BY <1>1, <1>4
  <2>2. \A v \in DOMAIN h : v \in 1..Len(history) \/ v = Len(history) + 1
    BY <2>1
  <2>3. history # <<>> => 1 \in 1..Len(history)
    BY <2>1
  <2>4. h # <<>>
    BY <2>1
  <2> QED
    BY <1>1, <2>1, <2>2, <2>3, <2>4
<1> QED
  BY <1>2, <1>3, <1>4

\* What is refreshed has the name that was told as its company, or what it had.
LEMMA RefreshedOK ==
    ASSUME NEW r, RecordOK(r), NEW overview, overview.report \in Overviews,
           overview.at \in Nat, NEW name \in CompanyAnswers,
           NEW day \in Days, NEW cited \in BOOLEAN
    PROVE  LET s == Refreshed(r, overview, name, day, cited)
           IN  /\ RecordOK(s) /\ Later(r, s) /\ s.classes = r.classes
               /\ ("fund_list" \in s.heard => "fund_list" \in r.heard)
               /\ InReview(r) => InReview(s)
               /\ s.company = IF name = None THEN r.company ELSE name
               /\ \A v \in DOMAIN s.history :
                    \/ (v \in DOMAIN r.history /\ s.history[v] = r.history[v])
                    \/ s.history[v].name = name
               /\ r.history # <<>> => s.history # <<>> /\ s.history[1] = r.history[1]
<1> DEFINE k == Classified(r, "fund_overview", overview.report, day, cited)
           h == Versioned(r.history, overview, name)
           company == IF name = None THEN r.company ELSE name
           s == [k EXCEPT !.history = h, !.company = company]
<1>1. overview.report \in Reports
  BY InputAssumption
<1>2. /\ RecordOK(k) /\ Later(r, k) /\ k.classes = r.classes
      /\ k.company = r.company /\ k.history = r.history
      /\ ("fund_list" \in k.heard => "fund_list" \in r.heard)
      /\ InReview(r) => InReview(k)
  BY <1>1, ClassifiedOK DEF Datasets
<1>3. r.history \in Seq(Versions) /\ r.company \in Names \cup {None}
  BY DEF RecordOK, Product
<1>4. /\ h \in Seq(Versions)
      /\ \A v \in DOMAIN h : \/ (v \in DOMAIN r.history /\ h[v] = r.history[v])
                             \/ h[v].name = name
      /\ r.history # <<>> => h # <<>> /\ h[1] = r.history[1]
  BY <1>3, VersionedOK
<1>5. company \in Names \cup {None}
  BY <1>3 DEF CompanyAnswers
<1>6. s = Refreshed(r, overview, name, day, cited)
  <2>1. Refreshed(r, overview, name, day, cited) =
          [k EXCEPT !.history = Versioned(@, overview, name), !.company = Projected(@, name)]
    BY DEF Refreshed
  <2>2. k \in Product
    BY <1>2 DEF RecordOK
  <2> HIDE DEF k
  <2> QED
    BY <1>2, <2>1, <2>2 DEF Projected, Product
<1> HIDE DEF k, h, company
<1>7. /\ s \in Product /\ s.history = h /\ s.company = company
      /\ s.classes = k.classes /\ s.types = k.types /\ s.evidence = k.evidence
      /\ s.revision = k.revision /\ s.grouping = k.grouping
      /\ s.written = k.written /\ s.late = k.late /\ s.heard = k.heard
  BY <1>2, <1>4, <1>5 DEF RecordOK, Product
<1> HIDE DEF s
<1>8. RecordOK(s) /\ Later(k, s)
  BY <1>2, <1>7, SameEvidence
<1>9. Later(r, s)
  BY <1>2, <1>8, LaterTwice
<1> QED
  BY <1>2, <1>4, <1>6, <1>7, <1>8, <1>9 DEF InReview, company

LEMMA HeardFields ==
    ASSUME NEW t, TxOK(t), NEW p, NEW name, NEW time, NEW record,
           NEW word, word = IF name = None THEN t.told[p] ELSE [name |-> name, at |-> time]
    PROVE  LET u == Heard(t, p, name, time, record)
           IN  /\ u.product = [t.product EXCEPT ![p] = record]
               /\ u.told = [t.told EXCEPT ![p] = word]
               /\ u.identity = t.identity /\ u.program = t.program
               /\ u.left = Tail(t.left) /\ u.stage = "first"
<1> DEFINE s == ItemSucceeded(Answered(t))
           u == [s EXCEPT !.told[p] = IF name = None THEN @ ELSE [name |-> name, at |-> time],
                          !.product[p] = record]
<1>1. /\ DOMAIN s = Fields /\ s.product = t.product /\ s.told = t.told
      /\ s.identity = t.identity /\ s.program = t.program
      /\ s.left = Tail(t.left) /\ s.stage = "first"
  BY ItemFields
<1>2. u = Heard(t, p, name, time, record)
  BY DEF Heard
<1> HIDE DEF s
<1>3. /\ u.product = [s.product EXCEPT ![p] = record]
      /\ u.told = [s.told EXCEPT ![p] = IF name = None THEN s.told[p]
                                        ELSE [name |-> name, at |-> time]]
      /\ u.identity = s.identity /\ u.program = s.program
      /\ u.left = s.left /\ u.stage = s.stage
  BY <1>1 DEF Fields
<1> HIDE DEF u
<1> QED
  BY <1>1, <1>2, <1>3

LEMMA HeardDay ==
    ASSUME NEW t, TxOK(t), NEW p, NEW name, NEW time, NEW record
    PROVE  Heard(t, p, name, time, record).day = t.day
<1> DEFINE s == ItemSucceeded(Answered(t))
<1>1. DOMAIN s = Fields /\ s.day = t.day
  BY ItemFields
<1>2. Heard(t, p, name, time, record)
        = [s EXCEPT !.told[p] = IF name = None THEN @ ELSE [name |-> name, at |-> time],
                    !.product[p] = record]
  BY DEF Heard
<1> HIDE DEF s
<1> QED
  BY <1>1, <1>2 DEF Fields

LEMMA RefreshFundKeeps ==
    ASSUME IInv, CatalogueInv, NEW w \in Workers, RefreshFund(w)
    PROVE  CatalogueInv'
<1> DEFINE p == Head(tx[w].left)
           old == ProductSeen(w, p)
<1>0. /\ Runs(w, "basic-info", "refresh") /\ UNCHANGED <<product, identity, told, today>>
      /\ Free(w, p)
  BY DEF RefreshFund
<1>1. /\ TxOK(tx[w]) /\ TransactionInv(tx[w], product, told, clock) /\ tx[w] # None
      /\ tx[w].program = "basic-info" /\ tx[w].stage = "refresh" /\ tx[w].left # <<>>
      /\ \A q \in Products : tx[w].product[q] # None => Holds(w, q)
      /\ tx[w].day \in Days
      /\ clock \in Nat /\ clock + 1 \in Nat /\ clock <= clock + 1
  BY <1>0, RunningKnows
<1>2. ASSUME NEW failed \in Errors(tx[w]), tx' = [tx EXCEPT ![w] = failed], UNCHANGED clock
      PROVE  CatalogueInv'
  BY <1>0, <1>2, ErrorKeeps
<1>3. /\ p \in Products /\ old # None
      /\ tx[w].seen.report \in Overviews /\ tx[w].seen.at \in Nat
  <2>1. /\ tx[w].left \in Seq(Products) /\ SeenInv(tx[w], product)
        /\ \A i \in DOMAIN tx[w].left : product[tx[w].left[i]] # None
    BY <1>1 DEF TransactionInv, LeftInv
  <2>2. p \in Products /\ product[p] # None
    <3>1. p \in Products /\ 1 \in DOMAIN tx[w].left /\ tx[w].left[1] = p
      BY <1>1, <2>1, HeadLeft
    <3> QED
      BY <2>1, <3>1
  <2> QED
    BY <1>1, <2>1, <2>2 DEF SeenInv, ProductSeen, Holds
<1>4. ~Pending(tx[w], p) /\ \A q \in Products : ~Pending(tx[w], q)
  BY <1>1 DEF Pending
<1>5. /\ RecordOK(old) /\ Whole(p, old) /\ Placed(p, old)
      /\ LastWord(old, WordOf(tx[w], p, told))
      /\ product[p] # None => Later(product[p], old)
  BY <1>1, <1>3, <1>4, SeenRow
<1>6. WriteInv(tx[w], p, product, told, clock) /\ RowInv(p, product, told, clock)
  BY <1>1, <1>3 DEF TransactionInv, CatalogueInv
<1> HIDE DEF p, old
<1>7. ASSUME NEW name \in CompanyAnswers, NEW cited \in BOOLEAN, clock' = clock + 1,
             tx' = [tx EXCEPT ![w] =
                      Heard(@, p, name, clock', Refreshed(old, @.seen, name, @.day, cited))]
      PROVE  CatalogueInv'
  <2> DEFINE new == Refreshed(old, tx[w].seen, name, tx[w].day, cited)
             later == clock'
             word == [name |-> name, at |-> later]
             last == IF name = None THEN tx[w].told[p] ELSE word
             t == Heard(tx[w], p, name, later, new)
  <2>1. tx' = [tx EXCEPT ![w] = t]
    BY <1>7
  <2> HIDE DEF later
  <2>2. /\ RecordOK(new) /\ Later(old, new) /\ new.classes = old.classes
        /\ ("fund_list" \in new.heard => "fund_list" \in old.heard)
        /\ InReview(old) => InReview(new)
        /\ new.company = IF name = None THEN old.company ELSE name
        /\ \A v \in DOMAIN new.history :
             \/ (v \in DOMAIN old.history /\ new.history[v] = old.history[v])
             \/ new.history[v].name = name
        /\ old.history # <<>> => new.history # <<>> /\ new.history[1] = old.history[1]
    BY <1>1, <1>3, <1>5, RefreshedOK
  <2> HIDE DEF new
  <2>3. /\ t.product = [tx[w].product EXCEPT ![p] = new]
        /\ t.told = [tx[w].told EXCEPT ![p] = last]
        /\ t.identity = tx[w].identity /\ t.program = tx[w].program
        /\ t.left = Tail(tx[w].left) /\ t.stage = "first" /\ t.day = tx[w].day
    <3>1. TxOK(tx[w]) /\ last = IF name = None THEN tx[w].told[p]
                                ELSE [name |-> name, at |-> later]
      BY <1>1
    <3> HIDE DEF last
    <3>2. t.day = tx[w].day
      BY <3>1, HeardDay
    <3> QED
      BY <3>1, <3>2, HeardFields
  <2>a. later = clock + 1 /\ later \in Nat
    BY <1>1, <1>7 DEF later
  <2>4. name # None => word \in Words /\ word.name = name /\ word.at = clock + 1 /\ word # None
    BY <1>1, <2>a, NoneIsNothing DEF CompanyAnswers, Words
  <2> HIDE DEF t, word
  <2>5. /\ t.product = [q \in Products |-> t.product[q]] /\ t.told = [q \in Products |-> t.told[q]]
        /\ \A q \in Products \ {p} : t.product[q] = tx[w].product[q] /\ t.told[q] = tx[w].told[q]
        /\ t.product[p] = new /\ t.told[p] = IF name = None THEN tx[w].told[p] ELSE word
    BY <1>1, <1>3, <2>3 DEF TransactionInv
  <2>6. new # None
    BY <2>2, NoneIsNothing
  <2>7. Whole(p, new) /\ Placed(p, new)
    BY <1>5, <2>2 DEF Whole, Placed, Several
  <2>8. product[p] # None => Later(product[p], new)
    BY <1>5, <1>6, <2>2, LaterTwice DEF RowInv
  <2>9. LastWord(new, WordOf(t, p, told))
    <3>1. CASE name = None
      <4>1. WordOf(t, p, told) = WordOf(tx[w], p, told)
        BY <2>5, <3>1 DEF WordOf
      <4> DEFINE known == WordOf(tx[w], p, told)
      <4> HIDE DEF known
      <4>2. LastWord(old, known)
        BY <1>5 DEF known
      <4>3. LastWord(new, known)
        BY <2>2, <3>1, <4>2 DEF LastWord
      <4> QED
        BY <4>1, <4>3 DEF known
    <3>2. CASE name # None
      BY <2>2, <2>4, <2>5, <3>2 DEF LastWord, WordOf
    <3> QED
      BY <3>1, <3>2
  <2>10. t.told[p] # None =>
           /\ t.told[p] \in Words /\ t.told[p].at <= clock + 1
           /\ told[p] # None => t.told[p].at > told[p].at
    <3>1. CASE name = None
      BY <1>1, <1>6, <2>5, <3>1 DEF WriteInv, Words
    <3>2. CASE name # None
      BY <1>1, <1>6, <2>4, <2>5, <3>2 DEF RowInv, Words
    <3> QED
      BY <3>1, <3>2
  <2>11. WriteInv(t, p, product, told, clock + 1)
    BY <2>2, <2>5, <2>6, <2>7, <2>8, <2>9, <2>10 DEF WriteInv
  <2>12. LeftInv(t, product) /\ SeenInv(t, product)
    BY <1>1, <2>3, TailLeft DEF TransactionInv, SeenInv
  <2>13. TransactionInv(t, product, told, clock + 1)
    <3>1. \A c \in Codes : t.identity[c] # None => ShareOK(t.identity[c], product)
      BY <1>1, <2>3 DEF TransactionInv
    <3> QED
      BY <1>1, <1>3, <1>4, <2>3, <2>5, <2>11, <2>12, <3>1, OneWrite
  <2>14. \A q \in Products : t.product[q] # None => Holds(w, q) \/ Free(w, q)
    BY <1>0, <1>1, <2>5 DEF p
  <2>15. clock' \in Nat /\ clock' >= clock /\ TransactionInv(t, product, told, clock')
    BY <1>1, <1>7, <2>13
  <2> QED
    BY <1>0, <2>1, <2>14, <2>15, OneWrites
<1> QED
  BY <1>2, <1>7 DEF RefreshFund, p, old

\* The backfill finds the name of the first version, or nothing.
LEMMA CandidateIsFirst ==
    ASSUME NEW history \in Seq(Versions),
           \A v \in DOMAIN history : history[v].name # None => v = 1
    PROVE  /\ Candidate(history) # None => history # <<>> /\ Candidate(history) = history[1].name
           /\ history # <<>> => Candidate(history) = history[1].name
           /\ Candidate(history) \in Names \cup {None}
<1> DEFINE named == {v \in DOMAIN history : history[v].name # None}
           After(u, v) == history[u].at > history[v].at \/ (history[u].at = history[v].at /\ u >= v)
           chosen == CHOOSE u \in named : \A v \in named : After(u, v)
<1>1. Candidate(history) = IF named = {} THEN None ELSE history[chosen].name
  BY DEF Candidate
<1>2. history # <<>> => 1 \in DOMAIN history
  OBVIOUS
<1>3. \A v \in DOMAIN history : history # <<>> /\ history[v].name \in Names \cup {None}
  <2>1. \A v \in DOMAIN history : history # <<>> /\ history[v] \in Versions
    <3> HIDE DEF Versions
    <3> QED
      OBVIOUS
  <2> QED
    BY <2>1 DEF Versions
<1>4. CASE named = {}
  BY <1>1, <1>2, <1>4
<1>5. CASE named # {}
  <2>1. named = {1} /\ After(1, 1)
    BY <1>5
  <2>2. \E u \in named : \A v \in named : After(u, v)
    BY <2>1
  <2> HIDE DEF After, named
  <2>3. chosen \in named
    BY <2>2
  <2>4. chosen = 1
    BY <2>1, <2>3
  <2>5. 1 \in DOMAIN history
    BY <2>1 DEF named
  <2> HIDE DEF chosen
  <2> QED
    BY <1>1, <1>3, <1>5, <2>4, <2>5
<1> QED
  BY <1>4, <1>5

\* What lacks a company gets that of its last word, if there is one.
LEMMA BackfilledOK ==
    ASSUME NEW r, RecordOK(r), r.company = None, NEW word, LastWord(r, word),
           word = None \/ word \in Words
    PROVE  LET s == [r EXCEPT !.company = Candidate(r.history)]
           IN  /\ RecordOK(s) /\ Later(r, s) /\ s.classes = r.classes
               /\ ("fund_list" \in s.heard => "fund_list" \in r.heard)
               /\ InReview(r) => InReview(s)
               /\ LastWord(s, word)
<1> DEFINE company == Candidate(r.history)
           s == [r EXCEPT !.company = company]
<1>1. /\ r \in Product /\ r.history \in Seq(Versions)
      /\ \A v \in DOMAIN r.history : r.history[v].name # None => word # None /\ v = 1
      /\ word # None => r.history # <<>> /\ r.history[1].name = word.name
  BY DEF RecordOK, Product, LastWord
<1>2. /\ company # None => r.history # <<>> /\ company = r.history[1].name
      /\ r.history # <<>> => company = r.history[1].name
      /\ company \in Names \cup {None}
  BY <1>1, CandidateIsFirst
<1> HIDE DEF company
<1>3. /\ s \in Product /\ s.company = company /\ s.history = r.history
      /\ s.classes = r.classes /\ s.types = r.types /\ s.evidence = r.evidence
      /\ s.revision = r.revision /\ s.grouping = r.grouping
      /\ s.written = r.written /\ s.late = r.late /\ ("fund_list" \in s.heard => "fund_list" \in r.heard)
  BY <1>1, <1>2 DEF Product
<1> HIDE DEF s
<1>4. LastWord(s, word)
  BY <1>1, <1>2, <1>3 DEF LastWord
<1>5. RecordOK(s) /\ Later(r, s)
  BY <1>3, SameEvidence
<1>6. InReview(r) => InReview(s)
  BY <1>3 DEF InReview
<1> QED
  BY <1>3, <1>4, <1>5, <1>6 DEF s, company

LEMMA BackfillFundKeeps ==
    ASSUME IInv, CatalogueInv, NEW w \in Workers, BackfillFund(w)
    PROVE  CatalogueInv'
<1> DEFINE p == Head(tx[w].left)
           new == [product[p] EXCEPT !.company = Candidate(product[p].history)]
           written == IF Lacking(p) THEN new ELSE tx[w].product[p]
           t == [tx[w] EXCEPT !.left = Tail(@), !.product[p] = written]
<1>0. Runs(w, "backfill", "first") /\ UNCHANGED <<product, identity, told, clock, today>>
  BY DEF BackfillFund
<1>1. /\ TxOK(tx[w]) /\ TransactionInv(tx[w], product, told, clock) /\ tx[w] # None
      /\ tx[w].program = "backfill" /\ tx[w].stage = "first" /\ tx[w].left # <<>>
      /\ \A q \in Products : tx[w].product[q] # None => Holds(w, q)
      /\ clock \in Nat /\ tx[w].day \in Days
  BY <1>0, RunningKnows
<1>2. tx' = [tx EXCEPT ![w] = t] /\ (Lacking(p) => Free(w, p))
  BY <1>1 DEF BackfillFund, TxOK, Fields
<1>3. p \in Products /\ tx[w].told[p] = None
  <2>1. tx[w].left \in Seq(Products) /\ \A q \in Products : tx[w].told[q] = None
    BY <1>1 DEF TransactionInv, LeftInv
  <2> QED
    BY <1>1, <2>1, HeadLeft
<1>4. WriteInv(tx[w], p, product, told, clock) /\ RowInv(p, product, told, clock)
  BY <1>1, <1>3 DEF TransactionInv, CatalogueInv
<1> HIDE DEF p
<1>5. Lacking(p) => /\ RecordOK(new) /\ Later(product[p], new) /\ new # None
                    /\ Whole(p, new) /\ Placed(p, new) /\ LastWord(new, told[p])
  <2> SUFFICES ASSUME Lacking(p)
               PROVE  /\ RecordOK(new) /\ Later(product[p], new) /\ new # None
                      /\ Whole(p, new) /\ Placed(p, new) /\ LastWord(new, told[p])
    OBVIOUS
  <2> DEFINE r == product[p]
             word == told[p]
  <2>1. /\ RecordOK(r) /\ Whole(p, r) /\ Placed(p, r) /\ LastWord(r, word)
        /\ r.company = None /\ (word = None \/ word \in Words)
    BY <1>4 DEF RowInv, Lacking
  <2> HIDE DEF r, word
  <2> DEFINE s == [r EXCEPT !.company = Candidate(r.history)]
  <2>2. /\ RecordOK(s) /\ Later(r, s) /\ s.classes = r.classes
        /\ ("fund_list" \in s.heard => "fund_list" \in r.heard)
        /\ InReview(r) => InReview(s)
        /\ LastWord(s, word)
    BY <2>1, BackfilledOK
  <2>3. s = new
    BY DEF r
  <2> HIDE DEF s, new
  <2>4. Whole(p, s) /\ Placed(p, s) /\ s # None
    BY <2>1, <2>2, NoneIsNothing DEF Whole, Placed, Several
  <2> QED
    BY <2>2, <2>3, <2>4 DEF r, word
<1> HIDE DEF new
<1>6. /\ Lacking(p) => written = new
      /\ ~Lacking(p) => written = tx[w].product[p]
  OBVIOUS
<1> HIDE DEF written
<1>7. /\ t.product = [tx[w].product EXCEPT ![p] = written]
      /\ t.told = tx[w].told /\ t.left = Tail(tx[w].left) /\ t.program = tx[w].program
      /\ t.identity = tx[w].identity /\ t.stage = "first" /\ t.day = tx[w].day
  BY <1>1 DEF TxOK, Fields
<1> HIDE DEF t
<1>8. /\ t.product = [q \in Products |-> t.product[q]] /\ t.told = [q \in Products |-> t.told[q]]
      /\ \A q \in Products \ {p} : t.product[q] = tx[w].product[q] /\ t.told[q] = tx[w].told[q]
      /\ t.product[p] = written /\ t.told[p] = None
  BY <1>1, <1>3, <1>7 DEF TransactionInv
<1>9. WriteInv(t, p, product, told, clock)
  <2>1. CASE Lacking(p)
    BY <1>5, <1>6, <1>8, <2>1 DEF WriteInv, WordOf
  <2>2. CASE ~Lacking(p)
    <3>1. ~Pending(tx[w], p)
      BY <1>1 DEF Pending
    <3> QED
      BY <1>3, <1>4, <1>6, <1>8, <2>2, <3>1 DEF WriteInv, WordOf
  <2> QED
    BY <2>1, <2>2
<1>10. LeftInv(t, product) /\ SeenInv(t, product)
  BY <1>1, <1>7, TailLeft DEF TransactionInv, SeenInv
<1>11. TransactionInv(t, product, told, clock)
  <2>1. \A q \in Products \ {p} : ~Pending(tx[w], q)
    BY <1>1 DEF Pending
  <2>2. \A c \in Codes : t.identity[c] # None => ShareOK(t.identity[c], product)
    BY <1>1, <1>7 DEF TransactionInv
  <2>3. clock <= clock
    BY <1>1
  <2> QED
    BY <1>1, <1>3, <1>7, <1>8, <1>9, <1>10, <2>1, <2>2, <2>3, OneWrite
<1>12. \A q \in Products : t.product[q] # None => Holds(w, q) \/ Free(w, q)
  BY <1>1, <1>2, <1>6, <1>8
<1>13. clock' \in Nat /\ clock' >= clock /\ TransactionInv(t, product, told, clock')
  BY <1>0, <1>1, <1>11
<1> QED
  BY <1>0, <1>2, <1>12, <1>13, OneWrites

\* What a commit leaves of a product: what the transaction wrote, if it did.
LEMMA Committed ==
    ASSUME IInv, CatalogueInv, NEW w \in Workers, Commit(w), NEW p \in Products
    PROVE  /\ product' = [q \in Products |-> product'[q]]
           /\ told' = [q \in Products |-> told'[q]]
           /\ product'[p] = ProductSeen(w, p)
           /\ told'[p] = WordOf(tx[w], p, told)
           /\ ~Holds(w, p) => product'[p] = product[p] /\ told'[p] = told[p]
           /\ product[p] # None => product'[p] # None
           /\ RowInv(p, product', told', clock)
           /\ product[p] # None => Later(product[p], product'[p])
<1>1. /\ tx[w] # None /\ tx[w].left = <<>> /\ product' = Merged(w, "product")
      /\ told' = [q \in Products |->
                   IF tx[w].told[q] # None /\ (told[q] = None \/ tx[w].told[q].at > told[q].at)
                   THEN tx[w].told[q] ELSE told[q]]
  BY DEF Commit
<1>2. /\ TransactionInv(tx[w], product, told, clock) /\ tx[w].stage = "first"
  BY <1>1 DEF CatalogueInv, IInv, Shape, TxOK, Counts
<1>3. Stored("product") = product /\ DOMAIN product = Products
  BY DEF Stored, CatalogueInv
<1>4. product' = [q \in Products |-> IF tx[w].product[q] # None THEN tx[w].product[q]
                                    ELSE product[q]]
  BY <1>1, <1>3 DEF Merged
<1>5. WriteInv(tx[w], p, product, told, clock) /\ RowInv(p, product, told, clock)
  BY <1>2 DEF TransactionInv, CatalogueInv
<1>6. product'[p] = ProductSeen(w, p) /\ told'[p] = WordOf(tx[w], p, told)
  BY <1>1, <1>4, <1>5 DEF ProductSeen, Holds, WordOf, WriteInv
<1>7. ~Holds(w, p) => product'[p] = product[p] /\ told'[p] = told[p]
  BY <1>1, <1>5, <1>6 DEF ProductSeen, Holds, WordOf, WriteInv
<1>8. product[p] # None => product'[p] # None
  BY <1>1, <1>4
<1>9. RowInv(p, product', told', clock)
  <2>1. CASE ~Holds(w, p)
    BY <1>5, <1>7, <2>1 DEF RowInv
  <2>2. CASE Holds(w, p)
    <3>1. product'[p] = tx[w].product[p] /\ tx[w].product[p] # None
      BY <1>6, <2>2 DEF ProductSeen, Holds
    <3>2. ~Pending(tx[w], p)
      BY <1>2 DEF Pending
    <3> DEFINE word == WordOf(tx[w], p, told)
    <3>3. /\ RecordOK(product'[p]) /\ Whole(p, product'[p]) /\ Placed(p, product'[p])
          /\ LastWord(product'[p], word)
      BY <1>5, <3>1, <3>2 DEF WriteInv
    <3>4. word # None => word \in Words /\ word.at <= clock
      BY <1>5 DEF WordOf, WriteInv, RowInv
    <3>5. told'[p] = word
      BY <1>6
    <3> HIDE DEF word
    <3> QED
      BY <3>1, <3>3, <3>4, <3>5 DEF RowInv
  <2> QED
    BY <2>1, <2>2
<1>10. product[p] # None => Later(product[p], product'[p])
  <2>1. product[p] # None => Later(product[p], product[p])
    BY <1>5, LaterSelf DEF RowInv
  <2> QED
    BY <1>4, <1>5, <2>1 DEF WriteInv
<1>11. /\ product' = [q \in Products |-> product'[q]]
       /\ told' = [q \in Products |-> told'[q]]
  BY <1>1, <1>4
<1> QED
  BY <1>6, <1>7, <1>8, <1>9, <1>10, <1>11


LEMMA CommitKeeps ==
    ASSUME IInv, CatalogueInv, NEW w \in Workers, Commit(w)
    PROVE  CatalogueInv'
<1>1. /\ tx' = [tx EXCEPT ![w] = None] /\ UNCHANGED <<clock, today>> /\ tx[w] # None
  BY DEF Commit
<1>2. /\ tx'[w] = None /\ \A v \in Workers \ {w} : tx'[v] = tx[v]
      /\ TransactionInv(tx[w], product, told, clock)
  BY <1>1 DEF IInv, Shape, CatalogueInv
<1>3. Products # {}
  BY DEF Products
<1>4. /\ product' = [p \in Products |-> product'[p]]
      /\ told' = [p \in Products |-> told'[p]]
      /\ \A p \in Products : RowInv(p, product', told', clock)
      /\ \A p \in Products : product[p] # None => product'[p] # None
      /\ \A p \in Products : ~Holds(w, p) => product'[p] = product[p] /\ told'[p] = told[p]
  BY <1>3, Committed
<1> DEFINE rows == product'
           words == told'
<1>5. ASSUME NEW share, ShareOK(share, product)
      PROVE  ShareOK(share, rows)
  BY <1>4, <1>5 DEF ShareOK, Products
<1>6. \A c \in Codes : identity'[c] # None => ShareOK(identity'[c], rows)
  <2> SUFFICES ASSUME NEW c \in Codes, identity'[c] # None
               PROVE  ShareOK(identity'[c], product)
    BY <1>5
  <2>1. identity'[c] = IF Maps(w, c) THEN tx[w].identity[c] ELSE identity[c]
    BY CommitMaps
  <2> QED
    BY <1>2, <2>1 DEF Maps, TransactionInv, CatalogueInv
<1>7. ASSUME NEW v \in Workers \ {w}, tx[v] # None
      PROVE  TransactionInv(tx[v], rows, words, clock)
  <2> DEFINE t == tx[v]
  <2>1. TransactionInv(t, product, told, clock)
    BY <1>7 DEF CatalogueInv
  <2>2. ASSUME NEW p \in Products
        PROVE  WriteInv(t, p, rows, words, clock)
    <3>1. WriteInv(t, p, product, told, clock)
      BY <2>1 DEF TransactionInv
    <3>2. CASE Holds(w, p)
      <4>1. t.product[p] = None
        BY <1>7, <3>2 DEF CatalogueInv, Free, Holds
      <4> QED
        BY <3>1, <4>1 DEF WriteInv
    <3>3. CASE ~Holds(w, p)
      <4>1. rows[p] = product[p] /\ words[p] = told[p]
        BY <1>4, <3>3
      <4> HIDE DEF rows, words, t
      <4> QED
        BY <3>1, <4>1 DEF WriteInv, WordOf
    <3> QED
      BY <3>2, <3>3
  <2>3. LeftInv(t, rows)
    <3>1. LeftInv(t, product) /\ \A p \in Products : product[p] # None => rows[p] # None
      BY <1>4, <2>1 DEF TransactionInv
    <3> HIDE DEF t, rows
    <3> QED
      BY <3>1 DEF LeftInv
  <2>4. SeenInv(t, rows)
    <3>1. SeenInv(t, product) /\ \A p \in Products : product[p] # None => rows[p] # None
      BY <1>4, <2>1 DEF TransactionInv
    <3>2. ShareOK(t.seen, product) => t.seen.product \in Products /\ ShareOK(t.seen, rows)
      BY <1>5 DEF ShareOK, Shares
    <3> HIDE DEF t, rows
    <3> QED
      BY <3>1, <3>2 DEF SeenInv
  <2>5. \A c \in Codes : t.identity[c] # None => ShareOK(t.identity[c], rows)
    BY <1>5, <2>1 DEF TransactionInv
  <2> HIDE DEF t, rows, words
  <2> QED
    BY <2>1, <2>2, <2>3, <2>4, <2>5 DEF TransactionInv, t
<1>8. \A v \in Workers : tx'[v] # None => TransactionInv(tx'[v], rows, words, clock)
  BY <1>2, <1>7
<1>9. \A p \in Products, v \in Workers : Holds(v, p)' => Free(v, p)'
  <2>1. \A p \in Products, v \in Workers : Holds(v, p)' => Holds(v, p)
    BY <1>2 DEF Holds
  <2> QED
    BY <2>1 DEF CatalogueInv, Free
<1>10. clock' = clock /\ clock \in Nat /\ today' \in Days
  BY <1>1 DEF CatalogueInv
<1>11. \A p \in Products : RowInv(p, product', told', clock')
  BY <1>4, <1>10
<1>12. \A v \in Workers : tx'[v] # None => TransactionInv(tx'[v], product', told', clock')
  BY <1>8, <1>10
<1> QED
  BY <1>4, <1>6, <1>9, <1>10, <1>11, <1>12 DEF CatalogueInv

LEMMA StepCatalogue ==
    ASSUME IInv, CatalogueInv, [Next]_vars
    PROVE  CatalogueInv'
<1>1. CASE UNCHANGED vars \/ Midnight
  <2>1. UNCHANGED <<product, identity, tx, clock, told>> /\ today' \in Days
    <3>1. CASE UNCHANGED vars
      BY <3>1 DEF vars, CatalogueInv
    <3>2. CASE Midnight
      BY <3>2, InputAssumption DEF Midnight, CatalogueInv, Days
    <3> QED
      BY <1>1, <3>1, <3>2
  <2>2. \A w \in Workers, p \in Products :
          (Holds(w, p)' <=> Holds(w, p)) /\ (Free(w, p)' <=> Free(w, p))
    BY <2>1 DEF Holds, Free
  <2> QED
    BY <2>1, <2>2 DEF CatalogueInv
<1> QED
  BY <1>1, BeginsKeep, LookUpKeeps, RegisterKeeps, ClassifyKeeps, FetchOverviewKeeps,
     RefreshFundKeeps, BackfillFundKeeps, CommitKeeps, FailKeeps, CloseIdentityKeeps DEF Next

(* What is committed of every product and what every transaction has       *)
(* written keeps its shape: a product is held by one worker; from the day  *)
(* on which a type was told, what is in force has it, unless an answer of  *)
(* an earlier day was written since; and several shares are in review.     *)
THEOREM CatalogueInvariant == Spec => [](IInv /\ CatalogueInv)
BY InitIInv, StepIInv, InitCatalogue, StepCatalogue, PTL DEF Spec

(* However jobs, lists and the backfill interleave, a product of several   *)
(* shares that a list has classified has its latest revision in the review *)
(* of groupings.                                                           *)
THEOREM GroupingAlwaysInReview == Spec => []GroupingInReview
<1>1. CatalogueInv => GroupingInReview
  BY DEF CatalogueInv, RowInv, Placed, Several, InReview, GroupingInReview
<1> QED
  BY CatalogueInvariant, <1>1, PTL

(* The company that is shown is the last word of the provider, or it is    *)
(* still the backfill's to carry over.                                     *)
THEOREM CompanyAlwaysLastWord == Spec => []CompanyIsLastWord
<1>1. CatalogueInv => CompanyIsLastWord
  BY DEF CatalogueInv, RowInv, LastWord, CompanyIsLastWord
<1> QED
  BY CatalogueInvariant, <1>1, PTL

-----------------------------------------------------------------------------
(* What the rules say of the evidence                                      *)

LEMMA FewAssets == IsFiniteSet(Assets)
<1> DEFINE half == {"EQUITY", "BOND", "MIXED", "MONEY_MARKET"}
           rest == {"FOF", "REIT", "COMMODITY", "OTHER"}
           pair1 == {"EQUITY", "BOND"}
           pair2 == {"MIXED", "MONEY_MARKET"}
           pair3 == {"FOF", "REIT"}
           pair4 == {"COMMODITY", "OTHER"}
<1>1. \A x, y : IsFiniteSet({x} \cup {y})
  <2> TAKE x, y
  <2>1. IsFiniteSet({x}) /\ IsFiniteSet({y})
    BY FS_Singleton
  <2> QED
    BY <2>1, FS_Union
<1>2. /\ pair1 = {"EQUITY"} \cup {"BOND"} /\ pair2 = {"MIXED"} \cup {"MONEY_MARKET"}
      /\ pair3 = {"FOF"} \cup {"REIT"} /\ pair4 = {"COMMODITY"} \cup {"OTHER"}
  OBVIOUS
<1>3. half = pair1 \cup pair2 /\ rest = pair3 \cup pair4 /\ Assets = half \cup rest
  BY DEF Assets
<1> HIDE DEF half, rest, pair1, pair2, pair3, pair4
<1>4. /\ IsFiniteSet(pair1) /\ IsFiniteSet(pair2) /\ IsFiniteSet(pair3) /\ IsFiniteSet(pair4)
  BY <1>1, <1>2
<1>5. IsFiniteSet(half) /\ IsFiniteSet(rest)
  BY <1>3, <1>4, FS_Union
<1> QED
  BY <1>3, <1>5, FS_Union

\* Statements that differ are a conflict, and a single one is confirmed.
LEMMA ResultOf ==
    ASSUME NEW values, IsFiniteSet(values), NEW hints
    PROVE  /\ Cardinality(values) > 1 => Result(values, hints).status = "CONFLICT"
           /\ Result(values, hints).status = "CONFIRMED" => values = {Result(values, hints).value}
<1>1. Cardinality(values) \in Nat /\ (Cardinality(values) = 0 <=> values = {})
  BY FS_CardinalityType, FS_EmptySet
<1>2. Cardinality(values) = 1 => \E x : values = {x}
  BY FS_Singleton
<1>3. CASE Cardinality(values) > 1
  BY <1>1, <1>3 DEF Result
<1>4. CASE Cardinality(values) = 1
  <2>1. PICK x : values = {x}
    BY <1>2, <1>4
  <2>2. Result(values, hints) = [status |-> "CONFIRMED", value |-> CHOOSE v \in values : TRUE]
    BY <1>1, <1>4 DEF Result
  <2>3. (CHOOSE v \in values : TRUE) = x
    BY <2>1
  <2> QED
    BY <1>4, <2>1, <2>2, <2>3
<1>5. CASE values = {}
  <2>1. Result(values, hints).status \in {"CANDIDATE", "UNKNOWN"}
    BY <1>1, <1>5 DEF Result
  <2> QED
    BY <1>1, <1>5, <2>1
<1> QED
  BY <1>1, <1>3, <1>4, <1>5

\* What data sets told last, by a day, is in the values of that day's asset class.
LEMMA DisputeStands ==
    ASSUME NEW r, RecordOK(r), NEW day \in Days
    PROVE  LET words == {r.types[d] : d \in Datasets} \ {None}
               classes == {AssetOf[w.type] : w \in {w \in words : w.day <= day}} \ {"UNKNOWN"}
               evidence == InForce(r, day)
           IN  /\ Cardinality(classes) > 1 =>
                    <<"asset_class", "CONFLICT">> \in ReviewItems(evidence)
               /\ AssetClass(evidence).status = "CONFIRMED" =>
                    classes \subseteq {AssetClass(evidence).value}
<1> DEFINE e == InForce(r, day)
           words == {r.types[d] : d \in Datasets} \ {None}
           classes == {AssetOf[w.type] : w \in {w \in words : w.day <= day}} \ {"UNKNOWN"}
           targets == {IndexAsset[x] : x \in Said(e, "tracking_target") \cap DOMAIN IndexAsset}
           values == ({AssetOf[t] : t \in Said(e, "formal_type")} \cup targets) \ {"UNKNOWN"}
           hints == Hints(e) \cap Assets
<1>1. /\ e \in [Datasets -> Evidence] /\ DOMAIN e = Datasets
      /\ \A d \in Datasets : e[d].formal_type \in FormalTypes \cup {None}
  <2>1. e \in [Datasets -> Evidence]
    BY InForceType DEF RecordOK
  <2> HIDE DEF e
  <2> QED
    BY <2>1 DEF Evidence
<1>2. ASSUME NEW w \in words, w.day <= day
      PROVE  w.type \in Said(e, "formal_type")
  <2>1. PICK d \in Datasets : w = r.types[d] /\ r.types[d] # None
    OBVIOUS
  <2>2. w \in Types /\ w.type # None
    BY <2>1, PolicyAssumption DEF RecordOK, Product, Types
  <2>3. day >= w.day
    BY <1>2, <2>2, InputAssumption DEF Types, Days
  <2>4. e[d].formal_type = w.type
    BY <2>1, <2>3 DEF RecordOK
  <2> HIDE DEF e
  <2> QED
    BY <1>1, <2>2, <2>4 DEF Said
<1>3. classes \subseteq values
  BY <1>2
<1> HIDE DEF e
<1>4. values \subseteq Assets
  <2>1. Said(e, "formal_type") \subseteq FormalTypes
    BY <1>1 DEF Said
  <2>2. \A t \in FormalTypes : AssetOf[t] \in Assets \cup {"UNKNOWN"}
    BY PolicyAssumption DEF ValidPolicy
  <2>3. targets \subseteq Assets
    BY PolicyAssumption DEF ValidPolicy
  <2> HIDE DEF targets
  <2> QED
    BY <2>1, <2>2, <2>3
<1>5. AssetClass(e) = Result(values, hints)
  BY DEF AssetClass
<1> HIDE DEF values, hints, classes, targets
<1>6. /\ IsFiniteSet(values) /\ IsFiniteSet(classes)
      /\ Cardinality(values) \in Nat /\ Cardinality(classes) \in Nat
      /\ Cardinality(classes) <= Cardinality(values)
  <2>1. IsFiniteSet(values)
    BY <1>4, FewAssets, FS_Subset
  <2>2. IsFiniteSet(classes) /\ Cardinality(classes) <= Cardinality(values)
    BY <1>3, <2>1, FS_Subset
  <2> QED
    BY <2>1, <2>2, FS_CardinalityType
<1>7. Cardinality(classes) > 1 => AssetClass(e).status = "CONFLICT"
  BY <1>5, <1>6, ResultOf
<1>8. AssetClass(e).status = "CONFIRMED" => classes \subseteq {AssetClass(e).value}
  BY <1>3, <1>5, <1>6, ResultOf
<1>9. AssetClass(e).status = "CONFLICT" => <<"asset_class", "CONFLICT">> \in ReviewItems(e)
  BY DEF ReviewItems
<1> QED
  BY <1>7, <1>8, <1>9 DEF classes, e

(* On every day, two data sets that told types of different classes by then*)
(* are under review, and a class is confirmed only when all that told one  *)
(* agree, whatever they say besides and in whatever order; only an answer  *)
(* of an earlier day takes their word (classify_fields; rules.py).         *)
THEOREM DisputesAlwaysStand == Spec => []DisputesStand
<1>1. CatalogueInv => DisputesStand
  BY DisputeStands DEF CatalogueInv, RowInv, DisputesStand
<1> QED
  BY CatalogueInvariant, <1>1, PTL

\* The tag depends on the strategies that are disclosed, once it is decided.
LEMMA SameDisclosure ==
    ASSUME NEW e \in [Datasets -> Evidence], NEW f \in [Datasets -> Evidence],
           Quantitative(e) \in {"CONFIRMED", "CONFLICT"},
           \A d \in Datasets : f[d].investment_strategy = e[d].investment_strategy
    PROVE  Quantitative(f) = Quantitative(e)
<1>1. Said(f, "investment_strategy") = Said(e, "investment_strategy")
  BY DEF Said
<1>2. \A context : Disclosed(f, context) = Disclosed(e, context)
  BY <1>1 DEF Disclosed
<1> DEFINE adopted == "QUANTITATIVE" \in Disclosed(e, "POSITIVE")
           refused == "QUANTITATIVE" \in Disclosed(e, "NEGATIVE")
<1>3. adopted
  BY DEF Quantitative
<1> QED
  BY <1>2, <1>3 DEF Quantitative

LEMMA StepDisclosures ==
    ASSUME IInv, CatalogueInv, [Next]_vars, NEW p \in Products, NEW day \in Days,
           product[p] # None, product'[p].late = product[p].late
    PROVE  LET old == InForce(product[p], day)
               new == InForce(product'[p], day)
           IN  /\ \A d \in Datasets, f \in ContextFields : old[d][f] # None => new[d][f] # None
               /\ Quantitative(old) \in {"CONFIRMED", "CONFLICT"}
                    /\ (\A d \in Datasets : new[d].investment_strategy
                                              = old[d].investment_strategy)
                    => Quantitative(new) = Quantitative(old)
<1>1. ASSUME NEW w \in Workers, Commit(w)
      PROVE  product'[p] # None /\ RecordOK(product'[p]) /\ Later(product[p], product'[p])
  BY <1>1, Committed DEF RowInv
<1>2. RecordOK(product[p])
  BY DEF CatalogueInv, RowInv
<1>3. \/ UNCHANGED product
      \/ \E w \in Workers : Commit(w)
  BY DEF Next, vars, IngestFunds, LookUp, Register, Classify, BasicInfo, FetchOverview,
         RefreshFund, Backfill, BackfillFund, Fail, CloseIdentity, Midnight
<1>4. RecordOK(product'[p]) /\ Later(product[p], product'[p])
  <2>1. CASE UNCHANGED product
    BY <1>2, <2>1, LaterSelf
  <2> QED
    BY <1>1, <1>3, <2>1
<1> DEFINE old == InForce(product[p], day)
           new == InForce(product'[p], day)
<1>5. old \in [Datasets -> Evidence] /\ new \in [Datasets -> Evidence]
  BY <1>2, <1>4, InForceType DEF RecordOK
<1>6. \A d \in Datasets, f \in ContextFields : old[d][f] # None => new[d][f] # None
  BY <1>4 DEF Later
<1> HIDE DEF old, new
<1>7. Quantitative(old) \in {"CONFIRMED", "CONFLICT"}
        /\ (\A d \in Datasets : new[d].investment_strategy = old[d].investment_strategy)
        => Quantitative(new) = Quantitative(old)
  BY <1>5, SameDisclosure
<1> QED
  BY <1>6, <1>7 DEF old, new

(* No commit forgets, on any day, what a data set said of a product's type,*)
(* strategy, target or membership, nor a tag that such a disclosure        *)
(* confirmed or disputes, unless it writes an answer of an earlier day than*)
(* the one that was written before (classify_fields; classify_strategy).   *)
THEOREM DisclosuresAlwaysStand == Spec => DisclosuresStand
<1>1. IInv /\ CatalogueInv /\ [Next]_vars =>
        [\A p \in Products, day \in Days :
           product[p] # None /\ product'[p].late = product[p].late =>
             LET old == InForce(product[p], day)
                 new == InForce(product'[p], day)
             IN  /\ \A d \in Datasets, f \in ContextFields : old[d][f] # None => new[d][f] # None
                 /\ Quantitative(old) \in {"CONFIRMED", "CONFLICT"}
                      /\ (\A d \in Datasets : new[d].investment_strategy
                                                = old[d].investment_strategy)
                      => Quantitative(new) = Quantitative(old)]_vars
  BY StepDisclosures
<1> QED
  BY CatalogueInvariant, <1>1, PTL DEF Spec, DisclosuresStand

=============================================================================
