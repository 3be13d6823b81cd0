--------------------- MODULE ClassificationReview_proofs ---------------------
(***************************************************************************)
(* Proofs about ClassificationReview, for any sources, values, rules, jobs *)
(* and reviewers: reviewed revisions stand, they follow what the reviewer  *)
(* saw, the review queue is exact, and proposals survive in it.            *)
(***************************************************************************)
EXTENDS ClassificationReview, SequenceTheorems, WellFoundedInduction, TLAPS

CaseFields == {"kind", "rev", "from", "proposal", "whole", "order", "status"}
IsCase(c) == DOMAIN c = CaseFields

(* What the proofs need to know of the shape of the state. *)
Shape ==
    /\ \E S : revs \in Seq(S)
    /\ \A c \in cases : IsCase(c)

IInv == Shape /\ DecidedOnLatest /\ QueueIsExact

-----------------------------------------------------------------------------
(* A new revision *)

LEMMA Appended ==
    ASSUME Shape, NEW revision, revs' = Append(revs, revision)
    PROVE  /\ \E S : revs' \in Seq(S)
           /\ Len(revs) \in Nat
           /\ Len(revs') = Len(revs) + 1
           /\ revs' # <<>>
           /\ revs'[Len(revs')] = revision
           /\ \A v \in 1..Len(revs) : revs'[v] = revs[v]
<1>1. PICK S : revs \in Seq(S)
  BY DEF Shape
<1> DEFINE T == S \cup {revision}
<1>2. revs \in Seq(T) /\ revision \in T
  BY <1>1
<1> HIDE DEF T
<1>3. /\ Append(revs, revision) \in Seq(T)
      /\ Append(revs, revision) # <<>>
      /\ Len(Append(revs, revision)) = Len(revs) + 1
      /\ \A i \in 1..Len(revs) : Append(revs, revision)[i] = revs[i]
      /\ Append(revs, revision)[Len(revs) + 1] = revision
  BY <1>2, AppendProperties
<1>4. Len(revs) \in Nat
  BY <1>2, LenProperties
<1> QED
  BY <1>3, <1>4

(* What is pending after a revision: proposals that were, and the cases of *)
(* its intervals.                                                          *)
LEMMA Rebased ==
    ASSUME \A c \in cases : IsCase(c), NEW version, NEW content, NEW decided
    PROVE  /\ \A c \in Rebase(version, content, decided) : IsCase(c)
           /\ \A c \in Rebase(version, content, decided) : IsPending(c) => c.rev = version
           /\ \A c \in Rebase(version, content, decided) :
                IsPending(c) /\ c.kind = "STATUS" => c \in StatusCases(version, content)
           /\ StatusCases(version, content) \subseteq Rebase(version, content, decided)
<1> DEFINE status(c) == IF c.from = decided THEN "RESOLVED" ELSE "PENDING"
           old == cases \ Pending
           superseded == {[c EXCEPT !.status = "SUPERSEDED"] : c \in Pending}
           carried == {[c EXCEPT !.rev = version, !.status = status(c)] : c \in Undecided}
           status_cases == StatusCases(version, content)
<1>1. Rebase(version, content, decided) = old \cup superseded \cup carried \cup status_cases
  BY DEF Rebase
<1>2. \A c \in old : IsCase(c) /\ ~IsPending(c)
  BY DEF Pending
<1>3. \A c \in superseded : IsCase(c) /\ ~IsPending(c)
  <2> SUFFICES ASSUME NEW c \in Pending
               PROVE  LET d == [c EXCEPT !.status = "SUPERSEDED"]
                      IN  IsCase(d) /\ ~IsPending(d)
    OBVIOUS
  <2>1. IsCase(c)
    BY DEF Pending
  <2> QED
    BY <2>1 DEF IsCase, CaseFields, IsPending
<1>4. \A c \in carried : IsCase(c) /\ c.rev = version /\ c.kind = "REFRESH"
  <2> SUFFICES ASSUME NEW c \in Undecided
               PROVE  LET d == [c EXCEPT !.rev = version, !.status = status(c)]
                      IN  IsCase(d) /\ d.rev = version /\ d.kind = "REFRESH"
    OBVIOUS
  <2>1. IsCase(c) /\ c.kind = "REFRESH"
    BY DEF Undecided, Pending
  <2> QED
    BY <2>1 DEF IsCase, CaseFields
<1>5. \A c \in status_cases : IsCase(c) /\ c.rev = version
  BY DEF StatusCases, IsCase, CaseFields
<1> HIDE DEF old, superseded, carried, status_cases
<1>6. \A c \in Rebase(version, content, decided) :
        IsPending(c) => c \in carried \/ c \in status_cases
  BY <1>1, <1>2, <1>3
<1> QED
  BY <1>1, <1>2, <1>3, <1>4, <1>5, <1>6 DEF status_cases

(* The days of a revision's cases are those of its intervals without a     *)
(* confirmed result.                                                       *)
LEMMA StatusDays ==
    ASSUME NEW version, NEW content
    PROVE  /\ {c.from : c \in StatusCases(version, content)} =
                {d \in Starts(content) : content[d].result \notin Values}
           /\ \A c \in StatusCases(version, content) : IsPending(c) /\ c.kind = "STATUS"
<1> DEFINE unconfirmed == {e \in Starts(content) : content[e].result \notin Values}
           case(d) == [kind |-> "STATUS", rev |-> version, from |-> d,
                       proposal |-> content[d], whole |-> Nobody, order |-> 0,
                       status |-> "PENDING"]
<1>1. StatusCases(version, content) = {case(d) : d \in unconfirmed}
  BY DEF StatusCases
<1>2. \A d : case(d).from = d /\ IsPending(case(d)) /\ case(d).kind = "STATUS"
  BY DEF IsPending
<1> HIDE DEF case, unconfirmed
<1>3. \A c \in StatusCases(version, content) : c.from \in unconfirmed
  BY <1>1, <1>2
<1>4. \A d \in unconfirmed : \E c \in StatusCases(version, content) : c.from = d
  BY <1>1, <1>2
<1>5. {c.from : c \in StatusCases(version, content)} = unconfirmed
  BY <1>3, <1>4
<1>6. \A c \in StatusCases(version, content) : IsPending(c) /\ c.kind = "STATUS"
  BY <1>1, <1>2
<1> QED
  BY <1>5, <1>6 DEF unconfirmed

(* The queue is exact after a revision, whatever decided cases are added.  *)
LEMMA Revised ==
    ASSUME Shape, NEW content, NEW reviewed, NEW at, NEW base, NEW decided,
           revs' = Append(revs, Revision(content, reviewed, at, base)),
           \A c \in cases' : IsCase(c),
           \A c \in cases' : IsPending(c) => c \in Rebase(Len(revs) + 1, content, decided),
           \A c \in Rebase(Len(revs) + 1, content, decided) : IsPending(c) => c \in cases'
    PROVE  Shape' /\ QueueIsExact'
<1> DEFINE version == Len(revs) + 1
<1>1. /\ \E S : revs' \in Seq(S)
      /\ Len(revs') = version
      /\ revs' # <<>>
      /\ revs'[Len(revs')] = Revision(content, reviewed, at, base)
  BY Appended
<1>2. Current' = content
  BY <1>1 DEF Current, Latest, Revision
<1>3. Pending' = {c \in cases' : IsPending(c)}
  BY DEF Pending
<1>4. \A c \in Pending' : c.rev = Len(revs')
  BY <1>1, <1>3, Rebased DEF Shape
<1>5. {b \in Pending' : b.kind = "STATUS"} = StatusCases(version, content)
  <2>1. \A b \in Pending' : b.kind = "STATUS" => b \in StatusCases(version, content)
    BY <1>3, Rebased DEF Shape
  <2>2. \A b \in StatusCases(version, content) : b \in Pending' /\ b.kind = "STATUS"
    BY <1>3, Rebased, StatusDays DEF Shape
  <2> QED
    BY <2>1, <2>2
<1>6. Shape'
  BY <1>1 DEF Shape
<1>7. {c.from : c \in {b \in Pending' : b.kind = "STATUS"}} =
        {d \in Starts(Current') : Current'[d].result \notin Values}
  BY <1>2, <1>5, StatusDays
<1> QED
  BY <1>4, <1>6, <1>7 DEF QueueIsExact, Starts

-----------------------------------------------------------------------------
(* The invariant                                                           *)

LEMMA InitIInv == Init => IInv
<1> SUFFICES ASSUME Init
             PROVE  IInv
  OBVIOUS
<1>1. revs = <<>> /\ cases = {}
  BY DEF Init
<1>2. Shape
  BY <1>1 DEF Shape
<1>3. DecidedOnLatest
  BY <1>1 DEF DecidedOnLatest
<1>4. Pending = {}
  BY <1>1 DEF Pending
<1>5. Starts(Current) = {}
  BY <1>1 DEF Current, Nobody, Starts
<1>6. QueueIsExact
  BY <1>4, <1>5 DEF QueueIsExact
<1> QED
  BY <1>2, <1>3, <1>6 DEF IInv

(* Nothing in the invariant changes when the product's rows do not.        *)
LEMMA Untouched == IInv /\ UNCHANGED <<revs, cases>> => IInv'
<1> SUFFICES ASSUME IInv, UNCHANGED <<revs, cases>>
             PROVE  IInv'
  OBVIOUS
<1>1. revs' = revs /\ cases' = cases
  OBVIOUS
<1>2. Pending' = Pending /\ Current' = Current
  BY <1>1 DEF Pending, Current, Latest
<1>3. Starts(Current') = Starts(Current)
  BY <1>2
<1> QED
  BY <1>1, <1>2, <1>3 DEF IInv, Shape, DecidedOnLatest, QueueIsExact, Starts

(* A new revision keeps DecidedOnLatest when it is not reviewed or follows *)
(* the latest.                                                             *)
LEMMA Decision ==
    ASSUME Shape, DecidedOnLatest, NEW content, NEW reviewed, NEW at, NEW base,
           revs' = Append(revs, Revision(content, reviewed, at, base)),
           reviewed = FALSE \/ base = Len(revs)
    PROVE  DecidedOnLatest'
<1>1. /\ Len(revs) \in Nat
      /\ Len(revs') = Len(revs) + 1
      /\ revs'[Len(revs')] = Revision(content, reviewed, at, base)
      /\ \A v \in 1..Len(revs) : revs'[v] = revs[v]
  BY Appended
<1> SUFFICES ASSUME NEW v \in 1..Len(revs'), revs'[v].reviewed
             PROVE  revs'[v].base = v - 1
  BY DEF DecidedOnLatest
<1>2. CASE v = Len(revs) + 1
  <2>1. revs'[v] = Revision(content, reviewed, at, base)
    BY <1>1, <1>2
  <2>2. revs'[v].reviewed = reviewed /\ revs'[v].base = base
    BY <2>1 DEF Revision
  <2>3. base = Len(revs)
    BY <2>2
  <2> QED
    BY <1>1, <1>2, <2>2, <2>3
<1>3. CASE v \in 1..Len(revs)
  BY <1>1, <1>3 DEF DecidedOnLatest
<1> QED
  BY <1>1, <1>2, <1>3

LEMMA RefreshKeeps ==
    ASSUME IInv, NEW w \in Workers, Refresh(w)
    PROVE  IInv'
<1> DEFINE d == job[w].at
           content == From(d, Classified(Overlay(Retained(d), job[w].report)))
           version == Len(revs) + 1
           case == Proposal(content, d)
<1>1. CASE UNCHANGED <<revs, cases>>
  BY <1>1, Untouched
<1>2. CASE revs' = revs /\ cases' = cases \cup {case}
  <2>1. case.rev = Len(revs) /\ case.kind = "REFRESH" /\ IsCase(case)
    BY DEF Proposal, IsCase, CaseFields
  <2> HIDE DEF case
  <2>2. Current' = Current
    BY <1>2 DEF Current, Latest
  <2>3. Pending' \subseteq Pending \cup {case} /\ Pending \subseteq Pending'
    BY <1>2 DEF Pending
  <2>4. {b \in Pending' : b.kind = "STATUS"} = {b \in Pending : b.kind = "STATUS"}
    BY <2>1, <2>3
  <2>5. QueueIsExact'
    BY <1>2, <2>1, <2>2, <2>3, <2>4 DEF IInv, QueueIsExact, Starts
  <2>6. Shape'
    BY <1>2, <2>1 DEF IInv, Shape
  <2> QED
    BY <1>2, <2>5, <2>6 DEF IInv, DecidedOnLatest
<1>3. CASE /\ revs' = Append(revs, Revision(content, FALSE, d, 0))
           /\ cases' = Rebase(version, content, None)
  <2> HIDE DEF content, d
  <2>1. Shape
    BY DEF IInv
  <2>2. \A c \in cases' : IsCase(c)
    BY <1>3, <2>1, Rebased DEF Shape
  <2>3. Shape' /\ QueueIsExact'
    BY <1>3, <2>1, <2>2, Revised
  <2>4. DecidedOnLatest'
    BY <1>3, Decision DEF IInv
  <2> QED
    BY <2>3, <2>4 DEF IInv
<1> QED
  BY <1>1, <1>2, <1>3 DEF Refresh

LEMMA ReviewKeeps ==
    ASSUME IInv, NEW r \in Reviewers, NEW value, Review(r, value)
    PROVE  IInv'
<1> DEFINE c == opened[r]
           version == Len(revs) + 1
           content == [d \in Days |-> IF d \in Decides(c) THEN Decided(c, value)
                                      ELSE Current[d]]
           superseded == [c EXCEPT !.status = "SUPERSEDED"]
           settled == [c EXCEPT !.status = "RESOLVED"]
<1>1. /\ revs' = Append(revs, Revision(content, TRUE, now, c.rev))
      /\ cases' = (Rebase(version, content, c.from) \ {superseded}) \cup {settled}
      /\ c.rev = Len(revs) /\ c \in cases
  BY DEF Review, Fresh
<1>2. IsCase(c) /\ Shape
  BY <1>1 DEF IInv, Shape
<1>3. /\ IsCase(settled) /\ ~IsPending(settled)
      /\ ~IsPending(superseded)
  BY <1>2 DEF IsCase, CaseFields, IsPending
<1> HIDE DEF c, content, superseded, settled
<1>4. \A b \in Rebase(version, content, c.from) : IsCase(b)
  BY <1>2, Rebased DEF Shape
<1>5. /\ \A b \in cases' : IsCase(b)
      /\ \A b \in cases' : IsPending(b) => b \in Rebase(version, content, c.from)
      /\ \A b \in Rebase(version, content, c.from) : IsPending(b) => b \in cases'
  BY <1>1, <1>3, <1>4
<1>6. Shape' /\ QueueIsExact'
  BY <1>1, <1>2, <1>5, Revised
<1>7. DecidedOnLatest'
  BY <1>1, Decision DEF IInv
<1> QED
  BY <1>6, <1>7 DEF IInv

LEMMA NextKeeps == IInv /\ [Next]_vars => IInv'
<1> SUFFICES ASSUME IInv, [Next]_vars
             PROVE  IInv'
  OBVIOUS
<1>1. CASE Tomorrow
  BY <1>1, Untouched DEF Tomorrow
<1>2. ASSUME NEW w \in Workers, NEW report \in Obs, Collect(w, report)
      PROVE  IInv'
  BY <1>2, Untouched DEF Collect
<1>3. ASSUME NEW w \in Workers, Refresh(w)
      PROVE  IInv'
  BY <1>3, RefreshKeeps
<1>4. ASSUME NEW w \in Workers, Fail(w)
      PROVE  IInv'
  BY <1>4, Untouched DEF Fail
<1>5. ASSUME NEW r \in Reviewers, NEW c \in Pending, Open(r, c)
      PROVE  IInv'
  BY <1>5, Untouched DEF Open
<1>6. ASSUME NEW r \in Reviewers, NEW v \in Values \cup {"UNKNOWN"}, Review(r, v)
      PROVE  IInv'
  BY <1>6, ReviewKeeps
<1>7. ASSUME NEW r \in Reviewers, Leave(r)
      PROVE  IInv'
  BY <1>7, Untouched DEF Leave
<1>8. CASE UNCHANGED vars
  BY <1>8, Untouched DEF vars
<1> QED
  BY <1>1, <1>2, <1>3, <1>4, <1>5, <1>6, <1>7, <1>8 DEF Next

LEMMA Inductive == Spec => []IInv
<1>1. Init => IInv
  BY InitIInv
<1>2. IInv /\ [Next]_vars => IInv'
  BY NextKeeps
<1> QED
  BY <1>1, <1>2, PTL DEF Spec

-----------------------------------------------------------------------------
(* What is stored and collected: the snapshots of cases are those of a     *)
(* content, and proposals are undecided only while the latest revision is  *)
(* a reviewed one.                                                         *)

CaseType ==
    [kind : {"STATUS", "REFRESH"}, rev : Nat, from : Days, proposal : Snapshot,
     whole : Content, order : Nat, status : {"PENDING", "RESOLVED", "SUPERSEDED"}]

CasesOK == cases \subseteq CaseType /\ \A c \in cases : c.order <= proposed
JobsOK ==
    /\ job = [w \in Workers |-> job[w]]
    /\ \A w \in Workers : job[w] # None => job[w].at \in Days /\ job[w].report \in Obs

TInv ==
    /\ now \in Days
    /\ proposed \in Nat
    /\ \A v \in 1..Len(revs) : revs[v].content \in Content
    /\ CasesOK
    /\ JobsOK
    /\ Undecided # {} => ReviewedNow

\* A set of natural numbers with a bound has a greatest.
LEMMA Greatest ==
    ASSUME NEW N \in SUBSET Nat, N # {}, NEW bound \in Nat, \A n \in N : n <= bound
    PROVE  \E n \in N : \A m \in N : m <= n
<1> DEFINE R == OpToRel(<, Nat)
           rest == {bound - n : n \in N}
<1>1. IsWellFoundedOn(R, Nat)
  BY NatLessThanWellFounded
<1>2. \A m, n \in Nat : m < n => <<m, n>> \in R
  BY DEF OpToRel
<1> HIDE DEF R
<1>3. rest \subseteq Nat /\ rest # {}
  <2>1. \A n \in N : bound - n \in Nat
    OBVIOUS
  <2> QED
    BY <2>1
<1> HIDE DEF rest
<1>4. PICK k \in rest : \A l \in rest : ~(<<l, k>> \in R)
  BY <1>1, <1>3, WFMin
<1>5. \A l \in rest : ~(l < k) /\ l \in Nat /\ k \in Nat
  BY <1>2, <1>3, <1>4
<1>6. PICK n \in N : k = bound - n
  BY DEF rest
<1>7. ASSUME NEW m \in N PROVE m <= n
  <2>1. bound - m \in rest
    BY DEF rest
  <2> QED
    BY <1>5, <1>6, <2>1
<1> QED
  BY <1>7

\* An interval ends on the day it begins or later.
LEMMA EndAfter ==
    ASSUME NEW content \in Content, NEW d \in Days
    PROVE  EndOf(content, d) \in Days /\ EndOf(content, d) >= d
<1> DEFINE Same(e) == \A i \in d..e : content[i] = content[d]
           N == {e \in Days : e >= d /\ Same(e)}
           Ends(e) == /\ e >= d
                      /\ \A i \in d..e : content[i] = content[d]
                      /\ e = LastDay \/ content[e + 1] # content[d]
<1>1. LastDay \in Nat /\ Days = 0..LastDay /\ d \in Nat /\ d <= LastDay
  BY BoundsAssumption DEF Days
<1>2. N \in SUBSET Nat /\ d \in N /\ \A n \in N : n <= LastDay
  BY <1>1
<1> HIDE DEF N
<1>3. PICK e \in N : \A m \in N : m <= e
  BY <1>1, <1>2, Greatest
<1>4. e \in Days /\ e >= d /\ Same(e) /\ e \in Nat
  BY <1>1, <1>3 DEF N
<1>5. e = LastDay \/ content[e + 1] # content[d]
  <2> SUFFICES ASSUME e # LastDay, content[e + 1] = content[d]
               PROVE  FALSE
    OBVIOUS
  <2>1. e + 1 \in Days /\ e + 1 >= d
    BY <1>1, <1>4
  <2>2. \A i \in d..(e + 1) : i \in d..e \/ i = e + 1
    BY <1>1, <1>4
  <2>3. Same(e + 1)
    BY <1>4, <2>2
  <2>4. e + 1 \in N
    BY <2>1, <2>3 DEF N
  <2> QED
    BY <1>3, <1>4, <2>4
<1>6. Ends(e)
  BY <1>4, <1>5
<1>7. EndOf(content, d) = CHOOSE x \in Days : Ends(x)
  BY DEF EndOf
<1> HIDE DEF Ends
<1>8. EndOf(content, d) \in Days /\ Ends(EndOf(content, d))
  BY <1>4, <1>6, <1>7
<1> QED
  BY <1>8 DEF Ends

LEMMA CurrentOK == Shape /\ TInv => Current \in Content
<1> SUFFICES ASSUME Shape, TInv PROVE Current \in Content
  OBVIOUS
<1>1. Nobody \in Content
  BY DEF Nobody, Content
<1>2. CASE revs = <<>>
  BY <1>1, <1>2 DEF Current
<1>3. CASE revs # <<>>
  <2>1. PICK S : revs \in Seq(S)
    BY DEF Shape
  <2>2. Len(revs) \in 1..Len(revs)
    BY <1>3, <2>1
  <2> QED
    BY <1>3, <2>2 DEF Current, Latest, TInv
<1> QED
  BY <1>2, <1>3

\* What a refresh writes is a snapshot.
LEMMA RetainedOK ==
    ASSUME Shape, TInv, NEW d \in Days
    PROVE  Retained(d) \in Obs
<1> SUFFICES ASSUME NEW s \in Sources
             PROVE  Retained(d)[s] \in Values \cup {None}
  BY DEF Retained, Obs
<1> DEFINE tells == {c \in Proposals(d) : c.proposal.obs[s] # None}
           last == CHOOSE c \in tells : \A b \in tells : b.order <= c.order
<1>1. Retained(d)[s] = IF tells # {} THEN last.proposal.obs[s]
                       ELSE IF Current[d] = None THEN None ELSE Current[d].obs[s]
  BY DEF Retained
<1>2. \A c \in tells : c \in CaseType /\ c.order <= proposed
  BY DEF Proposals, Undecided, Pending, TInv, CasesOK
<1>3. CASE tells # {}
  <2> DEFINE orders == {c.order : c \in tells}
  <2>1. orders \in SUBSET Nat /\ orders # {} /\ \A n \in orders : n <= proposed
    BY <1>2, <1>3 DEF CaseType
  <2>2. proposed \in Nat
    BY DEF TInv
  <2>3. \E n \in orders : \A m \in orders : m <= n
    <3> HIDE DEF orders
    <3> QED
      BY <2>1, <2>2, Greatest
  <2> HIDE DEF tells
  <2>4. \E c \in tells : \A b \in tells : b.order <= c.order
    BY <2>3
  <2>5. last \in tells
    BY <2>4
  <2> HIDE DEF last
  <2>6. last.proposal \in Snapshot
    BY <1>2, <2>5 DEF CaseType
  <2>7. last.proposal.obs \in Obs
    BY <2>6 DEF Snapshot
  <2> QED
    BY <1>1, <1>3, <2>7 DEF Obs
<1>4. CASE tells = {}
  <2>1. Current[d] = None \/ Current[d] \in Snapshot
    BY CurrentOK DEF Content
  <2>2. Current[d] \in Snapshot => Current[d].obs \in Obs
    BY DEF Snapshot
  <2> QED
    BY <1>1, <1>4, <2>1, <2>2 DEF Obs
<1> QED
  BY <1>3, <1>4

LEMMA RefreshedOK ==
    ASSUME Shape, TInv, NEW w \in Workers, job[w] # None
    PROVE  LET d == job[w].at
               s == Classified(Overlay(Retained(d), job[w].report))
           IN  d \in Days /\ s \in Snapshot /\ From(d, s) \in Content
<1> DEFINE d == job[w].at
           obs == Overlay(Retained(d), job[w].report)
           s == Classified(obs)
<1>1. d \in Days /\ job[w].report \in Obs
  BY DEF TInv, JobsOK
<1>2. Retained(d) \in Obs
  BY <1>1, RetainedOK
<1>3. obs \in Obs
  BY <1>1, <1>2 DEF Obs, Overlay
<1> HIDE DEF obs
<1>4. s \in Snapshot
  BY <1>3, ClassifyAssumption, BoundsAssumption DEF Classified, Snapshot
<1> HIDE DEF s, d
<1>5. From(d, s) \in Content
  BY <1>4, CurrentOK DEF From, Content
<1> QED
  BY <1>1, <1>4, <1>5 DEF s, obs, d

LEMMA RebaseTyped ==
    ASSUME CasesOK, proposed \in Nat, NEW version \in Nat, NEW content \in Content, NEW decided
    PROVE  /\ Rebase(version, content, decided) \subseteq CaseType
           /\ \A c \in Rebase(version, content, decided) : c.order <= proposed
<1>1. ASSUME NEW c \in cases, NEW rev \in Nat,
             NEW status \in {"PENDING", "RESOLVED", "SUPERSEDED"}
      PROVE  /\ [c EXCEPT !.status = status] \in CaseType
             /\ [c EXCEPT !.status = status].order = c.order
             /\ [c EXCEPT !.rev = rev, !.status = status] \in CaseType
             /\ [c EXCEPT !.rev = rev, !.status = status].order = c.order
  BY DEF CasesOK, CaseType
<1>2. \A c \in StatusCases(version, content) : c \in CaseType /\ c.order = 0
  <2>1. \A d \in Starts(content) : d \in Days /\ content[d] \in Snapshot
    BY DEF Starts, Content
  <2>2. Nobody \in Content
    BY DEF Nobody, Content
  <2> QED
    BY <2>1, <2>2 DEF StatusCases, CaseType
<1>3. Undecided \subseteq Pending /\ Pending \subseteq cases
  BY DEF Undecided, Pending
<1>4. ASSUME NEW c \in Undecided
      PROVE  LET b == [c EXCEPT !.rev = version,
                                !.status = IF c.from = decided THEN "RESOLVED" ELSE "PENDING"]
             IN  b \in CaseType /\ b.order = c.order
  <2> DEFINE status == IF c.from = decided THEN "RESOLVED" ELSE "PENDING"
  <2>1. status \in {"PENDING", "RESOLVED", "SUPERSEDED"} /\ c \in cases
    BY <1>3
  <2> HIDE DEF status
  <2>2. /\ [c EXCEPT !.rev = version, !.status = status] \in CaseType
        /\ [c EXCEPT !.rev = version, !.status = status].order = c.order
    BY <1>1, <2>1
  <2> QED
    BY <2>2 DEF status
<1>5. ASSUME NEW c \in Pending
      PROVE  [c EXCEPT !.status = "SUPERSEDED"] \in CaseType
             /\ [c EXCEPT !.status = "SUPERSEDED"].order = c.order
  BY <1>1, <1>3
<1>6. \A c \in cases : c \in CaseType /\ c.order <= proposed
  BY DEF CasesOK
<1> SUFFICES ASSUME NEW c \in Rebase(version, content, decided)
             PROVE  c \in CaseType /\ c.order <= proposed
  OBVIOUS
<1>7. CASE c \in cases \ Pending
  BY <1>6, <1>7
<1>8. CASE c \in {[b EXCEPT !.status = "SUPERSEDED"] : b \in Pending}
  BY <1>3, <1>5, <1>6, <1>8
<1>9. CASE c \in {[b EXCEPT !.rev = version,
                            !.status = IF b.from = decided THEN "RESOLVED" ELSE "PENDING"] :
                    b \in Undecided}
  BY <1>3, <1>4, <1>6, <1>9
<1>10. CASE c \in StatusCases(version, content)
  BY <1>2, <1>10
<1> QED
  BY <1>7, <1>8, <1>9, <1>10 DEF Rebase

LEMMA InitTInv == Init => TInv
<1> SUFFICES ASSUME Init PROVE TInv
  OBVIOUS
<1>1. now = 0 /\ revs = <<>> /\ cases = {} /\ proposed = 0 /\ job = [w \in Workers |-> None]
  BY DEF Init
<1>2. now \in Days /\ Pending = {}
  BY <1>1, BoundsAssumption DEF Days, Pending
<1> QED
  BY <1>1, <1>2 DEF TInv, CasesOK, JobsOK, Undecided

\* A worker's job begins or ends, or time passes.
LEMMA JobsChange ==
    ASSUME TInv, UNCHANGED <<revs, cases, proposed>>, now' \in Days, JobsOK'
    PROVE  TInv'
<1>1. /\ revs' = revs /\ Pending' = Pending /\ Undecided' = Undecided
      /\ (ReviewedNow' <=> ReviewedNow)
  BY DEF Pending, Undecided, ReviewedNow, Latest
<1> QED
  BY <1>1 DEF TInv, CasesOK

LEMMA JobEnds ==
    ASSUME TInv, NEW w \in Workers, job' = [job EXCEPT ![w] = None]
    PROVE  JobsOK'
BY DEF TInv, JobsOK

\* A revision is appended.
LEMMA RevisionTyped ==
    ASSUME Shape, TInv, NEW content \in Content, NEW reviewed, NEW at, NEW base,
           revs' = Append(revs, Revision(content, reviewed, at, base)),
           UNCHANGED <<now, proposed>>, CasesOK', JobsOK',
           Undecided' # {} => reviewed
    PROVE  TInv'
<1>1. /\ Len(revs) \in Nat /\ Len(revs') = Len(revs) + 1 /\ revs' # <<>>
      /\ revs'[Len(revs')] = Revision(content, reviewed, at, base)
      /\ \A v \in 1..Len(revs) : revs'[v] = revs[v]
  BY Appended
<1>2. \A v \in 1..Len(revs') : v \in 1..Len(revs) \/ v = Len(revs')
  BY <1>1
<1>3. Revision(content, reviewed, at, base).content = content
      /\ Revision(content, reviewed, at, base).reviewed = reviewed
  BY DEF Revision
<1>4. \A v \in 1..Len(revs') : revs'[v].content \in Content
  BY <1>1, <1>2, <1>3 DEF TInv
<1>5. Undecided' # {} => ReviewedNow'
  BY <1>1, <1>3 DEF ReviewedNow, Latest
<1> QED
  BY <1>4, <1>5 DEF TInv

LEMMA RefreshTyped ==
    ASSUME IInv, TInv, NEW w \in Workers, Refresh(w)
    PROVE  TInv'
<1> DEFINE d == job[w].at
           s == Classified(Overlay(Retained(d), job[w].report))
           content == From(d, s)
           version == Len(revs) + 1
           case == Proposal(content, d)
<1>1. d \in Days /\ s \in Snapshot /\ content \in Content /\ Shape
  BY RefreshedOK DEF Refresh, IInv
<1>2. JobsOK' /\ now' = now /\ now' \in Days
  BY JobEnds DEF Refresh, TInv
<1>3. CASE UNCHANGED <<revs, cases, proposed>>
  BY <1>2, <1>3, JobsChange
<1>4. CASE /\ ReviewedNow /\ revs' = revs /\ proposed' = proposed + 1
           /\ cases' = cases \cup {case}
  <2>1. content[d] = s
    BY <1>1, BoundsAssumption DEF From, Days
  <2>2. Len(revs) \in Nat /\ proposed \in Nat /\ proposed + 1 \in Nat
    BY <1>1 DEF Shape, TInv
  <2> HIDE DEF content, s, d
  <2>3. case \in CaseType /\ case.order = proposed + 1
    BY <1>1, <2>1, <2>2 DEF Proposal, CaseType
  <2> HIDE DEF case
  <2>4. CasesOK'
    BY <1>4, <2>2, <2>3 DEF TInv, CasesOK, CaseType
  <2>5. ReviewedNow'
    BY <1>4 DEF ReviewedNow, Latest
  <2> QED
    BY <1>2, <1>4, <2>2, <2>4, <2>5 DEF TInv
<1>5. CASE /\ ~ReviewedNow
           /\ revs' = Append(revs, Revision(content, FALSE, d, 0))
           /\ cases' = Rebase(version, content, None)
           /\ UNCHANGED proposed
  <2>1. CasesOK /\ proposed \in Nat /\ version \in Nat
    BY <1>1, Appended, <1>5 DEF TInv
  <2>2. CasesOK'
    BY <1>1, <1>5, <2>1, RebaseTyped DEF CasesOK
  <2>3. Undecided = {}
    BY <1>5 DEF TInv
  <2>4. Undecided' = {}
    <3>1. \A c \in cases' : IsPending(c) => c \in StatusCases(version, content)
      <4>1. \A c \in Pending : ~IsPending([c EXCEPT !.status = "SUPERSEDED"])
        BY <2>1 DEF Pending, IsPending, CasesOK, CaseType
      <4> QED
        BY <1>5, <2>3, <4>1 DEF Rebase, Pending
    <3>2. \A c \in StatusCases(version, content) : c.kind = "STATUS"
      BY DEF StatusCases
    <3> QED
      BY <3>1, <3>2 DEF Undecided, Pending
  <2> HIDE DEF content
  <2> QED
    BY <1>1, <1>2, <1>5, <2>2, <2>4, RevisionTyped
<1>6. \/ UNCHANGED <<revs, cases, proposed>>
      \/ /\ ReviewedNow /\ revs' = revs /\ proposed' = proposed + 1
         /\ cases' = cases \cup {case}
      \/ /\ ~ReviewedNow
         /\ revs' = Append(revs, Revision(content, FALSE, d, 0))
         /\ cases' = Rebase(version, content, None)
         /\ UNCHANGED proposed
  BY DEF Refresh
<1> QED
  BY <1>3, <1>4, <1>5, <1>6

\* A review decides the first day of its case.
LEMMA ReviewDecides ==
    ASSUME IInv, TInv, NEW r \in Reviewers, NEW value \in Values \cup {"UNKNOWN"},
           Review(r, value)
    PROVE  LET c == opened[r]
               content == [d \in Days |-> IF d \in Decides(c) THEN Decided(c, value)
                                          ELSE Current[d]]
           IN  /\ c \in cases /\ c \in CaseType
               /\ content \in Content
               /\ content[c.from] # None /\ content[c.from].manual = Len(revs) + 1
<1> DEFINE c == opened[r]
           decided == Decided(c, value)
           content == [d \in Days |-> IF d \in Decides(c) THEN decided ELSE Current[d]]
<1>1. c \in cases /\ c \in CaseType /\ Len(revs) + 1 <= MaxRevs
  BY DEF Review, Fresh, TInv, CasesOK
<1>2. c.from \in Days /\ c.proposal \in Snapshot
  BY <1>1 DEF CaseType
<1>3. c.proposal.obs \in Obs
  BY <1>2 DEF Snapshot
<1>4. Len(revs) \in Nat /\ Current \in Content
  BY CurrentOK DEF IInv, Shape
<1> HIDE DEF c
<1>5. decided \in Snapshot /\ decided.manual = Len(revs) + 1
  BY <1>1, <1>3, <1>4, BoundsAssumption DEF Decided, Snapshot, Results
<1> HIDE DEF decided
<1>6. c.from \in Decides(c)
  <2>1. EndOf(Current, c.from) \in Days /\ EndOf(Current, c.from) >= c.from
    BY <1>2, <1>4, EndAfter
  <2>2. c.from \in Nat /\ c.from <= LastDay /\ LastDay \in Nat
    BY <1>2, BoundsAssumption DEF Days
  <2>3. EndOf(Current, c.from) \in Nat
    BY <2>1, BoundsAssumption DEF Days
  <2> QED
    BY <2>1, <2>2, <2>3 DEF Decides
<1>7. content \in Content
  BY <1>4, <1>5 DEF Content
<1>8. content[c.from] = decided
  BY <1>2, <1>6
<1> QED
  BY <1>1, <1>5, <1>7, <1>8, NoneAssumption DEF c, decided

LEMMA ReviewTyped ==
    ASSUME IInv, TInv, NEW r \in Reviewers, NEW value \in Values \cup {"UNKNOWN"},
           Review(r, value)
    PROVE  TInv'
<1> DEFINE c == opened[r]
           content == [d \in Days |-> IF d \in Decides(c) THEN Decided(c, value)
                                      ELSE Current[d]]
           version == Len(revs) + 1
           settled == [c EXCEPT !.status = "RESOLVED"]
           superseded == [c EXCEPT !.status = "SUPERSEDED"]
<1>1. /\ revs' = Append(revs, Revision(content, TRUE, now, c.rev))
      /\ cases' = (Rebase(version, content, c.from) \ {superseded}) \cup {settled}
      /\ UNCHANGED <<now, proposed, job>>
  BY DEF Review
<1>2. content \in Content /\ c \in cases /\ c \in CaseType
  BY ReviewDecides
<1>3. CasesOK /\ proposed \in Nat /\ version \in Nat /\ Shape
  BY <1>1, Appended DEF TInv, IInv
<1> HIDE DEF content, c
<1>4. settled \in CaseType /\ settled.order = c.order
  BY <1>2 DEF CaseType
<1>5. CasesOK'
  <2>1. /\ Rebase(version, content, c.from) \subseteq CaseType
        /\ \A b \in Rebase(version, content, c.from) : b.order <= proposed
    BY <1>2, <1>3, RebaseTyped
  <2>2. c.order <= proposed
    BY <1>2, <1>3 DEF CasesOK
  <2> HIDE DEF settled, superseded
  <2> QED
    BY <1>1, <1>4, <2>1, <2>2 DEF CasesOK
<1>6. JobsOK'
  BY <1>1 DEF TInv, JobsOK
<1> QED
  BY <1>1, <1>2, <1>3, <1>5, <1>6, RevisionTyped

LEMMA NextTyped == IInv /\ TInv /\ [Next]_vars => TInv'
<1> SUFFICES ASSUME IInv, TInv, [Next]_vars
             PROVE  TInv'
  OBVIOUS
<1>1. CASE Tomorrow
  <2>1. now' \in Days /\ JobsOK'
    BY <1>1, BoundsAssumption DEF Tomorrow, TInv, Days, JobsOK
  <2> QED
    BY <1>1, <2>1, JobsChange DEF Tomorrow
<1>2. ASSUME NEW w \in Workers, NEW report \in Obs, Collect(w, report)
      PROVE  TInv'
  <2> DEFINE k == [at |-> now, report |-> report, base |-> Current[now]]
  <2>1. job' = [job EXCEPT ![w] = k] /\ now' = now
    BY <1>2 DEF Collect
  <2>2. k.at \in Days /\ k.report \in Obs
    BY DEF TInv
  <2> HIDE DEF k
  <2>3. JobsOK'
    BY <2>1, <2>2 DEF TInv, JobsOK
  <2> QED
    BY <1>2, <2>1, <2>3, JobsChange DEF Collect, TInv
<1>3. ASSUME NEW w \in Workers, Fail(w)
      PROVE  TInv'
  BY <1>3, JobEnds, JobsChange DEF Fail, TInv
<1>4. ASSUME UNCHANGED <<now, revs, cases, proposed, job>>
      PROVE  TInv'
  <2>1. JobsOK' /\ now' \in Days
    BY <1>4 DEF TInv, JobsOK
  <2> QED
    BY <1>4, <2>1, JobsChange
<1>5. ASSUME NEW r \in Reviewers, NEW c \in Pending, Open(r, c)
      PROVE  TInv'
  BY <1>4, <1>5 DEF Open
<1>6. ASSUME NEW r \in Reviewers, Leave(r)
      PROVE  TInv'
  BY <1>4, <1>6 DEF Leave
<1>7. CASE UNCHANGED vars
  BY <1>4, <1>7 DEF vars
<1> QED
  BY <1>1, <1>2, <1>3, <1>5, <1>6, <1>7, RefreshTyped, ReviewTyped DEF Next

LEMMA Typed == Spec => [](IInv /\ TInv)
<1>1. Init => IInv /\ TInv
  BY InitIInv, InitTInv
<1>2. IInv /\ TInv /\ [Next]_vars => (IInv /\ TInv)'
  BY NextKeeps, NextTyped
<1> QED
  BY <1>1, <1>2, PTL DEF Spec

\* A revision carries an undecided proposal over, unless it decides its day.
LEMMA CarriedOver ==
    ASSUME CasesOK, NEW version, NEW content, NEW decided, NEW c \in Undecided,
           c.from # decided
    PROVE  \E b \in Rebase(version, content, decided) :
             b.status = "PENDING" /\ b.kind = "REFRESH" /\ b.order = c.order
<1> DEFINE Carry(x) == [x EXCEPT !.rev = version,
                                 !.status = IF x.from = decided THEN "RESOLVED" ELSE "PENDING"]
           b == [c EXCEPT !.rev = version, !.status = "PENDING"]
<1>1. c \in CaseType /\ c.kind = "REFRESH"
  BY DEF CasesOK, Undecided, Pending
<1>2. b.status = "PENDING" /\ b.kind = "REFRESH" /\ b.order = c.order
  BY <1>1 DEF CaseType
<1>3. Carry(c) = b
  OBVIOUS
<1>4. Carry(c) \in Rebase(version, content, decided)
  BY DEF Rebase
<1> HIDE DEF Carry, b
<1> QED
  BY <1>2, <1>3, <1>4

LEMMA StepProposals ==
    ASSUME IInv, TInv, [Next]_vars, NEW c \in Undecided
    PROVE  \/ \E b \in Undecided' : b.order = c.order
           \/ /\ revs'[Len(revs')].content[c.from] # None
              /\ revs'[Len(revs')].content[c.from].manual = Len(revs')
<1>1. ASSUME cases \subseteq cases'
      PROVE  \E b \in Undecided' : b.order = c.order
  <2>1. c \in cases' /\ IsPending(c) /\ c.kind = "REFRESH"
    BY <1>1 DEF Undecided, Pending
  <2>2. Undecided' = {b \in cases' : IsPending(b) /\ b.kind = "REFRESH"}
    BY DEF Undecided, Pending
  <2> QED
    BY <2>1, <2>2
<1>2. ASSUME NEW w \in Workers, Refresh(w)
      PROVE  \E b \in Undecided' : b.order = c.order
  <2>1. ReviewedNow
    BY DEF TInv
  <2>2. cases \subseteq cases'
    BY <1>2, <2>1 DEF Refresh
  <2> QED
    BY <1>1, <2>2
<1>3. ASSUME NEW r \in Reviewers, NEW value \in Values \cup {"UNKNOWN"}, Review(r, value)
      PROVE  \/ \E b \in Undecided' : b.order = c.order
             \/ /\ revs'[Len(revs')].content[c.from] # None
                /\ revs'[Len(revs')].content[c.from].manual = Len(revs')
  <2> DEFINE a == opened[r]
             content == [d \in Days |-> IF d \in Decides(a) THEN Decided(a, value)
                                        ELSE Current[d]]
             version == Len(revs) + 1
             superseded == [a EXCEPT !.status = "SUPERSEDED"]
             settled == [a EXCEPT !.status = "RESOLVED"]
  <2>1. /\ revs' = Append(revs, Revision(content, TRUE, now, a.rev))
        /\ cases' = (Rebase(version, content, a.from) \ {superseded}) \cup {settled}
    BY <1>3 DEF Review
  <2>2. /\ a \in CaseType
        /\ content[a.from] # None /\ content[a.from].manual = Len(revs) + 1
    BY <1>3, ReviewDecides
  <2> HIDE DEF a, content
  <2>3. CASE c.from # a.from
    <3>1. PICK b \in Rebase(version, content, a.from) :
            b.status = "PENDING" /\ b.kind = "REFRESH" /\ b.order = c.order
      BY <2>3, CarriedOver DEF TInv
    <3>2. superseded.status = "SUPERSEDED"
      BY <2>2 DEF CaseType
    <3>3. b \in cases'
      BY <2>1, <3>1, <3>2
    <3> QED
      BY <3>1, <3>3 DEF Undecided, Pending, IsPending
  <2>4. CASE c.from = a.from
    <3>1. /\ Len(revs') = Len(revs) + 1
          /\ revs'[Len(revs')] = Revision(content, TRUE, now, a.rev)
      BY <2>1, Appended DEF IInv
    <3>2. revs'[Len(revs')].content = content
      BY <3>1 DEF Revision
    <3> QED
      BY <2>2, <2>4, <3>1, <3>2
  <2> QED
    BY <2>3, <2>4
<1>4. \/ cases' = cases
      \/ \E w \in Workers : Refresh(w)
      \/ \E r \in Reviewers, v \in Values \cup {"UNKNOWN"} : Review(r, v)
  BY DEF Next, vars, Tomorrow, Collect, Fail, Open, Leave
<1> QED
  BY <1>1, <1>2, <1>3, <1>4

-----------------------------------------------------------------------------
(* The theorems                                                            *)

\* Whatever jobs and reviewers interleave, what is pending belongs to the latest
\* revision, and exactly its intervals without a confirmed result are in the queue.
THEOREM TheQueueIsExact == Spec => []QueueIsExact
<1>1. IInv => QueueIsExact
  BY DEF IInv
<1> QED
  BY <1>1, Inductive, PTL

\* Every reviewed revision follows the one its reviewer looked at: the freshness
\* check under the product's lock loses no decision to one taken on an older page.
THEOREM DecisionsAreFresh == Spec => []DecidedOnLatest
<1>1. IInv => DecidedOnLatest
  BY DEF IInv
<1> QED
  BY <1>1, Inductive, PTL

\* No refresh, whenever it collected, replaces what people decided.
THEOREM ReviewsStand == Spec => ReviewStands
<1>1. IInv /\ [Next]_vars =>
        [revs' # revs /\ ReviewedNow => revs'[Len(revs')].reviewed]_vars
  <2> SUFFICES ASSUME IInv, Next, revs' # revs, ReviewedNow
               PROVE  revs'[Len(revs')].reviewed
    BY DEF vars
  <2>1. ASSUME NEW w \in Workers, Refresh(w)
        PROVE  revs' = revs
    BY <2>1 DEF Refresh
  <2>2. ASSUME NEW r \in Reviewers, NEW value, Review(r, value)
        PROVE  revs'[Len(revs')].reviewed
    <3> DEFINE c == opened[r]
               content == [d \in Days |-> IF d \in Decides(c) THEN Decided(c, value)
                                          ELSE Current[d]]
    <3>1. revs' = Append(revs, Revision(content, TRUE, now, c.rev))
      BY <2>2 DEF Review
    <3> HIDE DEF c, content
    <3>2. revs'[Len(revs')] = Revision(content, TRUE, now, c.rev)
      BY <3>1, Appended DEF IInv
    <3> QED
      BY <3>2 DEF Revision
  <2> QED
    BY <2>1, <2>2 DEF Next, Tomorrow, Collect, Fail, Open, Leave
<1> QED
  BY <1>1, Inductive, PTL DEF Spec, ReviewStands

\* A proposal leaves the queue only by a review that decides its first day: jobs
\* never drop it, and reviews of other days carry it over to their revision.
THEOREM ProposalsAlwaysSurvive == Spec => ProposalsSurvive
<1>1. IInv /\ TInv /\ [Next]_vars =>
        [\A c \in Undecided :
           \/ \E b \in Undecided' : b.order = c.order
           \/ /\ revs'[Len(revs')].content[c.from] # None
              /\ revs'[Len(revs')].content[c.from].manual = Len(revs')]_vars
  BY StepProposals
<1> QED
  BY Typed, <1>1, PTL DEF Spec, ProposalsSurvive

=============================================================================
