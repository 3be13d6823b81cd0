------------------------ MODULE ClassificationReview ------------------------
(***************************************************************************)
(* The classification of one fund product: versioned revisions that jobs   *)
(* refresh from collected observations and that people review              *)
(* (data_service/classification/service.py, jobs/fund_classification.py,   *)
(* routers/classifications.py).                                            *)
(*                                                                         *)
(* Every write holds the product's row FOR UPDATE until its transaction    *)
(* commits, so that one write is one action; a job has read the clock and  *)
(* its sources before, and a person has read the case.  Days are both the  *)
(* clock and the axis of the business intervals.  The dimensions and tags  *)
(* of a snapshot are one result: a proposal has a case for each that       *)
(* differs, all with its dates, and a review decides them together.        *)
(***************************************************************************)
EXTENDS Naturals, Sequences, FiniteSets

CONSTANTS
  Sources,    \* stable observation identities (provider, dataset, field...)
  Values,     \* classification values, also what a source may report
  Classify,   \* rules.classify: the result of what each source reports
  Workers,    \* worker processes refreshing this product
  Reviewers,  \* people reviewing it
  LastDay,    \* bound: the clock
  MaxRevs,    \* bound: revisions
  MaxProposals,  \* bound: proposals
  None        \* nothing

VARIABLES
  now,        \* today
  revs,       \* fund_classification_revision by version, with its history rows
  cases,      \* fund_classification_review_case: the set of its rows
  proposed,   \* proposals so far, which numbers them in the order of their ids
  job,        \* what a worker has collected, when, and the snapshot it saw in force
  opened      \* the case a reviewer is looking at

vars == <<now, revs, cases, proposed, job, opened>>

Days == 0 .. LastDay
Obs == [Sources -> Values \cup {None}]
Results == Values \cup {"UNKNOWN", "CONFLICT"}

ASSUME ClassifyAssumption ==
  /\ Classify \in [Obs -> Results]
  /\ None \notin Values
  /\ Values \cap {"UNKNOWN", "CONFLICT"} = {}

\* What is in force on a day: the observations, the result, and the version whose
\* review decided it (0: the rules did).
Snapshot == [obs: Obs, result: Results, manual: 0..MaxRevs]
Content == [Days -> {None} \cup Snapshot]

ASSUME BoundsAssumption == LastDay \in Nat /\ MaxRevs \in Nat
ASSUME NoneAssumption == None \notin Snapshot

Latest == revs[Len(revs)]
Nobody == [d \in Days |-> None]
ReviewedNow == IF revs = <<>> THEN FALSE ELSE Latest.reviewed
Current == IF revs = <<>> THEN Nobody ELSE Latest.content

\* Days on which an interval of a revision begins.
Starts(content) ==
  {d \in Days : content[d] # None /\ (d = 0 \/ content[d - 1] # content[d])}

\* The last day of the interval that holds day d.
EndOf(content, d) ==
  CHOOSE e \in Days : /\ e >= d
                      /\ \A i \in d..e : content[i] = content[d]
                      /\ e = LastDay \/ content[e + 1] # content[d]

Init ==
  /\ now = 0
  /\ revs = <<>>
  /\ cases = {}
  /\ proposed = 0
  /\ job = [w \in Workers |-> None]
  /\ opened = [r \in Reviewers |-> None]

Tomorrow ==
  /\ now < LastDay
  /\ now' = now + 1
  /\ UNCHANGED <<revs, cases, proposed, job, opened>>

-----------------------------------------------------------------------------
(* Cases.                                                                  *)

\* A case for each interval whose result is not confirmed.
StatusCases(version, content) ==
  {[kind |-> "STATUS", rev |-> version, from |-> d, proposal |-> content[d],
    whole |-> Nobody, order |-> 0, status |-> "PENDING"] :
     d \in {e \in Starts(content) : content[e].result \notin Values}}

\* NEW_EVIDENCE_AFTER_REVIEW: what the rules propose from day d on.  "whole" is
\* what the digest in its issue key is taken of.
Proposal(content, d) ==
  [kind |-> "REFRESH", rev |-> Len(revs), from |-> d, proposal |-> content[d],
   whole |-> content, order |-> proposed + 1, status |-> "PENDING"]

\* The latest revision has had a case under this one's issue key.
Proposed(case) ==
  \E c \in cases : /\ c.kind = "REFRESH" /\ c.rev = case.rev
                   /\ c.from = case.from /\ c.whole = case.whole

IsPending(c) == c.status = "PENDING"
Pending == {c \in cases : IsPending(c)}
Undecided == {c \in Pending : c.kind = "REFRESH"}

\* Mutant of Rebase: the cases of the old revision stay as they are.
RebaseNothing(version, content, decided) == cases \cup StatusCases(version, content)

\* Mutant of Rebase: undecided proposals go with the old revision.
RebaseDropping(version, content, decided) ==
  (cases \ Pending)
    \cup {[c EXCEPT !.status = IF c.from = decided THEN "RESOLVED" ELSE "SUPERSEDED"] :
            c \in Pending}
    \cup StatusCases(version, content)

\* The cases after a new revision.  What was pending is superseded; proposals are
\* carried over, those of the day that a review decides as resolved; and each
\* interval without a confirmed result has a case.
Rebase(version, content, decided) ==
  (cases \ Pending)
    \cup {[c EXCEPT !.status = "SUPERSEDED"] : c \in Pending}
    \cup {[c EXCEPT !.rev = version,
                    !.status = IF c.from = decided THEN "RESOLVED" ELSE "PENDING"] :
            c \in Undecided}
    \cup StatusCases(version, content)

-----------------------------------------------------------------------------
(* Refresh: fund_classification._refresh_fund, ClassificationService.refresh.*)

\* A job begins: it reads the clock and, without a lock, the snapshot in force,
\* and collects what its sources report; a source that fails reports nothing.
Collect(w, report) ==
  /\ job[w] = None
  /\ job' = [job EXCEPT ![w] = [at |-> now, report |-> report, base |-> Current[now]]]
  /\ UNCHANGED <<now, revs, cases, proposed, opened>>

\* Pending proposals of the latest revision that cover the day.
Proposals(d) == {c \in Undecided : c.rev = Len(revs) /\ c.from <= d}

\* The observations a refresh starts from: those in force that day, overlaid by
\* those of the pending proposals in the order of their ids.
Retained(d) ==
  [s \in Sources |->
     LET tells == {c \in Proposals(d) : c.proposal.obs[s] # None}
     IN  IF tells # {}
         THEN (CHOOSE c \in tells : \A b \in tells : b.order <= c.order).proposal.obs[s]
         ELSE IF Current[d] = None THEN None ELSE Current[d].obs[s]]

Overlay(old, new) == [s \in Sources |-> IF new[s] = None THEN old[s] ELSE new[s]]

Classified(obs) == [obs |-> obs, result |-> Classify[obs], manual |-> 0]

\* preview_classification: what was in force at the start says the same already.
NoChange(w) ==
  /\ job[w].base # None
  /\ Classified(Overlay(job[w].base.obs, job[w].report)) = job[w].base

\* No interval rests on a decision taken after the day the revision would bear.
VisibleBy(content, day) ==
  \A d \in Days : content[d] # None /\ content[d].manual # 0 =>
                   revs[content[d].manual].at <= day

\* write: the snapshot from a day on, over what the product had.
From(d, snapshot) == [e \in Days |-> IF e < d THEN Current[e] ELSE snapshot]

Revision(content, reviewed, at, base) ==
  [content |-> content, reviewed |-> reviewed, at |-> at, base |-> base]

\* Mutant of Refresh: a reviewed revision is refreshed like any other.
RefreshReviewed(w) ==
  /\ job[w] # None
  /\ LET content == From(job[w].at,
                         Classified(Overlay(Retained(job[w].at), job[w].report)))
         version == Len(revs) + 1
     IN  IF NoChange(w) \/ content = Current THEN UNCHANGED <<revs, cases>>
         ELSE /\ version <= MaxRevs
              /\ revs' = Append(revs, Revision(content, FALSE, job[w].at, 0))
              /\ cases' = Rebase(version, content, None)
  /\ job' = [job EXCEPT ![w] = None]
  /\ UNCHANGED <<now, proposed, opened>>

\* Unless its preview showed no change: under the product's lock, classify, write
\* from the job's day on, commit.  A content that is in force is left alone; a
\* reviewed revision gets a proposal, once under its key and only if an interval
\* with another snapshot begins that day; any other is followed by a new revision.
Refresh(w) ==
  /\ job[w] # None
  /\ LET d == job[w].at
         content == From(d, Classified(Overlay(Retained(d), job[w].report)))
         version == Len(revs) + 1
         case == Proposal(content, d)
     IN  \/ /\ NoChange(w) \/ content = Current
            /\ UNCHANGED <<revs, cases, proposed>>
         \/ /\ ~NoChange(w) /\ content # Current
            /\ ReviewedNow
            /\ VisibleBy(content, d)
            /\ UNCHANGED revs
            /\ IF content[d] = Current[d] \/ d \notin Starts(content) \/ Proposed(case)
               THEN UNCHANGED <<cases, proposed>>
               ELSE /\ proposed < MaxProposals
                    /\ proposed' = proposed + 1
                    /\ cases' = cases \cup {case}
         \/ /\ ~NoChange(w) /\ content # Current
            /\ ~ReviewedNow
            /\ VisibleBy(content, d)
            /\ version <= MaxRevs
            /\ revs' = Append(revs, Revision(content, FALSE, d, 0))
            /\ cases' = Rebase(version, content, None)
            /\ UNCHANGED proposed
  /\ job' = [job EXCEPT ![w] = None]
  /\ UNCHANGED <<now, opened>>

\* The job fails or its worker dies: its transaction is rolled back.
Fail(w) ==
  /\ job[w] # None
  /\ job' = [job EXCEPT ![w] = None]
  /\ UNCHANGED <<now, revs, cases, proposed, opened>>

-----------------------------------------------------------------------------
(* Review.                                                                 *)

\* A reviewer loads a case, which names the revision to decide on.
Open(r, c) ==
  /\ opened[r] = None
  /\ opened' = [opened EXCEPT ![r] = c]
  /\ UNCHANGED <<now, revs, cases, proposed, job>>

\* The days a review of the case decides.
Decides(c) ==
  IF c.kind = "REFRESH" THEN c.from .. LastDay ELSE c.from .. EndOf(Current, c.from)

\* Mutant of Fresh: whatever the case says now is decided on.
FreshAnyway(r) == \E c \in cases : c.kind = opened[r].kind /\ c.from = opened[r].from

\* The revision the reviewer saw is the latest, and the case undecided.
Fresh(r) == opened[r].rev = Len(revs) /\ opened[r] \in cases

\* The decided value, on the observations of the proposal.
Decided(c, value) ==
  [obs |-> c.proposal.obs, result |-> value, manual |-> Len(revs) + 1]

\* ClassificationService.review and _review: one transaction writes the reviewed
\* revision, carries the other proposals over to it and resolves the case.
Review(r, value) ==
  /\ opened[r] # None
  /\ Fresh(r)
  /\ LET c == opened[r]
         version == Len(revs) + 1
         content == [d \in Days |-> IF d \in Decides(c) THEN Decided(c, value)
                                    ELSE Current[d]]
         settled == [c EXCEPT !.status = "RESOLVED"]
     IN  /\ version <= MaxRevs
         /\ revs' = Append(revs, Revision(content, TRUE, now, c.rev))
         /\ cases' = (Rebase(version, content, c.from)
                        \ {[c EXCEPT !.status = "SUPERSEDED"]}) \cup {settled}
  /\ opened' = [opened EXCEPT ![r] = None]
  /\ UNCHANGED <<now, proposed, job>>

\* 409: reload before reviewing.  Also a reviewer who leaves.
Leave(r) ==
  /\ opened[r] # None
  /\ opened' = [opened EXCEPT ![r] = None]
  /\ UNCHANGED <<now, revs, cases, proposed, job>>

-----------------------------------------------------------------------------
Next ==
  \/ Tomorrow
  \/ \E w \in Workers : (\E report \in Obs : Collect(w, report)) \/ Refresh(w) \/ Fail(w)
  \/ \E r \in Reviewers :
       \/ \E c \in Pending : Open(r, c)
       \/ \E v \in Values \cup {"UNKNOWN"} : Review(r, v)
       \/ Leave(r)

Spec == Init /\ [][Next]_vars

-----------------------------------------------------------------------------
(* Properties.                                                             *)

\* What people decided is published until people decide again: no job replaces a
\* reviewed revision, whatever it collected and whenever it began.
ReviewStands ==
  [][revs' # revs /\ ReviewedNow => revs'[Len(revs')].reviewed]_vars

\* Nobody's decision is lost to a decision taken on an older page: a reviewed
\* revision follows the very revision its reviewer looked at.
DecidedOnLatest ==
  \A v \in 1..Len(revs) : revs[v].reviewed => revs[v].base = v - 1

\* The review queue is exact: what is pending belongs to the latest revision, and
\* every interval of it without a confirmed result is in the queue.
QueueIsExact ==
  /\ \A c \in Pending : c.rev = Len(revs)
  /\ {c.from : c \in {b \in Pending : b.kind = "STATUS"}}
       = {d \in Starts(Current) : Current[d].result \notin Values}

\* A proposal leaves the queue only by a review that decides its first day; other
\* reviews carry it over to the revision they write.
ProposalsSurvive ==
  [][\A c \in Undecided :
       \/ \E b \in Undecided' : b.order = c.order
       \/ /\ revs'[Len(revs')].content[c.from] # None
          /\ revs'[Len(revs')].content[c.from].manual = Len(revs')]_vars

=============================================================================
