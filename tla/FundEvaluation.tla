--------------------------- MODULE FundEvaluation ---------------------------
(***************************************************************************)
(* The evaluation of a decision (EvaluationPipeline.run in                 *)
(* src/src/fip/services/fund_service/pipeline.py): peer groups, factors,   *)
(* scores, rankings, tiers and the universe, in one database transaction.  *)
(* Several callers run it, for the same decision or for another decision   *)
(* of the same day, while the data underneath change: a revision that is   *)
(* published late with an early availability, and the classification and   *)
(* grouping of a fund.                                                     *)
(*                                                                         *)
(* Every row of a decision's group is part of one record of stored, which  *)
(* is why the stages of a transaction work on a draft of such records.     *)
(***************************************************************************)
EXTENDS PeerScoring

CONSTANTS
  Funds,        \* share classes
  Groups,       \* classification code and currency, the key of a peer group
  Decisions,    \* decisions of one day, under one policy version
  Callers,
  Data,         \* what a revision may say of a fund
  RequireBoth,  \* require_both_segments of the validation policy
  Evidence,     \* what may be known of the effectiveness of the factors
  MaxChanges    \* bound: changes of the data

\* What the series of rank correlations of a segment shows: too few cross
\* sections, one of the tests failed, or none.
Series == {"SHORT", "FAILED", "SOUND"}

\* The tracking error and the ratio follow from one regression: without a
\* tracking error there is no ratio, and none with a tracking error of zero.
ASSUME EvaluationAssumption ==
  /\ Funds \subseteq Nat /\ IsFiniteSet(Funds) /\ None \notin Groups
  /\ \A r \in Data :
       /\ r \in [te : Nat \cup {None}, ratio : Int \cup {None}, expense : Nat \cup {None}]
       /\ r.te \in {None, 0} => r.ratio = None
       /\ r.te \notin {None, 0} => r.ratio # None
  /\ RequireBoth \in BOOLEAN
  /\ Evidence \subseteq [FactorMetrics -> [full: Series, recent: Series]]
  /\ MaxChanges \in Nat

VARIABLES
  data,      \* what a read sees of each fund
  group,     \* the group of each fund; None: excluded
  evidence,  \* what is known of the factors
  changes,   \* how often these have changed
  stored,    \* committed rows of each decision and group
  pc,        \* where each caller is
  task,      \* the decision it evaluates
  draft      \* the rows of its transaction, by group

vars == <<data, group, evidence, changes, stored, pc, task, draft>>
world == <<data, group, evidence, changes>>

Members(g) == {f \in Funds : group[f] = g}

\* The transaction of a caller is open and has inserted rows of its own.
Inserted(c) == pc[c] \in {"factors", "scores", "commit"}

\* Groups of its draft that no earlier transaction had stored.
Fresh(c) == {g \in DOMAIN draft[c] : stored[task[c]][g] = None}

-----------------------------------------------------------------------------
Init ==
  /\ data \in [Funds -> Data]
  /\ group \in [Funds -> Groups \cup {None}]
  /\ evidence \in Evidence
  /\ changes = 0
  /\ stored = [d \in Decisions |-> [g \in Groups |-> None]]
  /\ pc = [c \in Callers |-> "idle"]
  /\ task = [c \in Callers |-> None]
  /\ draft = [c \in Callers |-> <<>>]

\* The session ends: nothing of an open transaction is left.
Leave(c) ==
  /\ pc' = [pc EXCEPT ![c] = "idle"]
  /\ task' = [task EXCEPT ![c] = None]
  /\ draft' = [draft EXCEPT ![c] = <<>>]

\* A conflict, a unique index, a deadlock, a lost connection: all is rolled back.
Fail(c) ==
  /\ pc[c] # "idle"
  /\ Leave(c)
  /\ UNCHANGED <<world, stored>>

-----------------------------------------------------------------------------
(* PeerGroupStage.run                                                      *)

\* The members a group of the decision has: those of its snapshot if there is
\* one, whatever the draft says, and otherwise those of the draft.
Snapshot(d, g) ==
  IF stored[d][g] = None THEN Members(g) ELSE stored[d][g].members

\* A snapshot of another size is refused (of another membership it is not).
SizesAgree(d, gs) ==
  \A g \in gs : stored[d][g] # None =>
    Cardinality(stored[d][g].members) = Cardinality(Members(g))

\* The transaction begins; the groups are built and their snapshots looked up.
Begin(c, d) ==
  /\ pc[c] = "idle"
  /\ LET gs == {g \in Groups : Members(g) # {}} IN
       /\ SizesAgree(d, gs)
       /\ draft' = [draft EXCEPT ![c] =
                      [g \in gs |-> [members |-> Snapshot(d, g),
                                     new |-> stored[d][g] = None]]]
  /\ task' = [task EXCEPT ![c] = d]
  /\ pc' = [pc EXCEPT ![c] = "insert"]
  /\ UNCHANGED <<world, stored>>

\* New snapshots are inserted.  uq_peer_group_snapshot_decision_key makes the
\* insert wait for an open transaction with the same key; if that commits the
\* insert fails, and nothing catches the error (Fail).
InsertGroups(c) ==
  /\ pc[c] = "insert"
  /\ \A b \in Callers \ {c} :
       Inserted(b) /\ task[b] = task[c] => Fresh(b) \cap DOMAIN draft[c] = {}
  /\ \A g \in DOMAIN draft[c] : draft[c][g].new => stored[task[c]][g] = None
  /\ draft' = [draft EXCEPT ![c] =
                 [g \in DOMAIN @ |-> [members |-> @[g].members]]]
  /\ pc' = [pc EXCEPT ![c] = "factors"]
  /\ UNCHANGED <<world, stored, task>>

-----------------------------------------------------------------------------
(* FactorPipelineStage.run                                                 *)

\* The run that a fund's factor values of the day belong to: the key of
\* uq_factor_value_versioned names neither the decision nor the group.
Owners(f) ==
  {o \in Decisions \X Groups :
     LET r == stored[o[1]][o[2]] IN r # None /\ f \in r.members}

\* Mutant of ValuesAreFree: equal values of another run are taken for one's own.
ValuesAreFreeOrEqual(c, g, inputs) ==
  \A f \in DOMAIN inputs : \A o \in Owners(f) :
    stored[o[1]][o[2]].inputs[f] = inputs[f]

\* save_value: a stored value has to be of this run (and equal).
ValuesAreFree(c, g, inputs) ==
  \A f \in DOMAIN inputs : Owners(f) \subseteq {<<task[c], g>>}

\* save_run and save_value: the lineage and the numbers of an earlier run of
\* the decision have to be the same.
InputsAgree(c, g, inputs) ==
  stored[task[c]][g] # None => stored[task[c]][g].inputs = inputs

\* validate_effectiveness_series.
SeriesVerdict(series) ==
  CASE series = "SHORT" -> "VALIDATION_PENDING"
    [] series = "FAILED" -> "INVALID"
    [] series = "SOUND" -> "VALID"

\* validate_and_save_effectiveness_series: the last three years can take back
\* what the whole history shows, if the policy asks for both.  The expense ratio
\* is no factor and always valid.
Verdict(e) ==
  [m \in Metrics |->
     IF m \notin FactorMetrics THEN "VALID"
     ELSE IF RequireBoth /\ SeriesVerdict(e[m].full) = "VALID"
     THEN SeriesVerdict(e[m].recent) ELSE SeriesVerdict(e[m].full)]

\* What the detail of an effectiveness row holds.
Detail ==
  [m \in FactorMetrics |->
     [full |-> evidence[m].full,
      recent |-> IF RequireBoth THEN evidence[m].recent ELSE evidence[m].full]]

\* _save_effectiveness: verdict and detail have to be those of an earlier run.
EvidenceAgrees(c, g) ==
  stored[task[c]][g] # None => stored[task[c]][g].evidence = Detail

\* What the decision can see of a fund's net values, benchmark and rates.
Observed(f) == [te |-> data[f].te, ratio |-> data[f].ratio]

\* The factor values of a group.
Inputs(fs) == [f \in fs |-> Observed(f)]

\* Values and verdicts are computed from the data of this moment, and inserted:
\* values of a fund that another open transaction has inserted are waited for.
CalculateFactors(c) ==
  /\ pc[c] = "factors"
  /\ \A b \in Callers \ {c} : pc[b] \in {"scores", "commit"} =>
       \A g \in DOMAIN draft[c], h \in Fresh(b) :
         draft[c][g].members \cap draft[b][h].members = {}
  /\ LET inputs == [g \in DOMAIN draft[c] |-> Inputs(draft[c][g].members)]
     IN /\ \A g \in DOMAIN draft[c] : /\ InputsAgree(c, g, inputs[g])
                                      /\ ValuesAreFree(c, g, inputs[g])
                                      /\ EvidenceAgrees(c, g)
        /\ draft' = [draft EXCEPT ![c] =
             [g \in DOMAIN @ |-> [members |-> @[g].members, inputs |-> inputs[g],
                                  evidence |-> Detail]]]
  /\ pc' = [pc EXCEPT ![c] = "scores"]
  /\ UNCHANGED <<world, stored, task>>

-----------------------------------------------------------------------------
(* ScoringPipelineStage, RankingPipelineStage, TierPipelineStage and       *)
(* UniversePipelineStage: everything after the factors is a function of    *)
(* the stored values, the verdicts and the expense ratios.                 *)

Column(inputs, m) == [f \in DOMAIN inputs |-> inputs[f][m]]

\* The rows of a group in the tables of scores and attributions, rankings, tiers
\* and universes.
Rows(members, inputs, known, expense, ranks, tiers) ==
  [members |-> members, inputs |-> inputs, evidence |-> known,
   expense |-> expense, ranks |-> ranks, tiers |-> tiers,
   selected |-> Selected(tiers)]

Evaluated(members, inputs, known, expense) ==
  LET verdict == Verdict(known)
      values == ScoringValues(Column(inputs, "te"), Column(inputs, "ratio"), expense)
      ranks == Ranks([f \in members |-> Score(values, verdict, f)])
  IN Rows(members, inputs, known, expense, ranks, Tiers(ranks))

\* Each stage compares what it has computed with the rows r of an earlier run.

\* calculate_and_save: the scores and their attribution, with the expense ratios.
ScoresAgree(r, result) == result.expense = r.expense /\ result.inputs = r.inputs

RanksAgree(r, result) == result.ranks = r.ranks

TiersAgree(r, result) == result.tiers = r.tiers

UniverseAgrees(r, result) == result.selected = r.selected

\* Mutant of ResultAgrees: only the universe is compared.
ResultAgreesInPart(d, g, result) ==
  stored[d][g] # None => UniverseAgrees(stored[d][g], result)

ResultAgrees(d, g, result) ==
  stored[d][g] # None =>
    LET r == stored[d][g]
    IN /\ ScoresAgree(r, result) /\ RanksAgree(r, result)
       /\ TiersAgree(r, result) /\ UniverseAgrees(r, result)

\* Fees are read here, later than the data of the factors.
CalculateScores(c) ==
  /\ pc[c] = "scores"
  /\ LET result == [g \in DOMAIN draft[c] |->
           Evaluated(draft[c][g].members, draft[c][g].inputs, draft[c][g].evidence,
                     [f \in draft[c][g].members |-> data[f].expense])]
     IN /\ \A g \in DOMAIN draft[c] : ResultAgrees(task[c], g, result[g])
        /\ draft' = [draft EXCEPT ![c] = result]
  /\ pc' = [pc EXCEPT ![c] = "commit"]
  /\ UNCHANGED <<world, stored, task>>

\* session.begin() ends: the rows are committed, and returned.
Commit(c) ==
  /\ pc[c] = "commit"
  /\ stored' = [stored EXCEPT ![task[c]] =
       [g \in Groups |-> IF g \in DOMAIN draft[c] THEN draft[c][g] ELSE @[g]]]
  /\ Leave(c)
  /\ UNCHANGED world

-----------------------------------------------------------------------------
(* The data change underneath.                                             *)

Change == changes < MaxChanges /\ changes' = changes + 1

\* A revision that the decision can see, published after it.
Revise(f, r) ==
  /\ Change
  /\ r # data[f]
  /\ data' = [data EXCEPT ![f] = r]
  /\ UNCHANGED <<group, evidence, stored, pc, task, draft>>

\* A fund is reclassified, excluded, or its grouping confirmed.
Regroup(f, g) ==
  /\ Change
  /\ g # group[f]
  /\ group' = [group EXCEPT ![f] = g]
  /\ UNCHANGED <<data, evidence, stored, pc, task, draft>>

\* The provider of the evidence says something else of the factors.
Revalidate(e) ==
  /\ Change
  /\ e # evidence
  /\ evidence' = e
  /\ UNCHANGED <<data, group, stored, pc, task, draft>>

Run(c) ==
  \/ \E d \in Decisions : Begin(c, d)
  \/ InsertGroups(c) \/ CalculateFactors(c) \/ CalculateScores(c)
  \/ Commit(c) \/ Fail(c)

Next ==
  \/ \E c \in Callers : Run(c)
  \/ \E f \in Funds, r \in Data : Revise(f, r)
  \/ \E f \in Funds, g \in Groups \cup {None} : Regroup(f, g)
  \/ \E e \in Evidence : Revalidate(e)

Spec == Init /\ [][Next]_vars

-----------------------------------------------------------------------------
Stored == {r \in {stored[d][g] : d \in Decisions, g \in Groups} : r # None}

\* A fund is evaluated in one group by one decision of a day: a second decision
\* that shares a fund with the first, and a fund that has changed its group
\* between two runs of a decision, must not add values to those of the day
\* (FactorRepository.save_value).
OneEvaluationPerFund == \A f \in Funds : Cardinality(Owners(f)) <= 1

\* What the rule of the profile goes by, more being better: the tracking error
\* that it keeps low, or what it makes of the tracking error and the ratio.
Preference(te, ratio) ==
  IF Profile \notin {"passive_equity", "bond"} THEN Composite(te, ratio)
  ELSE IF te = None THEN None ELSE -te

\* f is at least as good as h: it is not dearer, its ratio is no smaller, and
\* the rule of the profile, which has a value for both, prefers its tracking
\* error or treats both alike.
AtLeastAsGood(r, f, h) ==
  LET a == r.inputs[f]
      b == r.inputs[h]
      known == Interactions(Column(r.inputs, "te"), Column(r.inputs, "ratio"))
  IN /\ None \notin {known[f], known[h], r.expense[f], r.expense[h]}
     /\ r.expense[f] <= r.expense[h]
     /\ \/ a.te = b.te /\ a.ratio = b.ratio
        \/ /\ None \notin {Preference(a.te, a.ratio), Preference(b.te, b.ratio),
                           a.ratio, b.ratio}
           /\ Preference(a.te, a.ratio) >= Preference(b.te, b.ratio)
           /\ a.ratio >= b.ratio

\* The tiers from the best to the last.
BestFirst == <<"A", "B", "C", "D">>

\* The universe admits whatever is better than a tier that it admits, as a policy
\* would have it; the code takes any set of tiers.
AdmitsTheBest ==
  \A i \in 1..4 : \A j \in 1..i : BestFirst[i] \in EligibleTiers => BestFirst[j] \in EligibleTiers

\* A fund that is at least as good as another of its group is not ranked behind
\* it, and is selected if the other is: through normalisation, the weights of
\* what is available, average ranks, tiers and the universe.
BetterIsNotWorse ==
  \A r \in Stored : \A f, h \in r.members :
    AtLeastAsGood(r, f, h) =>
      /\ r.ranks[h] # None => r.ranks[f] # None /\ r.ranks[f] <= r.ranks[h]
      /\ AdmitsTheBest /\ h \in r.selected => f \in r.selected

\* What a decision has stored of a group stays what it was: whoever runs it
\* again, over whatever data, is given the same rows or refused
\* (the conflicts of repositories.py, validation.py, scoring.py and ranking.py).
StoredIsKept ==
  [][\A d \in Decisions, g \in Groups :
       stored[d][g] # None => stored'[d][g] = stored[d][g]]_vars

=============================================================================
