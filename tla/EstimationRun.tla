---------------------------- MODULE EstimationRun ----------------------------
(***************************************************************************)
(* A return and risk estimation of a decision, and the three transactions  *)
(* that a caller runs it in: the first marks the run as RUNNING, the       *)
(* second reads the inputs, estimates both return bases and stores the     *)
(* outcome, and a third stores FAILED when the second is rolled back.      *)
(* Several callers may ask for the same run, again and at the same time,   *)
(* while the data that it reads changes under them.                        *)
(*                                                                         *)
(* The data is here what the reading of it makes of it: whether it raises  *)
(* (values that cannot be adjusted), and the input of each basis, see      *)
(* Input.  A fingerprint is the lineage that it is the checksum of.        *)
(***************************************************************************)
EXTENDS EstimationInputs

CONSTANTS
    Callers,
    Runs,               \* identities: a decision, a universe and the versions
    Setting,            \* per caller: its mode, its policy and what it allows
    Worlds,             \* data that can be visible to the decision
    Factors,            \* factor values that a cross-check may find
    Comparable, Close,  \* those with the sample's lineage; those in tolerance
    MinMembers,         \* funds that the return estimator needs
    ValidationMinTOverN, WarningTOverN,
    MaxCrashes

Numbers == {"fine", "ill", "singular", "broken", "degenerate"}
Modes == {"LIVE", "BACKTEST"}
Final == {"COMPLETED", "COMPLETED_WITH_WARNING", "REJECTED"}
Status == Final \cup {"RUNNING", "FAILED"}

ASSUME RunAssumption ==
    /\ None \notin Status
    /\ Comparable \subseteq Factors /\ Close \subseteq Factors
    /\ {MinMembers, ValidationMinTOverN, WarningTOverN, MaxCrashes} \subseteq Nat
    /\ \A c \in Callers : /\ Setting[c].mode \in Modes
                           /\ {Setting[c].provisional, Setting[c].allows} \subseteq BOOLEAN
                           /\ Setting[c].policy # None
(* The sample, and what the estimators make of it, follow from what is read.*)
ASSUME NumbersAssumption ==
    \A v, w \in Worlds : \A b \in Bases :
        v.inputs[b].lineage = w.inputs[b].lineage => v.inputs[b] = w.inputs[b]

VARIABLES
    policy,     \* the content that is stored for the policy's version
    run,        \* estimation_run: the row of each run, or Absent
    results,    \* the rows of the four tables of results, of each run
    tx,         \* what each caller is doing
    world, factors,     \* data: what is visible, what factor runs stored
    answers,    \* final results that callers were given
    stranded,   \* runs whose caller died
    crashes

vars == <<policy, run, results, tx, world, factors, answers, stranded, crashes>>

Idle == [step |-> "idle"]
Row(status) == [status |-> status, approved |-> FALSE, fingerprint |-> None]
Absent == Row(None)
Running == Row("RUNNING")
Failed == Row("FAILED")

Init ==
    /\ policy = None
    /\ run = [i \in Runs |-> Absent]
    /\ results = [i \in Runs |-> {}]
    /\ tx = [c \in Callers |-> Idle]
    /\ world \in Worlds
    /\ factors = [s \in Shares |-> {}]
    /\ answers = {}
    /\ stranded = {}
    /\ crashes = 0

IsIn(i, statuses) == run[i].status \in statuses

-----------------------------------------------------------------------------
(* The outcome of one basis *)

Result(code, severity, passed) ==
    [code |-> code, severity |-> severity, status |-> IF passed THEN "PASSED" ELSE "FAILED"]

(* With one comparable factor value per fund, risk is checked against it.  *)
FactorCheck(seen) ==
    CASE Cardinality(seen \cap Comparable) # 1 -> Result("NOT_COMPARABLE", "WARNING", FALSE)
      [] OTHER -> Result("FACTOR_RISK_CROSS_CHECK", "REJECT", seen \cap Comparable \subseteq Close)

(* A fund that is off rejects, then one that is not comparable warns.      *)
FactorResult(members, seen) ==
    LET checks == {FactorCheck(seen[s]) : s \in members}
        off == {k \in checks : k.severity = "REJECT" /\ k.status = "FAILED"}
        incomparable == {k \in checks : k.severity = "WARNING"}
    IN  IF off # {} THEN off
        ELSE IF incomparable # {} THEN incomparable
        ELSE {Result("FACTOR_RISK_CROSS_CHECK", "REJECT", TRUE)}

ConditionResult(number) ==
    CASE number = "singular" -> Result("CONDITION_NUMBER", "REJECT", FALSE)
      [] number = "ill" -> Result("CONDITION_NUMBER", "WARNING", FALSE)
      [] OTHER -> Result("CONDITION_NUMBER", "REJECT", TRUE)

(* The matrix checks other than the condition number are one result here.  *)
Validations(sample, number, seen) ==
    LET t == Cardinality(sample.dates)
        n == Cardinality(sample.members)
    IN  {Result("MIN_T_OVER_N", "REJECT", t >= ValidationMinTOverN * n),
         Result("WARNING_T_OVER_N", "WARNING",
                ~(ValidationMinTOverN * n <= t /\ t < WarningTOverN * n)),
         Result("SIGMA_NOT_PSD", "REJECT", number # "broken"),
         ConditionResult(number)}
        \cup FactorResult(sample.members, seen)
        \cup (IF sample.warned THEN {Result("BENCHMARK_MAPPING_SWITCH", "WARNING", FALSE)} ELSE {})

(* Provisional parameters are for backtests that say so. *)
RuntimeEligibility(c) ==
    Result("RUNTIME_ELIGIBILITY", "REJECT",
           \/ ~Setting[c].provisional
           \/ Setting[c].mode = "BACKTEST" /\ Setting[c].allows)

(* What is read for a basis: its sample, what there is to tell about it,   *)
(* and what the estimators will make of it.                                *)
Input(data, basis, number) ==
    [sample |-> Basis(data, basis),
     lineage |-> IF basis = "ABSOLUTE" THEN data.nav ELSE data,
     number |-> number]

\* Mutant of Lineage: the factor values that were looked at are left out.
LineageWithoutFactors(c, input, seen) ==
    [input |-> input.lineage, factors |-> <<>>, runtime |-> Setting[c]]

(* All that an outcome depends on, but for what the run's identity fixes.  *)
Lineage(c, input, seen) ==
    [input |-> input.lineage,
     factors |-> [s \in input.sample.members |-> seen[s]],
     runtime |-> Setting[c]]

(* An input that is too small, or that the estimators refuse, rejects the  *)
(* basis; otherwise its estimates are stored with their validations.       *)
Outcome(c, input, seen) ==
    LET sample == input.sample
        estimated == /\ sample.available
                     /\ Cardinality(sample.members) >= MinMembers
                     /\ Cardinality(sample.dates) >= 2
                     /\ input.number # "degenerate"
    IN  [estimated |-> estimated,
         members |-> IF estimated THEN sample.members ELSE {},
         validations |-> {RuntimeEligibility(c)} \cup
                         (IF estimated THEN Validations(sample, input.number, seen) ELSE {}),
         lineage |-> Lineage(c, input, seen)]

Outcomes(c, inputs, seen) == [basis \in Bases |-> Outcome(c, inputs[basis], seen)]
Fingerprint(outcomes) == [basis \in Bases |-> outcomes[basis].lineage]

Rejects(validations) == \E v \in validations : v.severity = "REJECT" /\ v.status = "FAILED"
Fails(validations) == \E v \in validations : v.status = "FAILED"

BasisStatus(outcome) ==
    CASE ~outcome.estimated \/ Rejects(outcome.validations) -> "REJECTED"
      [] OTHER -> IF Fails(outcome.validations) THEN "COMPLETED_WITH_WARNING" ELSE "COMPLETED"
BasisStatuses(outcomes) == [basis \in Bases |-> BasisStatus(outcomes[basis])]

(* The run is rejected if its ABSOLUTE basis is; an EXCESS basis that is   *)
(* rejected only warns.                                                    *)
DeriveOutcome(outcomes) ==
    LET absolute == outcomes["ABSOLUTE"]
        excess == outcomes["EXCESS"]
    IN  IF ~absolute.estimated \/ Rejects(absolute.validations) THEN "REJECTED"
        ELSE IF \/ \E b \in Bases : outcomes[b].estimated /\ Fails(outcomes[b].validations)
                \/ ~excess.estimated
             THEN "COMPLETED_WITH_WARNING"
        ELSE "COMPLETED"

(* No code may appear twice among the validations of a basis.              *)
IsSound(outcome) ==
    \A v, w \in outcome.validations : v.code = w.code => v = w

-----------------------------------------------------------------------------
(* The rows of a run's results *)

EstimateRows(basis, outcome) ==
    [table : {"return", "risk"}, basis : {basis}, share : outcome.members]
    \cup {[table |-> "covariance", basis |-> basis, members |-> outcome.members,
           lineage |-> outcome.lineage]}
RejectionRows(basis, outcome) ==
    {[table |-> "rejection", basis |-> basis, lineage |-> outcome.lineage]}
ValidationRows(basis, outcome) ==
    {[table |-> "validation", basis |-> basis, result |-> v] : v \in outcome.validations}

\* Mutant of ResultRows: the estimates of a basis that failed are not kept.
ResultRowsOfPassed(outcomes) ==
    UNION {(IF outcomes[b].estimated
            THEN IF Rejects(outcomes[b].validations) THEN {} ELSE EstimateRows(b, outcomes[b])
            ELSE RejectionRows(b, outcomes[b])) \cup ValidationRows(b, outcomes[b]) : b \in Bases}
ResultRows(outcomes) ==
    UNION {(IF outcomes[b].estimated THEN EstimateRows(b, outcomes[b])
            ELSE RejectionRows(b, outcomes[b])) \cup ValidationRows(b, outcomes[b]) : b \in Bases}

(* What the provider makes of a run: its ABSOLUTE package, or None.        *)
Load(i) ==
    LET covariances == {r \in results[i] : r.table = "covariance"}
        outcomes == covariances \cup {r \in results[i] : r.table = "rejection"}
        absolute == {r \in covariances : r.basis = "ABSOLUTE"}
        SharesIn(table) == {r.share : r \in {x \in results[i] :
                                x.table = table /\ x.basis = "ABSOLUTE"}}
    IN  IF /\ IsIn(i, {"COMPLETED", "COMPLETED_WITH_WARNING"}) /\ run[i].approved
           /\ \A r, q \in outcomes : r.basis = q.basis => r = q
           /\ run[i].fingerprint =
                [b \in {r.basis : r \in outcomes} |->
                    (CHOOSE r \in outcomes : r.basis = b).lineage]
           /\ Cardinality(absolute) = 1
           /\ \A r \in absolute : r.members = SharesIn("return") /\ r.members = SharesIn("risk")
        THEN SharesIn("return") ELSE None

-----------------------------------------------------------------------------
(* The transactions of a caller *)

\* Mutant of CanStart: a run that is still RUNNING is taken up again.
CanStartRunning(i, retry) == IsIn(i, {None}) \/ (retry /\ IsIn(i, {"FAILED", "RUNNING"}))
(* The caller that makes the row executes the run; a FAILED one has to be  *)
(* asked for again explicitly.                                             *)
CanStart(i, retry) == IsIn(i, {None}) \/ (retry /\ IsIn(i, {"FAILED"}) /\ results[i] = {})

(* A policy that has provisional parameters is not even loaded for LIVE.   *)
Loads(c) == ~(Setting[c].mode = "LIVE" /\ Setting[c].provisional)
(* The policy's version is stored once; other content is refused.          *)
PersistPolicy(c) ==
    /\ Loads(c)
    /\ policy = None
    /\ policy' = Setting[c].policy
    /\ UNCHANGED <<run, results, tx, world, factors, answers, stranded, crashes>>
Configured(c) == Loads(c) /\ policy = Setting[c].policy

(* Transaction A.  Of two callers that make the row, the second waits for  *)
(* the unique key and then finds the row of the first.                     *)
Start(c, i, retry) ==
    /\ tx[c].step = "idle" /\ Configured(c)
    /\ CanStart(i, retry)
    /\ run' = [run EXCEPT ![i] = Running]
    /\ tx' = [tx EXCEPT ![c] = [step |-> "reading", id |-> i, executes |-> TRUE]]
    /\ UNCHANGED <<policy, results, world, factors, answers, stranded, crashes>>

(* A run that is final is computed again, to be compared.                  *)
Reproduce(c, i) ==
    /\ tx[c].step = "idle" /\ Configured(c)
    /\ IsIn(i, Final)
    /\ tx' = [tx EXCEPT ![c] = [step |-> "reading", id |-> i, executes |-> FALSE]]
    /\ UNCHANGED <<policy, run, results, world, factors, answers, stranded, crashes>>

(* Transaction B begins: the inputs are read. *)
Read(c) ==
    /\ tx[c].step = "reading"
    /\ ~world.raises
    /\ tx' = [tx EXCEPT ![c] = [step |-> "estimating", id |-> tx[c].id,
                                executes |-> tx[c].executes,
                                inputs |-> world.inputs]]
    /\ UNCHANGED <<policy, run, results, world, factors, answers, stranded, crashes>>

\* Mutant of Raise: the failure is only reported.
RaiseOnly(c) == tx' = [tx EXCEPT ![c] = Idle]
Raise(c) ==
    tx' = [tx EXCEPT ![c] = IF tx[c].executes
                            THEN [step |-> "failing", id |-> tx[c].id, executes |-> TRUE]
                            ELSE Idle]

Answer(i, status, outcomes) ==
    [id |-> i, status |-> status, fingerprint |-> Fingerprint(outcomes),
     bases |-> BasisStatuses(outcomes)]

\* Mutant of Complete: the state of the run is not looked at.
CompleteAgain(c) ==
    LET i == tx[c].id
        outcomes == Outcomes(c, tx[c].inputs, factors)
        status == DeriveOutcome(outcomes)
    IN  /\ tx[c].step = "estimating"
        /\ run' = [run EXCEPT ![i] = [status |-> status, approved |-> status # "REJECTED",
                                      fingerprint |-> Fingerprint(outcomes)]]
        /\ results' = [results EXCEPT ![i] = @ \cup ResultRows(outcomes)]
        /\ answers' = answers \cup {Answer(i, status, outcomes)}
        /\ tx' = [tx EXCEPT ![c] = Idle]
        /\ UNCHANGED <<policy, world, factors, stranded, crashes>>

(* It ends: the factor values are read, and the outcome is stored or       *)
(* compared with the one that is, all in one commit.                       *)
Complete(c) ==
    LET i == tx[c].id
        outcomes == Outcomes(c, tx[c].inputs, factors)
        status == DeriveOutcome(outcomes)
    IN  /\ tx[c].step = "estimating"
        /\ \A b \in Bases : IsSound(outcomes[b])
        /\ IsIn(i, {"RUNNING"})
        /\ run' = [run EXCEPT ![i] = [status |-> status, approved |-> status # "REJECTED",
                                      fingerprint |-> Fingerprint(outcomes)]]
        /\ results' = [results EXCEPT ![i] = @ \cup ResultRows(outcomes)]
        /\ answers' = answers \cup {Answer(i, status, outcomes)}
        /\ tx' = [tx EXCEPT ![c] = Idle]
        /\ UNCHANGED <<policy, world, factors, stranded, crashes>>

Confirm(c) ==
    LET i == tx[c].id
        outcomes == Outcomes(c, tx[c].inputs, factors)
    IN  /\ tx[c].step = "estimating"
        /\ \A b \in Bases : IsSound(outcomes[b])
        /\ IsIn(i, Final)
        /\ run[i].fingerprint = Fingerprint(outcomes)
        /\ answers' = answers \cup {Answer(i, run[i].status, outcomes)}
        /\ tx' = [tx EXCEPT ![c] = Idle]
        /\ UNCHANGED <<policy, run, results, world, factors, stranded, crashes>>

(* The transaction is rolled back: the inputs cannot be read, the run has  *)
(* another lineage or is in another state, or anything else goes wrong.    *)
Abort(c) ==
    /\ tx[c].step \in {"reading", "estimating"}
    /\ Raise(c)
    /\ UNCHANGED <<policy, run, results, world, factors, answers, stranded, crashes>>

(* Transaction C; it raises when the run is not RUNNING or has results.    *)
Fail(c) ==
    /\ tx[c].step = "failing"
    /\ run' = IF IsIn(tx[c].id, {"RUNNING"}) /\ results[tx[c].id] = {}
              THEN [run EXCEPT ![tx[c].id] = Failed] ELSE run
    /\ tx' = [tx EXCEPT ![c] = Idle]
    /\ UNCHANGED <<policy, results, world, factors, answers, stranded, crashes>>

(* A caller dies, or loses its database, in the middle.                    *)
Crash(c) ==
    /\ crashes < MaxCrashes
    /\ tx[c].step # "idle"
    /\ crashes' = crashes + 1
    /\ stranded' = IF tx[c].executes THEN stranded \cup {tx[c].id} ELSE stranded
    /\ tx' = [tx EXCEPT ![c] = Idle]
    /\ UNCHANGED <<policy, run, results, world, factors, answers>>

(* Data arrives that is visible to the decision, although it is past. *)
Publish ==
    /\ world' \in Worlds \ {world}
    /\ UNCHANGED <<policy, run, results, tx, factors, answers, stranded, crashes>>
StoreFactor(s, f) ==
    /\ f \notin factors[s]
    /\ factors' = [factors EXCEPT ![s] = @ \cup {f}]
    /\ UNCHANGED <<policy, run, results, tx, world, answers, stranded, crashes>>

Step(c) == Read(c) \/ Complete(c) \/ Confirm(c) \/ Abort(c) \/ Fail(c)
Next ==
    \/ \E c \in Callers :
        \/ PersistPolicy(c)
        \/ \E i \in Runs, retry \in BOOLEAN : Start(c, i, retry)
        \/ \E i \in Runs : Reproduce(c, i)
        \/ Step(c)
        \/ Crash(c)
    \/ Publish
    \/ \E s \in Shares, f \in Factors : StoreFactor(s, f)

(* A caller that is not interrupted goes on. *)
Fairness == \A c \in Callers : WF_vars(Step(c))

Spec == Init /\ [][Next]_vars
FairSpec == Spec /\ Fairness

-----------------------------------------------------------------------------
(* Properties *)

Executes(c, i) == tx[c].step # "idle" /\ tx[c].executes /\ tx[c].id = i

(* At any time a run has at most one caller that executes it, and it is    *)
(* RUNNING exactly while it has one or after that one died (start inserts  *)
(* or finds, retry_failed locks the row: no two callers may estimate the   *)
(* same run, and only a crash leaves a run that nobody ends).              *)
OneExecutor ==
    \A i \in Runs :
        /\ \A c, d \in Callers : Executes(c, i) /\ Executes(d, i) => c = d
        /\ IsIn(i, {"RUNNING"}) <=> i \in stranded \/ \E c \in Callers : Executes(c, i)
        /\ i \in stranded => \A c \in Callers : ~Executes(c, i)

(* A run has results exactly when it is final, its approval is the verdict *)
(* on its ABSOLUTE basis, and an approved run is one whole package to the  *)
(* provider, with every fund that was estimated (a rolled-back transaction *)
(* leaves nothing, and what is stored passes the provider's checks).       *)
ApprovedIsWhole ==
    \A i \in Runs :
        /\ results[i] # {} <=> IsIn(i, Final)
        /\ IsIn(i, Final) =>
            LET rejects == \/ \E r \in results[i] : r.table = "rejection" /\ r.basis = "ABSOLUTE"
                           \/ \E r \in results[i] :
                                /\ r.table = "validation" /\ r.basis = "ABSOLUTE"
                                /\ r.result.severity = "REJECT" /\ r.result.status = "FAILED"
                members == {r.share : r \in {x \in results[i] :
                                x.table = "return" /\ x.basis = "ABSOLUTE"}}
            IN  /\ run[i].approved <=> ~rejects
                /\ Load(i) = IF run[i].approved THEN members ELSE None

(* All callers that are given a final result of a run are given the same:  *)
(* its state, its fingerprint and the state of each basis, whatever data   *)
(* arrived in between and whoever asks (the lineage names everything that  *)
(* an outcome depends on; a caller whose lineage differs gets an error).   *)
SameAnswer == \A a, b \in answers : a.id = b.id => a = b

(* No step changes a run that is final, nor its results. *)
FinalIsKept ==
    [][\A i \in Runs : IsIn(i, Final) => run'[i] = run[i] /\ results'[i] = results[i]]_vars

(* A run that is RUNNING ends, or its caller dies. *)
RunsEnd ==
    \A i \in Runs : IsIn(i, {"RUNNING"}) ~> (~IsIn(i, {"RUNNING"}) \/ i \in stranded)
=============================================================================
