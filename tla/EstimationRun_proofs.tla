------------------------- MODULE EstimationRun_proofs -------------------------
(***************************************************************************)
(* Proofs about EstimationRun, for any callers, runs, data and factors:    *)
(* one executor per run, final runs are kept, every caller of a run is     *)
(* given the same answer, and an approved run is whole.  Then, about       *)
(* EstimationWorlds, for all data: the segments of benchmark mappings,     *)
(* what an excess return joins, and what shows of a change of the mapping. *)
(***************************************************************************)
EXTENDS EstimationRun, EstimationWorlds, FiniteSetTheorems, WellFoundedInduction, TLAPS

(* What a caller's state holds: the run it works on and, when it estimates,*)
(* the inputs of some data.                                                *)
TxOK(t) ==
    \/ t.step = "idle"
    \/ /\ t.step \in {"reading", "estimating", "failing"}
       /\ t.id \in Runs
       /\ t.executes \in BOOLEAN
       /\ t.step = "failing" => t.executes
       /\ t.step = "estimating" => \E w \in Worlds : t.inputs = w.inputs

Shape ==
    /\ run = [i \in Runs |-> run[i]]
    /\ tx = [c \in Callers |-> tx[c]]
    /\ results = [i \in Runs |-> results[i]]
    /\ \A i \in Runs : run[i].status \in Status \cup {None}
    /\ \A c \in Callers : TxOK(tx[c])
    /\ world \in Worlds
    /\ factors \in [Shares -> SUBSET Factors]

(* A run is executed by one caller at most; see OneExecutor. *)
Alone(i) == \A c, d \in Callers : Executes(c, i) /\ Executes(d, i) => c = d
InHands(i) == IsIn(i, {"RUNNING"}) <=> (i \in stranded \/ \E c \in Callers : Executes(c, i))
Left(i) == i \in stranded => \A c \in Callers : ~Executes(c, i)
Executed == \A i \in Runs : Alone(i) /\ InHands(i) /\ Left(i)

(* Who does not execute a run computes one again that is final. *)
Reproduced == \A c \in Callers : tx[c].step = "idle" \/ tx[c].executes \/ IsIn(tx[c].id, Final)

(* An answer is what some caller made of some data, and the run says it.   *)
Given(a) ==
    /\ a.id \in Runs /\ IsIn(a.id, Final)
    /\ \E c \in Callers, w \in Worlds, seen \in [Shares -> SUBSET Factors] :
        /\ a = Answer(a.id, run[a.id].status, Outcomes(c, w.inputs, seen))
        /\ run[a.id].fingerprint = Fingerprint(Outcomes(c, w.inputs, seen))
Answered == \A a \in answers : Given(a)

(* Only a final run has results, and it holds all of one outcome. *)
Holds(i, outcomes) ==
    /\ results[i] = ResultRows(outcomes)
    /\ run[i] = [status |-> DeriveOutcome(outcomes),
                 approved |-> DeriveOutcome(outcomes) # "REJECTED",
                 fingerprint |-> Fingerprint(outcomes)]
IsStored(i) ==
    IF IsIn(i, Final)
    THEN \E c \in Callers, w \in Worlds, seen \in [Shares -> SUBSET Factors] :
            Holds(i, Outcomes(c, w.inputs, seen))
    ELSE results[i] = {}
Stored == \A i \in Runs : IsStored(i)

IInv == Shape /\ Executed /\ Reproduced /\ Answered /\ Stored

-----------------------------------------------------------------------------
(* The same lineage, the same outcome *)

(* Equal lineages have equal inputs, factor values and settings. *)
LEMMA LineageParts ==
    ASSUME NEW c \in Callers, NEW d \in Callers, NEW x, NEW y, NEW f, NEW g,
           Lineage(c, x, f) = Lineage(d, y, g),
           x.lineage = y.lineage => x = y
    PROVE  /\ x = y
           /\ Setting[c] = Setting[d]
           /\ \A s \in x.sample.members : f[s] = g[s]
<1>1. /\ x.lineage = y.lineage
      /\ [s \in x.sample.members |-> f[s]] = [s \in y.sample.members |-> g[s]]
      /\ Setting[c] = Setting[d]
  BY DEF Lineage
<1>2. x = y
  BY <1>1
<1>3. ASSUME NEW s \in x.sample.members
      PROVE  f[s] = g[s]
  BY <1>1, <1>2
<1> QED
  BY <1>1, <1>2, <1>3

(* The cross-check looks at the factor values of the sample's funds only.  *)
LEMMA SameFactorResult ==
    ASSUME NEW members, NEW f, NEW g, \A s \in members : f[s] = g[s]
    PROVE  FactorResult(members, f) = FactorResult(members, g)
<1>1. {FactorCheck(f[s]) : s \in members} = {FactorCheck(g[s]) : s \in members}
  OBVIOUS
<1> QED
  BY <1>1 DEF FactorResult

LEMMA SameOutcome ==
    ASSUME NEW c \in Callers, NEW d \in Callers, NEW x, NEW y, NEW f, NEW g,
           Lineage(c, x, f) = Lineage(d, y, g),
           x.lineage = y.lineage => x = y
    PROVE  Outcome(c, x, f) = Outcome(d, y, g)
<1>1. x = y /\ Setting[c] = Setting[d] /\ \A s \in x.sample.members : f[s] = g[s]
  BY LineageParts
<1>2. FactorResult(x.sample.members, f) = FactorResult(y.sample.members, g)
  BY <1>1, SameFactorResult
<1>3. Validations(x.sample, x.number, f) = Validations(y.sample, y.number, g)
  BY <1>1, <1>2 DEF Validations
<1>4. RuntimeEligibility(c) = RuntimeEligibility(d)
  BY <1>1 DEF RuntimeEligibility
<1> QED
  BY <1>1, <1>3, <1>4 DEF Outcome

(* What two callers made of two states of the data is the same when the    *)
(* fingerprints are: the lineage holds all that an outcome depends on.     *)
LEMMA FingerprintDetermines ==
    ASSUME NEW c \in Callers, NEW d \in Callers, NEW v \in Worlds, NEW w \in Worlds,
           NEW f, NEW g,
           Fingerprint(Outcomes(c, v.inputs, f)) = Fingerprint(Outcomes(d, w.inputs, g))
    PROVE  Outcomes(c, v.inputs, f) = Outcomes(d, w.inputs, g)
<1>1. ASSUME NEW b \in Bases
      PROVE  Outcome(c, v.inputs[b], f) = Outcome(d, w.inputs[b], g)
  <2>1. Outcome(c, v.inputs[b], f).lineage = Outcome(d, w.inputs[b], g).lineage
    BY DEF Fingerprint, Outcomes
  <2>2. Lineage(c, v.inputs[b], f) = Lineage(d, w.inputs[b], g)
    BY <2>1 DEF Outcome
  <2>3. v.inputs[b].lineage = w.inputs[b].lineage => v.inputs[b] = w.inputs[b]
    BY NumbersAssumption
  <2> QED
    BY <2>2, <2>3, SameOutcome
<1> QED
  BY <1>1 DEF Outcomes

-----------------------------------------------------------------------------
(* The inductive step, action by action *)

LEMMA DerivedIsFinal == \A outcomes : DeriveOutcome(outcomes) \in Final
  BY DEF DeriveOutcome, Final

(* Every outcome leaves rows: at least the check of the caller's mode.     *)
LEMMA RowsAreStored ==
    ASSUME NEW c, NEW inputs, NEW seen
    PROVE  ResultRows(Outcomes(c, inputs, seen)) # {}
<1> DEFINE outcomes == Outcomes(c, inputs, seen)
<1>1. RuntimeEligibility(c) \in outcomes["ABSOLUTE"].validations
  BY DEF Outcomes, Outcome, Bases
<1>2. ValidationRows("ABSOLUTE", outcomes["ABSOLUTE"]) # {}
  BY <1>1 DEF ValidationRows
<1> HIDE DEF outcomes
<1>3. ResultRows(outcomes) # {}
  BY <1>2 DEF ResultRows, Bases
<1> QED
  BY <1>3 DEF outcomes

LEMMA GivenStays ==
    ASSUME NEW a, Given(a), run'[a.id] = run[a.id]
    PROVE  Given(a)'
  BY DEF Given, IsIn

LEMMA StoredStays ==
    ASSUME NEW i \in Runs, IsStored(i), run'[i] = run[i], results'[i] = results[i]
    PROVE  IsStored(i)'
<1>1. IsIn(i, Final)' <=> IsIn(i, Final)
  BY DEF IsIn
<1>2. ASSUME NEW outcomes, Holds(i, outcomes) PROVE Holds(i, outcomes)'
  BY <1>2 DEF Holds
<1> QED
  BY <1>1, <1>2 DEF IsStored

LEMMA InitIInv == Init => IInv
<1> SUFFICES ASSUME Init PROVE IInv
  OBVIOUS
<1> USE DEF Init
<1>1. Shape
  BY DEF Shape, TxOK, Idle, Absent, Row
<1>2. Executed
  BY RunAssumption DEF Executed, Alone, InHands, Left, Executes, IsIn, Absent, Row, Idle, Status
<1>3. Answered /\ Reproduced
  BY DEF Answered, Reproduced, Idle
<1>4. Stored
  BY RunAssumption DEF Stored, IsStored, IsIn, Absent, Row, Status
<1> QED
  BY <1>1, <1>2, <1>3, <1>4 DEF IInv

LEMMA StartKeeps ==
    ASSUME IInv, NEW c \in Callers, NEW i \in Runs, NEW retry \in BOOLEAN, Start(c, i, retry)
    PROVE  IInv'
<1> USE DEF IInv, Start
<1>0. /\ ~IsIn(i, Final) /\ ~IsIn(i, {"RUNNING"})
      /\ run'[i].status = "RUNNING"
      /\ \A j \in Runs \ {i} : run'[j] = run[j]
      /\ tx'[c] = [step |-> "reading", id |-> i, executes |-> TRUE]
      /\ \A d \in Callers \ {c} : tx'[d] = tx[d]
  BY RunAssumption DEF Shape, CanStart, IsIn, Final, Status, Running, Row
<1>1. Shape'
  BY <1>0 DEF Shape, TxOK, Running, Row, Status
<1>2. Executed'
  <2> SUFFICES ASSUME NEW j \in Runs PROVE (Alone(j) /\ InHands(j) /\ Left(j))'
    BY DEF Executed
  <2>0. Alone(j) /\ InHands(j) /\ Left(j)
    BY DEF Executed
  <2>1. CASE j = i
    <3>1. i \notin stranded /\ \A d \in Callers : ~Executes(d, i)
      BY <1>0, <2>0, <2>1 DEF InHands
    <3>2. \A d \in Callers : Executes(d, i)' <=> d = c
      BY <1>0, <3>1 DEF Executes
    <3> QED
      BY <1>0, <2>1, <3>1, <3>2 DEF Alone, InHands, Left, IsIn
  <2>2. CASE j # i
    <3>1. \A d \in Callers : Executes(d, j)' <=> Executes(d, j)
      BY <1>0, <2>2 DEF Executes
    <3> QED
      BY <1>0, <2>0, <2>2, <3>1 DEF Alone, InHands, Left, IsIn
  <2> QED
    BY <2>1, <2>2
<1>5. Reproduced'
  BY <1>0 DEF Reproduced, IsIn, Shape, TxOK
<1>3. Answered'
  <2> SUFFICES ASSUME NEW a \in answers PROVE Given(a)'
    BY DEF Answered
  <2>1. Given(a) /\ a.id \in Runs /\ a.id # i
    BY <1>0 DEF Answered, Given
  <2> QED
    BY <2>1, <1>0, GivenStays
<1>4. Stored'
  <2>1. results[i] = {} /\ results' = results /\ ~IsIn(i, Final)'
    BY <1>0 DEF Stored, IsStored, IsIn, Final
  <2>2. \A j \in Runs \ {i} : IsStored(j)'
    BY <1>0, StoredStays DEF Stored
  <2> QED
    BY <2>1, <2>2 DEF Stored, IsStored
<1> QED
  BY <1>1, <1>2, <1>3, <1>4, <1>5

(* A step that leaves the runs alone leaves their answers and results so.  *)
LEMMA UnchangedRuns ==
    ASSUME IInv, UNCHANGED <<run, results, answers>>
    PROVE  Answered' /\ Stored'
  BY GivenStays, StoredStays DEF IInv, Answered, Given, Stored

LEMMA ReproduceKeeps ==
    ASSUME IInv, NEW c \in Callers, NEW i \in Runs, Reproduce(c, i)
    PROVE  IInv'
<1> USE DEF IInv, Reproduce
<1>1. Shape'
  BY DEF Shape, TxOK
<1>2. Executed'
  BY DEF Executed, Alone, InHands, Left, Executes, IsIn, Shape
<1>3. Reproduced'
  BY DEF Reproduced, IsIn, Shape, TxOK
<1> QED
  BY <1>1, <1>2, <1>3, UnchangedRuns

LEMMA ReadKeeps ==
    ASSUME IInv, NEW c \in Callers, Read(c)
    PROVE  IInv'
<1> USE DEF IInv, Read
<1>1. Shape'
  BY DEF Shape, TxOK
<1>2. Executed'
  BY DEF Executed, Alone, InHands, Left, Executes, IsIn, Shape
<1>3. Reproduced'
  BY DEF Reproduced, IsIn, Shape, TxOK
<1> QED
  BY <1>1, <1>2, <1>3, UnchangedRuns

LEMMA CompleteKeeps ==
    ASSUME IInv, NEW c \in Callers, Complete(c)
    PROVE  IInv'
<1>i. PICK i \in Runs : i = tx[c].id
  BY DEF IInv, Complete, Shape, TxOK
<1> DEFINE outcomes == Outcomes(c, tx[c].inputs, factors)
           row == [status |-> DeriveOutcome(outcomes),
                   approved |-> DeriveOutcome(outcomes) # "REJECTED",
                   fingerprint |-> Fingerprint(outcomes)]
<1>0. /\ i \in Runs /\ tx[c].step = "estimating"
      /\ IsIn(i, {"RUNNING"}) /\ ~IsIn(i, Final)
      /\ run' = [run EXCEPT ![i] = row]
      /\ results' = [results EXCEPT ![i] = @ \cup ResultRows(outcomes)]
      /\ answers' = answers \cup {Answer(i, row.status, outcomes)}
      /\ tx' = [tx EXCEPT ![c] = Idle]
      /\ UNCHANGED <<policy, world, factors, stranded, crashes>>
  BY <1>i DEF Complete, IsIn, Final
<1>1. row.status \in Final /\ run'[i] = row /\ \A j \in Runs \ {i} : run'[j] = run[j]
  BY <1>0, DerivedIsFinal DEF IInv, Shape
<1>2. PICK w \in Worlds : tx[c].inputs = w.inputs
  BY <1>0 DEF IInv, Shape, TxOK
<1> HIDE DEF outcomes
<1>4. Shape'
  BY <1>0, <1>1 DEF IInv, Shape, TxOK, Idle, Final, Status
<1>5. Executed'
  <2>1. Executes(c, i)
    BY <1>i, <1>0 DEF IInv, Reproduced, Executes, Shape, TxOK
  <2>2. /\ i \notin stranded
        /\ \A d \in Callers : ~Executes(d, i)'
    BY <1>0, <2>1 DEF IInv, Executed, Alone, Left, Executes, Idle, Shape
  <2>3. ASSUME NEW j \in Runs \ {i}, NEW d \in Callers
        PROVE  Executes(d, j)' <=> Executes(d, j)
    BY <1>0, <2>1 DEF IInv, Executes, Idle, Shape
  <2>4. ASSUME NEW j \in Runs \ {i}
        PROVE  (Alone(j) /\ InHands(j) /\ Left(j))'
    BY <1>0, <1>1, <2>3 DEF IInv, Executed, Alone, InHands, Left, IsIn
  <2>5. (Alone(i) /\ InHands(i) /\ Left(i))'
    BY <1>0, <1>1, <2>2 DEF Alone, InHands, Left, IsIn, Final
  <2> QED
    BY <2>4, <2>5 DEF Executed
<1>8. Reproduced'
  BY <1>0, <1>1 DEF IInv, Reproduced, IsIn, Idle, Shape, TxOK
<1>6. Answered'
  <2> SUFFICES ASSUME NEW a \in answers' PROVE Given(a)'
    BY DEF Answered
  <2>1. CASE a \in answers
    <3>1. Given(a) /\ a.id \in Runs /\ a.id # i
      BY <1>0, <2>1 DEF IInv, Answered, Given
    <3> QED
      BY <3>1, <1>1, GivenStays
  <2>2. CASE a = Answer(i, row.status, outcomes)
    <3>1. a.id = i
      BY <2>2 DEF Answer
    <3>2. outcomes = Outcomes(c, w.inputs, factors)
      BY <1>2 DEF outcomes
    <3>3. factors \in [Shares -> SUBSET Factors]
      BY DEF IInv, Shape
    <3>4. a = Answer(a.id, run'[a.id].status, Outcomes(c, w.inputs, factors))
      BY <2>2, <3>1, <3>2, <1>1
    <3>5. run'[a.id].fingerprint = Fingerprint(Outcomes(c, w.inputs, factors))
      BY <3>1, <3>2, <1>1
    <3>6. IsIn(a.id, Final)'
      BY <3>1, <1>1 DEF IsIn
    <3> QED
      BY <3>1, <3>3, <3>4, <3>5, <3>6, <1>0 DEF Given
  <2> QED
    BY <1>0, <2>1, <2>2
<1>7. Stored'
  <2>1. results'[i] = ResultRows(outcomes) /\ IsIn(i, Final)'
    BY <1>0, <1>1 DEF IInv, Shape, Stored, IsStored, IsIn
  <2>2. PICK seen \in [Shares -> SUBSET Factors] : outcomes = Outcomes(c, w.inputs, seen)
    BY <1>2 DEF outcomes, IInv, Shape
  <2>3. Holds(i, Outcomes(c, w.inputs, seen))'
    BY <1>1, <2>1, <2>2 DEF Holds
  <2>4. IsStored(i)'
    BY <2>1, <2>3 DEF IsStored
  <2>5. \A j \in Runs \ {i} : IsStored(j)'
    BY <1>0, <1>1, StoredStays DEF IInv, Shape, Stored
  <2> QED
    BY <2>4, <2>5 DEF Stored
<1> QED
  BY <1>4, <1>5, <1>6, <1>7, <1>8 DEF IInv

LEMMA ConfirmKeeps ==
    ASSUME IInv, NEW c \in Callers, Confirm(c)
    PROVE  IInv'
<1> DEFINE i == tx[c].id
           outcomes == Outcomes(c, tx[c].inputs, factors)
           given == Answer(i, run[i].status, outcomes)
<1>0. /\ i \in Runs /\ tx[c].step = "estimating"
      /\ IsIn(i, Final)
      /\ run[i].fingerprint = Fingerprint(outcomes)
      /\ answers' = answers \cup {given}
      /\ tx' = [tx EXCEPT ![c] = Idle]
      /\ UNCHANGED <<policy, run, results, world, factors, stranded, crashes>>
  BY DEF IInv, Confirm, Shape, TxOK
<1>1. PICK w \in Worlds : tx[c].inputs = w.inputs
  BY <1>0 DEF IInv, Shape, TxOK
<1> HIDE DEF outcomes
<1>2. Shape'
  BY <1>0 DEF IInv, Shape, TxOK, Idle
<1>3. Executed'
  <2>1. ~IsIn(i, {"RUNNING"})
    BY <1>0 DEF IsIn, Final
  <2>2. ASSUME NEW j \in Runs, NEW d \in Callers
        PROVE  Executes(d, j)' <=> Executes(d, j)
    BY <1>0, <2>1 DEF IInv, Executed, InHands, Executes, Idle, Shape
  <2> QED
    BY <1>0, <2>2 DEF IInv, Executed, Alone, InHands, Left, IsIn
<1>4. Reproduced'
  BY <1>0 DEF IInv, Reproduced, IsIn, Idle, Shape
<1>5. Answered'
  <2> SUFFICES ASSUME NEW a \in answers' PROVE Given(a)'
    BY DEF Answered
  <2>1. CASE a \in answers
    BY <1>0, <2>1, GivenStays DEF IInv, Answered, Given
  <2>2. CASE a = given
    <3>1. a.id = i
      BY <2>2 DEF Answer
    <3>2. outcomes = Outcomes(c, w.inputs, factors)
      BY <1>1 DEF outcomes
    <3>3. /\ a = Answer(a.id, run'[a.id].status, Outcomes(c, w.inputs, factors))
          /\ run'[a.id].fingerprint = Fingerprint(Outcomes(c, w.inputs, factors))
          /\ IsIn(a.id, Final)'
      BY <1>0, <2>2, <3>1, <3>2 DEF IsIn
    <3> QED
      BY <1>0, <3>1, <3>3 DEF IInv, Shape, Given
  <2> QED
    BY <1>0, <2>1, <2>2
<1>6. Stored'
  BY <1>0, StoredStays DEF IInv, Stored
<1> QED
  BY <1>2, <1>3, <1>4, <1>5, <1>6 DEF IInv

LEMMA AbortKeeps ==
    ASSUME IInv, NEW c \in Callers, Abort(c)
    PROVE  IInv'
<1> USE DEF IInv, Abort, Raise
<1>1. Shape'
  BY DEF Shape, TxOK, Idle
<1>2. Executed'
  <2>1. ASSUME NEW j \in Runs, NEW d \in Callers
        PROVE  Executes(d, j)' <=> Executes(d, j)
    BY DEF Shape, TxOK, Executes, Idle
  <2> QED
    BY <2>1 DEF Executed, Alone, InHands, Left, IsIn
<1>3. Reproduced'
  BY DEF Reproduced, IsIn, Shape, TxOK, Idle
<1> QED
  BY <1>1, <1>2, <1>3, UnchangedRuns

(* The run that fails is RUNNING and has no results: its row is closed.    *)
LEMMA FailKeeps ==
    ASSUME IInv, NEW c \in Callers, Fail(c)
    PROVE  IInv'
<1>i. PICK i \in Runs : i = tx[c].id
  BY DEF IInv, Fail, Shape, TxOK
<1>1. Executes(c, i)
  BY <1>i DEF IInv, Fail, Shape, TxOK, Executes
<1>2. IsIn(i, {"RUNNING"}) /\ i \notin stranded /\ results[i] = {} /\ ~IsIn(i, Final)
  BY <1>1 DEF IInv, Executed, InHands, Left, Stored, IsStored, IsIn, Final
<1>3. /\ run' = [run EXCEPT ![i] = Failed]
      /\ tx' = [tx EXCEPT ![c] = Idle]
      /\ UNCHANGED <<policy, results, world, factors, answers, stranded, crashes>>
  BY <1>i, <1>2 DEF Fail
<1>4. run'[i] = Failed /\ \A j \in Runs \ {i} : run'[j] = run[j]
  BY <1>1, <1>3 DEF IInv, Shape
<1>5. Shape'
  BY <1>1, <1>3, <1>4 DEF IInv, Shape, TxOK, Idle, Failed, Row, Status
<1>6. Executed'
  <2>1. \A d \in Callers : ~Executes(d, i)'
    BY <1>1, <1>3 DEF IInv, Executed, Alone, Executes, Idle, Shape
  <2>2. ASSUME NEW j \in Runs \ {i}, NEW d \in Callers
        PROVE  Executes(d, j)' <=> Executes(d, j)
    BY <1>1, <1>3 DEF IInv, Executes, Idle, Shape
  <2>3. ASSUME NEW j \in Runs \ {i}
        PROVE  (Alone(j) /\ InHands(j) /\ Left(j))'
    BY <1>3, <1>4, <2>2 DEF IInv, Executed, Alone, InHands, Left, IsIn
  <2>4. (Alone(i) /\ InHands(i) /\ Left(i))'
    BY <1>2, <1>3, <1>4, <2>1 DEF Alone, InHands, Left, IsIn, Failed, Row
  <2> QED
    BY <2>3, <2>4 DEF Executed
<1>7. Reproduced'
  BY <1>2, <1>3, <1>4 DEF IInv, Reproduced, IsIn, Idle, Shape, TxOK
<1>8. Answered'
  <2> SUFFICES ASSUME NEW a \in answers PROVE Given(a)'
    BY <1>3 DEF Answered
  <2>1. Given(a) /\ a.id \in Runs /\ a.id # i
    BY <1>2 DEF IInv, Answered, Given
  <2> QED
    BY <2>1, <1>4, GivenStays
<1>9. Stored'
  <2>1. IsStored(i)'
    BY <1>2, <1>3, <1>4 DEF IsStored, IsIn, Failed, Row, Final
  <2>2. \A j \in Runs \ {i} : IsStored(j)'
    BY <1>3, <1>4, StoredStays DEF IInv, Stored
  <2> QED
    BY <2>1, <2>2 DEF Stored
<1> QED
  BY <1>5, <1>6, <1>7, <1>8, <1>9 DEF IInv

LEMMA CrashKeeps ==
    ASSUME IInv, NEW c \in Callers, Crash(c)
    PROVE  IInv'
<1> USE DEF IInv, Crash
<1>1. Shape'
  BY DEF Shape, TxOK, Idle
<1>2. Executed'
  <2> SUFFICES ASSUME NEW j \in Runs PROVE (Alone(j) /\ InHands(j) /\ Left(j))'
    BY DEF Executed
  <2>0. Alone(j) /\ InHands(j) /\ Left(j)
    BY DEF Executed
  <2>1. CASE Executes(c, j)
    <3>1. j \in stranded' /\ \A d \in Callers : ~Executes(d, j)'
      BY <2>0, <2>1 DEF Alone, Executes, Idle, Shape
    <3> QED
      BY <2>0, <2>1, <3>1 DEF Alone, InHands, Left, IsIn
  <2>2. CASE ~Executes(c, j)
    <3>1. \A d \in Callers : Executes(d, j)' <=> Executes(d, j)
      BY <2>2 DEF Executes, Idle, Shape
    <3>2. j \in stranded' <=> j \in stranded
      BY <2>2 DEF Executes
    <3> QED
      BY <2>0, <3>1, <3>2 DEF Alone, InHands, Left, IsIn
  <2> QED
    BY <2>1, <2>2
<1>3. Reproduced'
  BY DEF Reproduced, IsIn, Idle, Shape, TxOK
<1> QED
  BY <1>1, <1>2, <1>3, UnchangedRuns

(* Steps that touch neither a run nor a caller. *)
LEMMA OthersKeep ==
    ASSUME IInv,
           \/ \E c \in Callers : PersistPolicy(c)
           \/ Publish
           \/ \E s \in Shares, f \in Factors : StoreFactor(s, f)
           \/ UNCHANGED vars
    PROVE  IInv'
<1>1. UNCHANGED <<run, results, tx, answers, stranded>>
  BY DEF PersistPolicy, Publish, StoreFactor, vars
<1>2. world' \in Worlds /\ factors' \in [Shares -> SUBSET Factors]
  BY DEF IInv, Shape, PersistPolicy, Publish, StoreFactor, vars
<1>3. Shape'
  BY <1>1, <1>2 DEF IInv, Shape, TxOK
<1>4. Executed' /\ Reproduced'
  BY <1>1 DEF IInv, Executed, Reproduced, Alone, InHands, Left, Executes, IsIn
<1> QED
  BY <1>1, <1>3, <1>4, UnchangedRuns DEF IInv

LEMMA NextIInv == IInv /\ [Next]_vars => IInv'
<1> SUFFICES ASSUME IInv, [Next]_vars PROVE IInv'
  OBVIOUS
<1>1. ASSUME NEW c \in Callers, Step(c) PROVE IInv'
  BY <1>1, ReadKeeps, CompleteKeeps, ConfirmKeeps, AbortKeeps, FailKeeps DEF Step
<1> QED
  BY <1>1, StartKeeps, ReproduceKeeps, CrashKeeps, OthersKeep DEF Next

-----------------------------------------------------------------------------
(* What a run's results are to the provider *)

Covariance(b, outcomes) ==
    [table |-> "covariance", basis |-> b, members |-> outcomes[b].members,
     lineage |-> outcomes[b].lineage]
Rejection(b, outcomes) ==
    [table |-> "rejection", basis |-> b, lineage |-> outcomes[b].lineage]

(* The rows of each table: estimates of the bases that have some, a        *)
(* rejection of those that have none, and the validations of both.         *)
LEMMA RowsByTable ==
    ASSUME NEW outcomes, NEW r
    PROVE  /\ r \in ResultRows(outcomes) /\ r.table = "covariance" <=>
                \E b \in Bases : outcomes[b].estimated /\ r = Covariance(b, outcomes)
           /\ r \in ResultRows(outcomes) /\ r.table = "rejection" <=>
                \E b \in Bases : ~outcomes[b].estimated /\ r = Rejection(b, outcomes)
           /\ r \in ResultRows(outcomes) /\ r.table = "validation" <=>
                \E b \in Bases : \E v \in outcomes[b].validations :
                    r = [table |-> "validation", basis |-> b, result |-> v]
           /\ \A t \in {"return", "risk"} :
                r \in ResultRows(outcomes) /\ r.table = t <=>
                    \E b \in Bases : \E s \in outcomes[b].members :
                        outcomes[b].estimated /\ r = [table |-> t, basis |-> b, share |-> s]
<1>1. r \in ResultRows(outcomes) <=>
        \E b \in Bases :
            \/ outcomes[b].estimated /\ r \in EstimateRows(b, outcomes[b])
            \/ ~outcomes[b].estimated /\ r = Rejection(b, outcomes)
            \/ r \in ValidationRows(b, outcomes[b])
  BY DEF ResultRows, RejectionRows, Rejection
<1>2. ASSUME NEW b \in Bases
      PROVE  r \in EstimateRows(b, outcomes[b]) <=>
               \/ r = Covariance(b, outcomes)
               \/ \E t \in {"return", "risk"}, s \in outcomes[b].members :
                    r = [table |-> t, basis |-> b, share |-> s]
  BY DEF EstimateRows, Covariance
<1>3. ASSUME NEW b \in Bases
      PROVE  r \in ValidationRows(b, outcomes[b]) <=>
               \E v \in outcomes[b].validations :
                   r = [table |-> "validation", basis |-> b, result |-> v]
  BY DEF ValidationRows
<1>4. \A b \in Bases : /\ Covariance(b, outcomes).table = "covariance"
                       /\ Rejection(b, outcomes).table = "rejection"
  BY DEF Covariance, Rejection
<1> HIDE DEF Bases
<1>5. /\ r \in ResultRows(outcomes) /\ r.table = "covariance" <=>
           \E b \in Bases : outcomes[b].estimated /\ r = Covariance(b, outcomes)
  BY <1>1, <1>2, <1>3, <1>4
<1>6. r \in ResultRows(outcomes) /\ r.table = "rejection" <=>
           \E b \in Bases : ~outcomes[b].estimated /\ r = Rejection(b, outcomes)
  BY <1>1, <1>2, <1>3, <1>4
<1>7. r \in ResultRows(outcomes) /\ r.table = "validation" <=>
           \E b \in Bases : \E v \in outcomes[b].validations :
               r = [table |-> "validation", basis |-> b, result |-> v]
  BY <1>1, <1>2, <1>3, <1>4
<1>8. ASSUME NEW t \in {"return", "risk"}
      PROVE  r \in ResultRows(outcomes) /\ r.table = t <=>
                \E b \in Bases : \E s \in outcomes[b].members :
                   outcomes[b].estimated /\ r = [table |-> t, basis |-> b, share |-> s]
  BY <1>1, <1>2, <1>3, <1>4
<1> QED
  BY <1>5, <1>6, <1>7, <1>8

(* Of the ABSOLUTE rows: what the provider reads, and what approval says.  *)
LEMMA PackageOf ==
    ASSUME NEW outcomes, NEW t \in {"return", "risk"}
    PROVE  {r.share : r \in {x \in ResultRows(outcomes) :
                               x.table = t /\ x.basis = "ABSOLUTE"}}
             = IF outcomes["ABSOLUTE"].estimated THEN outcomes["ABSOLUTE"].members ELSE {}
<1>1. \A r : r \in ResultRows(outcomes) /\ r.table = t /\ r.basis = "ABSOLUTE" <=>
               \E s \in outcomes["ABSOLUTE"].members :
                   /\ outcomes["ABSOLUTE"].estimated
                   /\ r = [table |-> t, basis |-> "ABSOLUTE", share |-> s]
  BY RowsByTable DEF Bases
<1> DEFINE rows == {r \in ResultRows(outcomes) : r.table = t /\ r.basis = "ABSOLUTE"}
           shares == {r.share : r \in rows}
<1>2. ASSUME NEW s
      PROVE  s \in shares <=> /\ outcomes["ABSOLUTE"].estimated
                             /\ s \in outcomes["ABSOLUTE"].members
  <2>1. s \in shares <=> \E r \in rows : r.share = s
    OBVIOUS
  <2>2. \A r : r \in rows => \E q \in outcomes["ABSOLUTE"].members :
                /\ outcomes["ABSOLUTE"].estimated /\ r.share = q
    BY <1>1
  <2>3. ASSUME outcomes["ABSOLUTE"].estimated, s \in outcomes["ABSOLUTE"].members
        PROVE  [table |-> t, basis |-> "ABSOLUTE", share |-> s] \in rows
    BY <1>1, <2>3
  <2> HIDE DEF rows, shares
  <2> QED
    BY <2>1, <2>2, <2>3
<1> HIDE DEF shares
<1>3. shares = IF outcomes["ABSOLUTE"].estimated THEN outcomes["ABSOLUTE"].members ELSE {}
  BY <1>2
<1> QED
  BY <1>3 DEF shares

LEMMA ApprovalOf ==
    ASSUME NEW outcomes
    PROVE  DeriveOutcome(outcomes) # "REJECTED" <=>
             ~ \/ \E r \in ResultRows(outcomes) : r.table = "rejection" /\ r.basis = "ABSOLUTE"
               \/ \E r \in ResultRows(outcomes) :
                    /\ r.table = "validation" /\ r.basis = "ABSOLUTE"
                    /\ r.result.severity = "REJECT" /\ r.result.status = "FAILED"
<1>1. (\E r \in ResultRows(outcomes) : r.table = "rejection" /\ r.basis = "ABSOLUTE")
        <=> ~outcomes["ABSOLUTE"].estimated
  <2>1. Rejection("ABSOLUTE", outcomes).basis = "ABSOLUTE"
        /\ Rejection("EXCESS", outcomes).basis = "EXCESS"
    BY DEF Rejection
  <2>2. \A r : r \in ResultRows(outcomes) /\ r.table = "rejection" <=>
                \E b \in Bases : ~outcomes[b].estimated /\ r = Rejection(b, outcomes)
    BY RowsByTable
  <2> QED
    BY <2>1, <2>2 DEF Bases
<1>2. (\E r \in ResultRows(outcomes) :
          /\ r.table = "validation" /\ r.basis = "ABSOLUTE"
          /\ r.result.severity = "REJECT" /\ r.result.status = "FAILED")
        <=> Rejects(outcomes["ABSOLUTE"].validations)
  <2>1. \A r : r \in ResultRows(outcomes) /\ r.table = "validation" /\ r.basis = "ABSOLUTE" <=>
                \E v \in outcomes["ABSOLUTE"].validations :
                    r = [table |-> "validation", basis |-> "ABSOLUTE", result |-> v]
    BY RowsByTable DEF Bases
  <2>2. ASSUME NEW v \in outcomes["ABSOLUTE"].validations,
               v.severity = "REJECT", v.status = "FAILED"
        PROVE  \E r \in ResultRows(outcomes) :
                  /\ r.table = "validation" /\ r.basis = "ABSOLUTE"
                  /\ r.result.severity = "REJECT" /\ r.result.status = "FAILED"
    <3> DEFINE r == [table |-> "validation", basis |-> "ABSOLUTE", result |-> v]
    <3>1. r \in ResultRows(outcomes) /\ r.table = "validation" /\ r.basis = "ABSOLUTE"
      BY <2>1
    <3> QED
      BY <2>2, <3>1
  <2>3. ASSUME NEW r \in ResultRows(outcomes),
               r.table = "validation", r.basis = "ABSOLUTE",
               r.result.severity = "REJECT", r.result.status = "FAILED"
        PROVE  \E v \in outcomes["ABSOLUTE"].validations :
                  v.severity = "REJECT" /\ v.status = "FAILED"
    <3>1. PICK v \in outcomes["ABSOLUTE"].validations :
                r = [table |-> "validation", basis |-> "ABSOLUTE", result |-> v]
      BY <2>1, <2>3
    <3> QED
      BY <2>3, <3>1
  <2> QED
    BY <2>2, <2>3 DEF Rejects
<1> QED
  BY <1>1, <1>2 DEF DeriveOutcome

(* What is stored of outcomes is what the provider loads. *)
LEMMA LoadsWhole ==
    ASSUME NEW i \in Runs, NEW outcomes, Holds(i, outcomes)
    PROVE  Load(i) = IF run[i].approved THEN outcomes["ABSOLUTE"].members ELSE None
<1> DEFINE covariances == {r \in results[i] : r.table = "covariance"}
           rejections == {r \in results[i] : r.table = "rejection"}
           rows == covariances \cup rejections
           absolute == {r \in covariances : r.basis = "ABSOLUTE"}
           SharesIn(table) == {r.share : r \in {x \in results[i] :
                                x.table = table /\ x.basis = "ABSOLUTE"}}
           RowOf(b) == IF outcomes[b].estimated THEN Covariance(b, outcomes)
                       ELSE Rejection(b, outcomes)
           Whole == /\ \A r, q \in rows : r.basis = q.basis => r = q
                    /\ run[i].fingerprint =
                         [b \in {r.basis : r \in rows} |->
                             (CHOOSE r \in rows : r.basis = b).lineage]
                    /\ Cardinality(absolute) = 1
                    /\ \A r \in absolute : /\ r.members = SharesIn("return")
                                           /\ r.members = SharesIn("risk")
<1>1. /\ IsIn(i, {"COMPLETED", "COMPLETED_WITH_WARNING"}) <=> run[i].approved
      /\ run[i].approved => outcomes["ABSOLUTE"].estimated
  <2>1. /\ run[i].status = DeriveOutcome(outcomes)
        /\ run[i].approved = (DeriveOutcome(outcomes) # "REJECTED")
    BY DEF Holds
  <2>2. /\ DeriveOutcome(outcomes) \in Final
        /\ DeriveOutcome(outcomes) # "REJECTED" => outcomes["ABSOLUTE"].estimated
    BY DerivedIsFinal DEF DeriveOutcome
  <2> QED
    BY <2>1, <2>2 DEF IsIn, Final
<1>2. \A r : r \in rows <=> \E b \in Bases : r = RowOf(b)
  BY RowsByTable DEF Holds
<1>3. \A b \in Bases : RowOf(b).basis = b /\ RowOf(b).lineage = outcomes[b].lineage
  BY DEF Covariance, Rejection
<1>4. SharesIn("return") = SharesIn("risk")
      /\ (outcomes["ABSOLUTE"].estimated => SharesIn("return") = outcomes["ABSOLUTE"].members)
  BY PackageOf DEF Holds
<1>5. outcomes["ABSOLUTE"].estimated => absolute = {Covariance("ABSOLUTE", outcomes)}
  <2>1. \A r : r \in covariances <=>
                \E b \in Bases : outcomes[b].estimated /\ r = Covariance(b, outcomes)
    BY RowsByTable DEF Holds
  <2>2. \A b \in Bases : Covariance(b, outcomes).basis = b
    BY DEF Covariance
  <2> HIDE DEF covariances
  <2> QED
    BY <2>1, <2>2 DEF Bases
<1>6. Covariance("ABSOLUTE", outcomes).members = outcomes["ABSOLUTE"].members
  BY DEF Covariance
<1>7. run[i].fingerprint = [b \in Bases |-> outcomes[b].lineage]
  BY DEF Holds, Fingerprint
<1> HIDE DEF rows, RowOf, SharesIn, absolute
<1>8. \A r, q \in rows : r.basis = q.basis => r = q
  BY <1>2, <1>3
<1>9. [b \in {r.basis : r \in rows} |-> (CHOOSE r \in rows : r.basis = b).lineage]
        = [b \in Bases |-> outcomes[b].lineage]
  <2>1. {r.basis : r \in rows} = Bases
    BY <1>2, <1>3
  <2> DEFINE Named(b) == (CHOOSE r \in rows : r.basis = b).lineage
  <2>2. ASSUME NEW b \in Bases
        PROVE  Named(b) = outcomes[b].lineage
    <3>1. (CHOOSE r \in rows : r.basis = b) = RowOf(b)
      BY <1>2, <1>3
    <3> QED
      BY <1>3, <3>1
  <2> HIDE DEF Named
  <2>3. [b \in Bases |-> Named(b)] = [b \in Bases |-> outcomes[b].lineage]
    BY <2>2
  <2> USE DEF Named
  <2> QED
    BY <2>1, <2>3
<1>10. outcomes["ABSOLUTE"].estimated => Cardinality(absolute) = 1
  BY <1>5, FS_Singleton
<1>11. outcomes["ABSOLUTE"].estimated => Whole
  BY <1>4, <1>5, <1>6, <1>7, <1>8, <1>9, <1>10
<1>12. Load(i) = IF /\ IsIn(i, {"COMPLETED", "COMPLETED_WITH_WARNING"}) /\ run[i].approved
                    /\ Whole
                 THEN SharesIn("return") ELSE None
  BY DEF Load, rows, SharesIn, absolute
<1> HIDE DEF Whole
<1> QED
  BY <1>1, <1>4, <1>11, <1>12

-----------------------------------------------------------------------------
(* The inductive invariant, of which the others follow. *)
THEOREM Inductive == Spec => []IInv
  BY InitIInv, NextIInv, PTL DEF Spec

(* One caller at a time executes a run, and RUNNING is in somebody's hands *)
(* or was when its caller died.                                            *)
THEOREM OneExecutorAlways == Spec => []OneExecutor
<1>1. IInv => OneExecutor
  BY DEF IInv, Executed, Alone, InHands, Left, OneExecutor
<1> QED
  BY <1>1, Inductive, PTL

(* Two callers that are given a final result of a run are given the same,  *)
(* however the data changed between them: the fingerprint of the run is    *)
(* that of both, and it determines the outcome.                            *)
THEOREM SameAnswerAlways == Spec => []SameAnswer
<1>1. IInv => SameAnswer
  <2> SUFFICES ASSUME IInv, NEW a \in answers, NEW b \in answers, a.id = b.id
               PROVE  a = b
    BY DEF SameAnswer
  <2>1. Given(a) /\ Given(b)
    BY DEF IInv, Answered
  <2>2. PICK c \in Callers, v \in Worlds, f \in [Shares -> SUBSET Factors] :
            /\ a = Answer(a.id, run[a.id].status, Outcomes(c, v.inputs, f))
            /\ run[a.id].fingerprint = Fingerprint(Outcomes(c, v.inputs, f))
    BY <2>1 DEF Given
  <2>3. PICK d \in Callers, w \in Worlds, g \in [Shares -> SUBSET Factors] :
            /\ b = Answer(b.id, run[b.id].status, Outcomes(d, w.inputs, g))
            /\ run[b.id].fingerprint = Fingerprint(Outcomes(d, w.inputs, g))
    BY <2>1 DEF Given
  <2>4. Outcomes(c, v.inputs, f) = Outcomes(d, w.inputs, g)
    BY <2>2, <2>3, FingerprintDetermines
  <2> QED
    BY <2>2, <2>3, <2>4
<1> QED
  BY <1>1, Inductive, PTL

(* A run has results exactly when it is final, it is approved exactly when *)
(* they reject nothing, and an approved one is loaded with every fund that *)
(* was estimated: the row and the results are of one outcome.              *)
THEOREM ApprovedAlwaysWhole == Spec => []ApprovedIsWhole
<1> DEFINE Rejected(i) ==
             \/ \E r \in results[i] : r.table = "rejection" /\ r.basis = "ABSOLUTE"
             \/ \E r \in results[i] :
                  /\ r.table = "validation" /\ r.basis = "ABSOLUTE"
                  /\ r.result.severity = "REJECT" /\ r.result.status = "FAILED"
           Funds(i) == {r.share : r \in {x \in results[i] :
                          x.table = "return" /\ x.basis = "ABSOLUTE"}}
<1>1. ASSUME IInv, NEW i \in Runs
      PROVE  results[i] # {} <=> IsIn(i, Final)
  BY <1>1, RowsAreStored DEF IInv, Stored, IsStored, Holds
<1>2. ASSUME IInv, NEW i \in Runs, IsIn(i, Final)
      PROVE  /\ run[i].approved <=> ~Rejected(i)
             /\ Load(i) = IF run[i].approved THEN Funds(i) ELSE None
  <2>1. PICK outcomes : Holds(i, outcomes)
    BY <1>2 DEF IInv, Stored, IsStored
  <2>2. /\ results[i] = ResultRows(outcomes)
        /\ run[i].approved = (DeriveOutcome(outcomes) # "REJECTED")
    BY <2>1 DEF Holds
  <2>3. DeriveOutcome(outcomes) # "REJECTED" => outcomes["ABSOLUTE"].estimated
    BY DEF DeriveOutcome
  <2>4. outcomes["ABSOLUTE"].estimated => Funds(i) = outcomes["ABSOLUTE"].members
    BY <2>2, PackageOf
  <2>5. run[i].approved <=> ~Rejected(i)
    BY <2>2, ApprovalOf
  <2>6. Load(i) = IF run[i].approved THEN outcomes["ABSOLUTE"].members ELSE None
    BY <2>1, LoadsWhole
  <2> HIDE DEF Rejected, Funds
  <2> QED
    BY <2>2, <2>3, <2>4, <2>5, <2>6
<1>3. IInv => ApprovedIsWhole
  BY <1>1, <1>2 DEF ApprovedIsWhole
<1> QED
  BY <1>3, Inductive, PTL

(* A final run and its results stay as they are. *)
THEOREM FinalIsKeptAlways == Spec => FinalIsKept
<1> DEFINE Kept == \A i \in Runs : IsIn(i, Final) => run'[i] = run[i] /\ results'[i] = results[i]
<1>1. ASSUME IInv, [Next]_vars
      PROVE  Kept
  <2> SUFFICES ASSUME NEW i \in Runs, IsIn(i, Final)
               PROVE  run'[i] = run[i] /\ results'[i] = results[i]
    OBVIOUS
  <2>1. ASSUME NEW c \in Callers, NEW j \in Runs, NEW retry \in BOOLEAN, Start(c, j, retry)
        PROVE  run'[i] = run[i] /\ results'[i] = results[i]
    <3>1. i # j
      BY <2>1, RunAssumption DEF Start, CanStart, IsIn, Final, Status
    <3> QED
      BY <2>1, <3>1 DEF Start, IInv, Shape
  <2>2. ASSUME NEW c \in Callers, Complete(c)
        PROVE  run'[i] = run[i] /\ results'[i] = results[i]
    <3>1. tx[c].id \in Runs
      BY <1>1, <2>2 DEF Complete, IInv, Shape, TxOK
    <3>2. i # tx[c].id
      BY <2>2 DEF Complete, IsIn, Final
    <3>3. \E row, rows : /\ run' = [run EXCEPT ![tx[c].id] = row]
                         /\ results' = [results EXCEPT ![tx[c].id] = rows]
      BY <2>2 DEF Complete
    <3> QED
      BY <3>1, <3>2, <3>3 DEF IInv, Shape
  <2>3. ASSUME NEW c \in Callers, Fail(c)
        PROVE  run'[i] = run[i] /\ results'[i] = results[i]
    BY <2>3 DEF Fail, IsIn, Final, IInv, Shape
  <2>4. ASSUME NEW c \in Callers, PersistPolicy(c) \/ Read(c) \/ Confirm(c) \/ Abort(c) \/ Crash(c)
        PROVE  run' = run /\ results' = results
    BY <2>4 DEF PersistPolicy, Read, Confirm, Abort, Crash
  <2>5. ASSUME \/ \E c \in Callers, j \in Runs : Reproduce(c, j)
               \/ Publish \/ (\E s \in Shares, f \in Factors : StoreFactor(s, f)) \/ UNCHANGED vars
        PROVE  run' = run /\ results' = results
    BY <2>5 DEF Reproduce, Publish, StoreFactor, vars
  <2>6. CASE \E c \in Callers : Complete(c) \/ Fail(c)
    BY <2>2, <2>3, <2>6
  <2>7. CASE \E c \in Callers : \/ PersistPolicy(c) \/ Read(c) \/ Confirm(c)
                                 \/ Abort(c) \/ Crash(c)
    BY <2>4, <2>7
  <2>8. CASE \E c \in Callers, j \in Runs, retry \in BOOLEAN : Start(c, j, retry)
    BY <2>1, <2>8
  <2>9. ASSUME NEW c \in Callers,
               \/ PersistPolicy(c)
               \/ \E j \in Runs, retry \in BOOLEAN : Start(c, j, retry)
               \/ \E j \in Runs : Reproduce(c, j)
               \/ Step(c)
               \/ Crash(c)
        PROVE  run'[i] = run[i] /\ results'[i] = results[i]
    BY <2>5, <2>6, <2>7, <2>8, <2>9 DEF Step
  <2> QED
    BY <1>1, <2>5, <2>9 DEF Next
<1>2. Spec => [][Kept]_vars
  BY <1>1, Inductive, PTL DEF Spec
<1> QED
  BY <1>2 DEF FinalIsKept

-----------------------------------------------------------------------------
(* The inputs of an estimation, for all data that may be found.            *)
(*                                                                         *)
(* First the least and the greatest element of a set of numbers: the       *)
(* initial segments of the numbers are ordered by inclusion.               *)

LEMMA MinOfSet ==
    ASSUME NEW S \in SUBSET Nat, S # {}
    PROVE  Min(S) \in S /\ \A y \in S : Min(S) <= y
  <1> DEFINE T == {0..s : s \in S}
  <1>1. T \subseteq FiniteSubsetsOf(Nat)
    <2>1. \A s \in S : 0..s \in SUBSET Nat /\ IsFiniteSet(0..s)
      BY FS_Interval
    <2> QED BY <2>1 DEF FiniteSubsetsOf
  <1>2. T # {}
    OBVIOUS
  <1>3. IsWellFoundedOn(StrictSubsetOrdering(Nat), FiniteSubsetsOf(Nat))
    BY FS_StrictSubsetOrderingWellFounded
  <1>4. PICK x \in T : \A y \in T : <<y, x>> \notin StrictSubsetOrdering(Nat)
    <2> HIDE DEF T
    <2> QED BY <1>1, <1>2, <1>3, WFMin
  <1>5. PICK s \in S : x = 0..s
    OBVIOUS
  <1>6. \A y \in S : s <= y
    <2> SUFFICES ASSUME NEW y \in S, y < s PROVE FALSE
      OBVIOUS
    <2>1. 0..y \subseteq 0..s /\ 0..y # 0..s
      <3>1. s \in 0..s /\ s \notin 0..y
        OBVIOUS
      <3> QED BY <3>1
    <2>2. <<0..y, 0..s>> \in StrictSubsetOrdering(Nat)
      BY <2>1 DEF StrictSubsetOrdering
    <2> QED BY <2>2, <1>4, <1>5
  <1> QED BY <1>6 DEF Min

LEMMA MaxOfSet ==
    ASSUME NEW n \in Nat, NEW S \in SUBSET (0..n), S # {}
    PROVE  Max(S) \in S /\ \A y \in S : y <= Max(S)
  <1> DEFINE T == {n - s : s \in S}
  <1>1. T \in SUBSET Nat /\ T # {}
    <2>1. \A s \in S : n - s \in Nat
      OBVIOUS
    <2>2. PICK s \in S : TRUE
      OBVIOUS
    <2>3. n - s \in T
      BY <2>2
    <2> QED BY <2>1, <2>3
  <1>2. Min(T) \in T /\ \A y \in T : Min(T) <= y
    <2> HIDE DEF T
    <2> QED BY <1>1, MinOfSet
  <1>3. PICK s \in S : Min(T) = n - s
    BY <1>2
  <1>4. \A y \in S : y <= s
    <2> TAKE y \in S
    <2>1. n - s <= n - y
      BY <1>2, <1>3
    <2>2. n \in Int /\ s \in Int /\ y \in Int
      OBVIOUS
    <2> HIDE DEF T
    <2> QED BY <2>1, <2>2
  <1> QED BY <1>4 DEF Max

(***************************************************************************)
(* Segments.  A range of days is cut at boundaries; from one to the next   *)
(* the mapping does not change, and the pieces with the same one that      *)
(* follow each other are a segment.                                        *)
(***************************************************************************)

StartsOf(pieces, choice) ==
    {b \in pieces : b = Min(pieces) \/ choice[b] # choice[Previous(pieces, b)]}
RunOf(pieces, starts, b) == {c \in pieces : c >= b /\ \A s \in starts : s <= b \/ s > c}
EndOf(cuts, pieces, starts, b) == Min({e \in cuts : e > Max(RunOf(pieces, starts, b))})
SegmentsOf(cuts, pieces, choice) ==
    LET starts == StartsOf(pieces, choice)
    IN  {[from |-> b, to |-> EndOf(cuts, pieces, starts, b), mapping |-> choice[b]] :
            b \in starts}

(* Segments that cover each day that has a mapping once, and with it.      *)
CoverOnce(segments, first, end, mapping) ==
    /\ \A g \in segments :
        g.from \in Nat /\ g.to \in Nat /\ first <= g.from /\ g.to <= end
    /\ \A d \in first..(end - 1) :
        LET over == {g \in segments : g.from <= d /\ d < g.to}
        IN  IF mapping[d] = None THEN over = {}
            ELSE \E g \in over : over = {g} /\ g.mapping = mapping[d]

(* The day before which a piece begins is the end of another piece. *)
LEMMA PreviousPiece ==
    ASSUME NEW end \in Nat, NEW pieces \in SUBSET (0..end), NEW b \in pieces,
           NEW a \in pieces, a < b
    PROVE  /\ Previous(pieces, b) \in pieces /\ Previous(pieces, b) < b
           /\ \A c \in pieces : c < b => c <= Previous(pieces, b)
  <1> DEFINE S == {d \in pieces : d < b}
  <1>1. S \in SUBSET (0..end) /\ S # {}
    OBVIOUS
  <1>2. Max(S) \in S /\ \A y \in S : y <= Max(S)
    <2> HIDE DEF S
    <2> QED BY <1>1, MaxOfSet
  <1>3. Previous(pieces, b) = Max(S)
    BY DEF Previous
  <1> QED BY <1>2, <1>3

(* If the mapping of a day is that of the last boundary until it, and is   *)
(* not interrupted, the segments cover each day that has a mapping once.   *)
LEMMA Partition ==
    ASSUME NEW first \in Nat, NEW end \in Nat, first < end,
           NEW cuts \in SUBSET (first..end), first \in cuts, end \in cuts,
           NEW mapping, NEW pieces, NEW choice,
           pieces = {b \in cuts \ {end} : mapping[b] # None},
           \A b \in pieces : choice[b] = mapping[b],
           \A d \in first..(end - 1) : \A b \in cuts :
                b <= d /\ (\A c \in cuts : c <= d => c <= b) => mapping[b] = mapping[d],
           \A a, b, c \in first..(end - 1) :
                a <= b /\ b <= c /\ mapping[a] = mapping[c] /\ mapping[a] # None
                    => mapping[b] # None
    PROVE  CoverOnce(SegmentsOf(cuts, pieces, choice), first, end, mapping)
  <1> DEFINE D == first..(end - 1)
             starts == StartsOf(pieces, choice)
             Run(b) == RunOf(pieces, starts, b)
             last(b) == Max(Run(b))
             to(b) == EndOf(cuts, pieces, starts, b)
  <1>1. /\ pieces \subseteq cuts /\ pieces \subseteq D /\ pieces \in SUBSET (0..end)
        /\ D \subseteq Nat /\ cuts \subseteq Nat /\ starts \subseteq pieces
        /\ \A b \in cuts : b \in D /\ mapping[b] # None => b \in pieces
        /\ \A b \in pieces : mapping[b] # None /\ b < end
    <2>1. \A b \in cuts : b \in Nat /\ b \in 0..end /\ (b # end => b \in D /\ b < end)
      OBVIOUS
    <2>2. end \notin D /\ D \subseteq Nat
      OBVIOUS
    <2>3. starts \subseteq pieces
      BY DEF StartsOf
    <2> HIDE DEF D, starts
    <2> QED BY <2>1, <2>2, <2>3
  <1>2. pieces # {} => Min(pieces) \in pieces /\ \A b \in pieces : Min(pieces) <= b
    BY <1>1, MinOfSet
  <1>3. pieces # {} => Min(pieces) \in starts
    BY <1>2 DEF StartsOf
  <1>4. \A b \in starts : \A c \in pieces :
            c \in Run(b) <=> c >= b /\ \A s \in starts : s <= b \/ s > c
    BY DEF RunOf
  <1>5. ASSUME NEW b \in starts
        PROVE  /\ b \in Run(b) /\ Run(b) \subseteq pieces
               /\ last(b) \in Run(b) /\ \A c \in Run(b) : c <= last(b)
    <2>1. b \in Nat /\ b \in pieces
      BY <1>1
    <2>2. b \in Run(b) /\ Run(b) \subseteq pieces
      <3>1. \A s \in starts : s <= b \/ s > b
        BY <1>1
      <3> QED BY <1>4, <2>1, <3>1 DEF RunOf
    <2>3. Run(b) \in SUBSET (0..end)
      BY <1>1, <2>2
    <2> HIDE DEF Run
    <2> QED BY <2>2, <2>3, MaxOfSet
  <1>6. ASSUME NEW b \in starts
        PROVE  to(b) \in cuts /\ to(b) > last(b) /\ \A e \in cuts : e > last(b) => to(b) <= e
    <2> DEFINE S == {e \in cuts : e > last(b)}
    <2>1. last(b) \in pieces /\ end > last(b)
      BY <1>1, <1>5
    <2>2. S \in SUBSET Nat /\ S # {}
      BY <1>1, <2>1
    <2>3. to(b) = Min(S)
      BY DEF EndOf
    <2> HIDE DEF S, to, last
    <2>4. Min(S) \in S /\ \A y \in S : Min(S) <= y
      BY <2>2, MinOfSet
    <2> QED BY <2>3, <2>4 DEF S
  <1> HIDE DEF to, last, Run
  <1>7. ASSUME NEW b \in starts, NEW x \in Run(b)
        PROVE  choice[x] = choice[b]
    <2> DEFINE Bad == {c \in Run(b) : choice[c] # choice[b]}
    <2> SUFFICES ASSUME Bad # {} PROVE FALSE
      OBVIOUS
    <2>1. Bad \in SUBSET Nat
      BY <1>1, <1>5
    <2>2. PICK c \in Bad : \A y \in Bad : c <= y
      <3> HIDE DEF Bad
      <3> QED BY <2>1, MinOfSet
    <2>3. c \in Run(b) /\ choice[c] # choice[b] /\ c \in pieces /\ c \in Nat /\ b \in Nat
          /\ b \in pieces
      BY <1>1, <1>5, <2>2
    <2>4. c >= b /\ \A s \in starts : s <= b \/ s > c
      BY <1>4, <2>3
    <2>5. b < c
      BY <2>3, <2>4
    <2>6. c \notin starts
      BY <2>3, <2>4, <2>5
    <2>7. choice[c] = choice[Previous(pieces, c)]
      BY <2>3, <2>6 DEF StartsOf
    <2> DEFINE p == Previous(pieces, c)
    <2>8. p \in pieces /\ p < c /\ b <= p /\ p \in Nat
      BY <1>1, <2>3, <2>5, PreviousPiece
    <2> HIDE DEF p
    <2>9. p \in Run(b)
      <3>1. \A s \in starts : s <= b \/ s > p
        BY <1>1, <2>3, <2>4, <2>8
      <3> QED BY <1>4, <2>3, <2>8, <3>1
    <2>10. choice[p] = choice[b]
      <3>1. p \notin Bad
        BY <2>2, <2>3, <2>8
      <3> QED BY <2>9, <3>1
    <2> QED BY <2>3, <2>7, <2>10 DEF p
  <1>8. ASSUME NEW d \in D
        PROVE  \E b \in cuts : b <= d /\ (\A c \in cuts : c <= d => c <= b) /\ b \in D
    <2> DEFINE S == {c \in cuts : c <= d}
    <2>1. S \in SUBSET (0..end) /\ first \in S
      <3>1. first <= d /\ \A c \in cuts : c \in 0..end
        OBVIOUS
      <3> QED BY <3>1
    <2>2. Max(S) \in S /\ \A y \in S : y <= Max(S)
      <3> HIDE DEF S
      <3> QED BY <2>1, MaxOfSet
    <2>3. PICK b \in S : \A y \in S : y <= b
      BY <2>2
    <2>4. b \in cuts /\ b <= d /\ \A c \in cuts : c <= d => c <= b
      BY <2>3
    <2>5. b \in D
      BY <2>4
    <2> QED BY <2>4, <2>5
  <1>9. ASSUME NEW b \in pieces
        PROVE  \E s \in starts : s <= b /\ b \in Run(s)
    <2> DEFINE S == {s \in starts : s <= b}
    <2>1. S \in SUBSET (0..end) /\ S # {}
      BY <1>1, <1>2, <1>3
    <2>2. Max(S) \in S /\ \A y \in S : y <= Max(S)
      <3> HIDE DEF S
      <3> QED BY <2>1, MaxOfSet
    <2>3. PICK s \in S : \A y \in S : y <= s
      BY <2>2
    <2>4. \A x \in starts : x <= s \/ x > b
      BY <1>1, <2>3
    <2> QED BY <1>1, <1>4, <2>3, <2>4
  <1>10. ASSUME NEW d \in D, NEW s \in starts, s <= d, d < to(s),
                NEW b \in cuts, b <= d, \A c \in cuts : c <= d => c <= b
         PROVE  b \in Run(s) /\ mapping[d] = choice[s] /\ mapping[d] # None
    <2>1. s \in pieces /\ s \in cuts /\ s <= b /\ s \in Nat /\ b \in Nat /\ d \in Nat
      BY <1>1, <1>10
    <2>2. last(s) \in Run(s) /\ last(s) \in pieces /\ last(s) \in Nat
      BY <1>1, <1>5
    <2>3. b <= last(s)
      <3> SUFFICES ASSUME b > last(s) PROVE FALSE
        BY <2>1, <2>2
      <3>1. to(s) <= b /\ to(s) \in Nat
        BY <1>1, <1>6
      <3> QED BY <1>10, <2>1, <3>1
    <2>4. choice[last(s)] = choice[s]
      BY <1>7, <2>2
    <2>5. s \in D /\ last(s) \in D /\ b \in D
      BY <1>1, <2>1, <2>2, <2>3
    <2>6. mapping[s] = mapping[last(s)] /\ mapping[s] # None
      BY <1>1, <2>1, <2>2, <2>4
    <2>7. mapping[b] # None
      BY <2>1, <2>3, <2>5, <2>6
    <2>8. b \in pieces
      BY <1>1, <2>5, <2>7
    <2>9. b \in Run(s)
      <3>1. \A x \in starts : x <= s \/ x > last(s)
        BY <1>4, <2>2
      <3>2. \A x \in starts : x <= s \/ x > b
        BY <1>1, <2>1, <2>2, <2>3, <3>1
      <3> QED BY <1>4, <2>1, <2>8, <3>2
    <2>10. mapping[d] = mapping[b]
      BY <1>10
    <2> QED BY <1>7, <2>7, <2>8, <2>9, <2>10
  <1>11. ASSUME NEW d \in D, mapping[d] # None
         PROVE  \E s \in starts : s <= d /\ d < to(s)
    <2>1. PICK b \in cuts : b <= d /\ (\A c \in cuts : c <= d => c <= b) /\ b \in D
      BY <1>8
    <2>2. b \in pieces
      BY <1>1, <1>11, <2>1
    <2>3. PICK s \in starts : s <= b /\ b \in Run(s)
      BY <1>9, <2>2
    <2>4. b <= last(s) /\ to(s) > last(s) /\ to(s) \in cuts
      BY <1>5, <1>6, <2>3
    <2>5. s \in Nat /\ b \in Nat /\ d \in Nat /\ last(s) \in Nat /\ to(s) \in Nat
      BY <1>1, <1>5, <2>3, <2>4
    <2>6. ~(to(s) <= d)
      <3>1. to(s) > b
        BY <2>4, <2>5
      <3> QED BY <2>1, <2>4, <2>5, <3>1
    <2>7. s <= d
      BY <2>1, <2>3, <2>5
    <2>8. d < to(s)
      BY <2>5, <2>6
    <2> QED BY <2>3, <2>7, <2>8
  <1>12. ASSUME NEW d \in D, NEW s \in starts, s <= d, d < to(s),
                NEW t \in starts, t <= d, d < to(t), s < t
         PROVE  FALSE
    <2>1. PICK b \in cuts : b <= d /\ (\A c \in cuts : c <= d => c <= b) /\ b \in D
      BY <1>8
    <2>2. b \in Run(s) /\ b \in pieces
      BY <1>5, <1>10, <1>12, <2>1
    <2>3. t <= b
      BY <1>1, <1>12, <2>1
    <2>4. t <= s \/ t > b
      BY <1>4, <2>2
    <2>5. {s, b, t} \subseteq Nat
      BY <1>1
    <2> QED BY <1>12, <2>3, <2>4, <2>5
  <1> DEFINE Seg(b) == [from |-> b, to |-> to(b), mapping |-> choice[b]]
             segments == SegmentsOf(cuts, pieces, choice)
             Over(d) == {g \in segments : g.from <= d /\ d < g.to}
  <1>13. segments = {Seg(b) : b \in starts}
    BY DEF SegmentsOf, to
  <1>14. ASSUME NEW g \in segments
         PROVE  g.from \in Nat /\ g.to \in Nat /\ first <= g.from /\ g.to <= end
    <2>1. PICK b \in starts : g = Seg(b)
      BY <1>13
    <2>2. b \in cuts /\ to(b) \in cuts
      BY <1>1, <1>6
    <2>3. g.from = b /\ g.to = to(b)
      BY <2>1
    <2> HIDE DEF segments, Seg
    <2>4. \A c \in cuts : c \in Nat /\ first <= c /\ c <= end
      OBVIOUS
    <2> QED BY <2>2, <2>3, <2>4
  <1>15. ASSUME NEW d \in D, mapping[d] = None
         PROVE  Over(d) = {}
    <2> SUFFICES ASSUME NEW b \in starts, b <= d, d < to(b) PROVE FALSE
      BY <1>13
    <2> QED BY <1>8, <1>10, <1>15
  <1>16. ASSUME NEW d \in D, mapping[d] # None
         PROVE  \E g \in Over(d) : Over(d) = {g} /\ g.mapping = mapping[d]
    <2>1. PICK s \in starts : s <= d /\ d < to(s)
      BY <1>11, <1>16
    <2>2. mapping[d] = choice[s]
      BY <1>8, <1>10, <2>1
    <2>3. \A t \in starts : t <= d /\ d < to(t) => t = s
      <3> SUFFICES ASSUME NEW t \in starts, t <= d, d < to(t), t # s PROVE FALSE
        OBVIOUS
      <3>1. s \in Nat /\ t \in Nat
        BY <1>1
      <3>2. s < t \/ t < s
        BY <3>1
      <3> QED BY <1>12, <2>1, <3>2
    <2>4. Over(d) = {Seg(s)}
      <3>1. \A t \in starts : Seg(t).from = t /\ Seg(t).to = to(t)
        OBVIOUS
      <3> HIDE DEF Seg, segments
      <3>2. Seg(s) \in segments /\ Seg(s).from <= d /\ d < Seg(s).to
        BY <1>13, <2>1, <3>1
      <3>3. \A g \in segments : g.from <= d /\ d < g.to => g = Seg(s)
        BY <1>13, <2>3, <3>1
      <3> QED BY <3>2, <3>3
    <2>5. Seg(s) \in Over(d) /\ Seg(s).mapping = choice[s]
      BY <2>4
    <2> HIDE DEF Over, Seg
    <2> QED BY <2>2, <2>4, <2>5
  <1> QED BY <1>14, <1>15, <1>16 DEF CoverOnce

-----------------------------------------------------------------------------
(* The mapping that is in force *)

(* The rows that a decision sees are mappings of days. *)
LEMMA VisibleRows ==
    ASSUME NEW data \in World, NEW share, NEW m \in Visible(data, share)
    PROVE  /\ m \in 1..Len(data.mappings) /\ Len(data.mappings) \in Nat
           /\ data.mappings[m].from \in Days /\ data.mappings[m].to \in Days \cup {None}
           /\ data.mappings[m].at \in Int /\ data.mappings[m].at <= LastDay
  <1>1. data.mappings \in Seq(Mapping)
    BY DEF World
  <1>2. m \in DOMAIN data.mappings /\ data.mappings[m].at <= LastDay
    BY DEF Visible
  <1>3. data.mappings[m] \in Mapping
    BY <1>1, <1>2
  <1> QED BY <1>1, <1>2, <1>3 DEF Mapping

(* Of any mappings, one goes before all others: the order is total.        *)
LEMMA SelectedIsCandidate ==
    ASSUME NEW data \in World, NEW share, NEW C \in SUBSET Visible(data, share), C # {}
    PROVE  Selected(data, C) \in C
  <1> DEFINE row(k) == data.mappings[k]
             own(k) == IF row(k).share # None THEN 1 ELSE 0
             Key(k) == <<own(k), row(k).from, row(k).at, k>>
  <1>1. \A k \in C : /\ k \in Nat /\ k <= Len(data.mappings) /\ Len(data.mappings) \in Nat
                     /\ row(k).from \in Nat /\ row(k).from <= LastDay
                     /\ row(k).at \in Int /\ row(k).at <= LastDay
    BY VisibleRows DEF Days
  <1>2. LastDay \in Nat /\ \A k : own(k) \in 0..1
    BY InputsAssumption
  <1>3. \A m, n : Outranks(data, m, n) <=>
            \E i \in 1..4 : Key(m)[i] > Key(n)[i] /\ \A j \in 1..(i - 1) : Key(m)[j] = Key(n)[j]
    BY DEF Outranks
  <1>4. \A k : /\ Key(k)[1] = own(k) /\ Key(k)[2] = row(k).from
               /\ Key(k)[3] = row(k).at /\ Key(k)[4] = k
    OBVIOUS
  <1> HIDE DEF row, own, Key
  <1>5. PICK m1 \in C : \A n \in C : own(n) <= own(m1)
    <2>1. CASE \E k \in C : own(k) = 1
      BY <1>2, <2>1
    <2>2. CASE \A k \in C : own(k) = 0
      BY <2>2
    <2> QED BY <1>2, <2>1, <2>2
  <1> DEFINE C1 == {k \in C : own(k) = own(m1)}
             F == {row(k).from : k \in C1}
  <1>6. PICK m2 \in C1 : \A n \in C1 : row(n).from <= row(m2).from
    <2>1. F \in SUBSET (0..LastDay) /\ F # {}
      BY <1>1, <1>2
    <2>2. Max(F) \in F /\ \A y \in F : y <= Max(F)
      <3> HIDE DEF F
      <3> QED BY <1>2, <2>1, MaxOfSet
    <2> QED BY <2>2
  <1> DEFINE C2 == {k \in C1 : row(k).from = row(m2).from}
             A == {LastDay - row(k).at : k \in C2}
  <1>7. PICK m3 \in C2 : \A n \in C2 : row(n).at <= row(m3).at
    <2>1. A \in SUBSET Nat /\ A # {}
      <3>1. \A k \in C2 : LastDay - row(k).at \in Nat
        BY <1>1, <1>2
      <3>2. m2 \in C2
        BY <1>6
      <3> QED BY <3>1, <3>2
    <2>2. Min(A) \in A /\ \A y \in A : Min(A) <= y
      <3> HIDE DEF A
      <3> QED BY <2>1, MinOfSet
    <2>3. PICK k \in C2 : \A n \in C2 : LastDay - row(k).at <= LastDay - row(n).at
      BY <2>2
    <2>4. \A n \in C2 : row(n).at <= row(k).at
      BY <1>1, <1>2, <2>3
    <2> QED BY <2>4
  <1> DEFINE C3 == {k \in C2 : row(k).at = row(m3).at}
  <1>8. PICK m \in C3 : \A n \in C3 : n <= m
    <2>1. PICK k \in C : TRUE
      OBVIOUS
    <2>2. C3 \in SUBSET (0..Len(data.mappings)) /\ C3 # {}
      BY <1>1, <1>7
    <2>3. Max(C3) \in C3 /\ \A y \in C3 : y <= Max(C3)
      <3> HIDE DEF C3
      <3> QED BY <1>1, <2>1, <2>2, MaxOfSet
    <2> QED BY <2>3
  <1>9. ASSUME NEW n \in C \ {m} PROVE Outranks(data, m, n)
    <2>1. /\ m \in C1 /\ m \in C2 /\ m \in C3 /\ m \in C
          /\ own(m) = own(m1) /\ row(m).from = row(m2).from /\ row(m).at = row(m3).at
      OBVIOUS
    <2>2. CASE n \notin C1
      <3>1. own(m) > own(n)
        BY <1>2, <1>5, <2>1, <2>2
      <3>2. Key(m)[1] > Key(n)[1] /\ \A j \in 1..(1 - 1) : Key(m)[j] = Key(n)[j]
        BY <1>4, <3>1
      <3> QED BY <1>3, <3>2
    <2>3. CASE n \in C1 \ C2
      <3>1. row(m).from > row(n).from /\ own(m) = own(n)
        BY <1>1, <1>6, <2>1, <2>3
      <3>2. Key(m)[2] > Key(n)[2] /\ \A j \in 1..(2 - 1) : Key(m)[j] = Key(n)[j]
        BY <1>4, <3>1
      <3> QED BY <1>3, <3>2
    <2>4. CASE n \in C2 \ C3
      <3>1. row(m).at > row(n).at /\ row(m).from = row(n).from /\ own(m) = own(n)
        BY <1>1, <1>7, <2>1, <2>4
      <3>2. Key(m)[3] > Key(n)[3] /\ \A j \in 1..(3 - 1) : j = 1 \/ j = 2
        BY <1>4, <3>1
      <3>3. \A j \in 1..(3 - 1) : Key(m)[j] = Key(n)[j]
        BY <1>4, <3>1, <3>2
      <3> QED BY <1>3, <3>2, <3>3
    <2>5. CASE n \in C3
      <3>1. m > n /\ row(m).at = row(n).at /\ row(m).from = row(n).from /\ own(m) = own(n)
        BY <1>1, <1>8, <2>1, <2>5
      <3>2. Key(m)[4] > Key(n)[4] /\ \A j \in 1..(4 - 1) : j = 1 \/ j = 2 \/ j = 3
        BY <1>4, <3>1
      <3>3. \A j \in 1..(4 - 1) : Key(m)[j] = Key(n)[j]
        BY <1>4, <3>1, <3>2
      <3> QED BY <1>3, <3>2, <3>3
    <2> QED BY <2>2, <2>3, <2>4, <2>5
  <1>10. m \in C
    OBVIOUS
  <1> QED BY <1>9, <1>10 DEF Selected

Held(data, share, day) == {m \in Visible(data, share) : InForce(data.mappings[m], day)}

(* The look-up of a day finds a mapping that is in force, if there is any. *)
LEMMA ResolvedMapping ==
    ASSUME NEW data \in World, NEW share, NEW day
    PROVE  /\ Resolve(data, share, day) =
                IF Held(data, share, day) = {} THEN None
                ELSE Selected(data, Held(data, share, day))
           /\ Held(data, share, day) # {} =>
                /\ Resolve(data, share, day) \in Held(data, share, day)
                /\ Resolve(data, share, day) # None
  <1> DEFINE H == Held(data, share, day)
  <1>1. Resolve(data, share, day) = IF H = {} THEN None ELSE Selected(data, H)
    BY DEF Resolve, Held
  <1>2. H \in SUBSET Visible(data, share)
    BY DEF Held
  <1> HIDE DEF H
  <1>3. ASSUME H # {} PROVE Selected(data, H) \in H /\ Selected(data, H) # None
    <2>1. Selected(data, H) \in H
      BY <1>2, <1>3, SelectedIsCandidate
    <2>2. Selected(data, H) \in Int
      BY <1>2, <2>1, VisibleRows
    <2> QED BY <2>1, <2>2, InputsAssumption
  <1> QED BY <1>1, <1>3 DEF H

(* A boundary is where a visible mapping that overlaps the range begins or *)
(* ends.                                                                   *)
Overlapping(data, share, first, end) ==
    {m \in Visible(data, share) : /\ data.mappings[m].from < end
                                   /\ Until(data.mappings[m], end) > first}
Cuts(data, share, first, end) ==
    Boundaries({data.mappings[m] : m \in Overlapping(data, share, first, end)}, first, end)

LEMMA LargerOfTwo ==
    ASSUME NEW a \in Nat, NEW b \in Nat
    PROVE  Max({a, b}) = IF a <= b THEN b ELSE a
  <1>1. {a, b} \in SUBSET (0..(a + b)) /\ a + b \in Nat
    OBVIOUS
  <1>2. Max({a, b}) \in {a, b} /\ \A y \in {a, b} : y <= Max({a, b})
    BY <1>1, MaxOfSet
  <1> QED BY <1>2

LEMMA SmallerOfTwo ==
    ASSUME NEW a \in Nat, NEW b \in Nat
    PROVE  Min({a, b}) = IF a <= b THEN a ELSE b
  <1>1. Min({a, b}) \in {a, b} /\ \A y \in {a, b} : Min({a, b}) <= y
    BY MinOfSet
  <1> QED BY <1>1

LEMMA CutsOfRange ==
    ASSUME NEW data \in World, NEW share, NEW first \in Nat, NEW end \in Nat, first < end
    PROVE  LET cuts == Cuts(data, share, first, end)
           IN  /\ cuts \in SUBSET (first..end) /\ first \in cuts /\ end \in cuts
               /\ \A m \in Visible(data, share) :
                    LET from == data.mappings[m].from
                        to == data.mappings[m].to
                    IN  from < end /\ (to = None \/ to > first) =>
                            /\ m \in Overlapping(data, share, first, end)
                            /\ (IF first <= from THEN from ELSE first) \in cuts
                            /\ to # None /\ to <= end => to \in cuts
  <1> DEFINE cuts == Cuts(data, share, first, end)
             row(m) == data.mappings[m]
             over == Overlapping(data, share, first, end)
  <1>1. ASSUME NEW m \in Visible(data, share)
        PROVE  /\ row(m).from \in Nat /\ (row(m).to # None => row(m).to \in Nat)
               /\ Max({first, row(m).from}) = IF first <= row(m).from THEN row(m).from ELSE first
               /\ Until(row(m), end) =
                    IF row(m).to # None /\ row(m).to <= end THEN row(m).to ELSE end
    <2>1. row(m).from \in Nat /\ (row(m).to # None => row(m).to \in Nat)
      BY VisibleRows DEF Days
    <2> HIDE DEF row
    <2>2. Max({first, row(m).from}) = IF first <= row(m).from THEN row(m).from ELSE first
      BY <2>1, LargerOfTwo
    <2>3. row(m).to # None => Min({end, row(m).to}) = IF end <= row(m).to THEN end ELSE row(m).to
      BY <2>1, SmallerOfTwo
    <2>4. Until(row(m), end) = IF row(m).to # None /\ row(m).to <= end THEN row(m).to ELSE end
      BY <2>1, <2>3 DEF Until
    <2> QED BY <2>1, <2>2, <2>4
  <1>2. over = {m \in Visible(data, share) : row(m).from < end /\ Until(row(m), end) > first}
    BY DEF Overlapping
  <1>3. cuts = {first, end} \cup {Max({first, row(m).from}) : m \in over}
                            \cup {Until(row(m), end) : m \in over}
    BY DEF Cuts, Boundaries
  <1> HIDE DEF cuts, over, row
  <1>4. ASSUME NEW m \in over
        PROVE  Max({first, row(m).from}) \in first..end /\ Until(row(m), end) \in first..end
    <2>1. m \in Visible(data, share) /\ row(m).from < end /\ Until(row(m), end) > first
      BY <1>2
    <2>2. Max({first, row(m).from}) \in first..end
      BY <1>1, <2>1
    <2>3. Until(row(m), end) \in first..end
      <3>1. Until(row(m), end) \in Nat /\ Until(row(m), end) <= end
        <4>1. CASE row(m).to # None /\ row(m).to <= end
          BY <1>1, <2>1, <4>1
        <4>2. CASE ~(row(m).to # None /\ row(m).to <= end)
          <5>1. Until(row(m), end) = end
            BY <1>1, <2>1, <4>2
          <5> QED BY <5>1
        <4> QED BY <4>1, <4>2
      <3> QED BY <2>1, <3>1
    <2> QED BY <2>2, <2>3
  <1>5. cuts \in SUBSET (first..end) /\ first \in cuts /\ end \in cuts
    <2>1. first \in first..end /\ end \in first..end
      OBVIOUS
    <2>2. \A c \in cuts : c \in first..end
      BY <1>3, <1>4, <2>1
    <2> QED BY <1>3, <2>2
  <1>6. ASSUME NEW m \in Visible(data, share), row(m).from < end,
               row(m).to = None \/ row(m).to > first
        PROVE  /\ m \in over
               /\ (IF first <= row(m).from THEN row(m).from ELSE first) \in cuts
               /\ row(m).to # None /\ row(m).to <= end => row(m).to \in cuts
    <2>1. m \in over
      BY <1>1, <1>2, <1>6
    <2>2. Max({first, row(m).from}) \in cuts /\ Until(row(m), end) \in cuts
      BY <1>3, <2>1
    <2> QED BY <1>1, <2>1, <2>2
  <1> QED BY <1>5, <1>6 DEF cuts, over, row

(* From a boundary to the next, the mappings in force do not change. *)
LEMMA HeldFromCut ==
    ASSUME NEW data \in World, NEW share, NEW first \in Nat, NEW end \in Nat, first < end,
           NEW d \in first..(end - 1), NEW b \in Cuts(data, share, first, end), b <= d,
           \A c \in Cuts(data, share, first, end) : c <= d => c <= b
    PROVE  Held(data, share, b) = Held(data, share, d)
  <1> DEFINE cuts == Cuts(data, share, first, end)
             row(m) == data.mappings[m]
  <1>1. b \in first..end /\ b \in Nat /\ d \in Nat /\ first <= b /\ d < end
    <2>1. b \in first..end
      BY CutsOfRange
    <2> QED BY <2>1
  <1>2. ASSUME NEW m \in Visible(data, share)
        PROVE  InForce(row(m), b) <=> InForce(row(m), d)
    <2>1. row(m).from \in Nat /\ (row(m).to # None => row(m).to \in Nat)
      BY VisibleRows DEF Days
    <2>2. row(m).from < end /\ (row(m).to = None \/ row(m).to > first) =>
            /\ (IF first <= row(m).from THEN row(m).from ELSE first) \in cuts
            /\ row(m).to # None /\ row(m).to <= end => row(m).to \in cuts
      BY CutsOfRange
    <2> HIDE DEF cuts, row
    <2>3. \A c \in cuts : c <= d => c <= b
      BY DEF cuts
    <2>4. CASE InForce(row(m), b)
      <3>1. row(m).from <= b /\ (row(m).to = None \/ row(m).to > b)
        BY <2>4 DEF InForce
      <3>2. row(m).from <= d
        BY <1>1, <2>1, <3>1
      <3>3. CASE row(m).to # None
        <4>1. row(m).to > d
          BY <1>1, <2>1, <2>2, <2>3, <3>1, <3>3
        <4> QED BY <2>4, <3>2, <4>1 DEF InForce
      <3> QED BY <2>4, <3>2, <3>3 DEF InForce
    <2>5. CASE InForce(row(m), d)
      <3>1. row(m).from <= d /\ (row(m).to = None \/ row(m).to > d)
        BY <2>5 DEF InForce
      <3>2. row(m).from <= b
        BY <1>1, <2>1, <2>2, <2>3, <3>1
      <3>3. row(m).to = None \/ row(m).to > b
        BY <1>1, <2>1, <3>1
      <3> QED BY <2>5, <3>2, <3>3 DEF InForce
    <2> QED BY <2>4, <2>5
  <1> QED BY <1>2 DEF Held

(* The segments of a range give each of its days the mapping that is in    *)
(* force.                                                                  *)
LEMMA SegmentsOfRange ==
    ASSUME NEW data \in World, NEW share, NEW first \in Nat, NEW last \in Nat, first <= last
    PROVE  CoverOnce(Segments(data, share, first, last), first, last + 1,
                     [d \in first..last |-> Resolve(data, share, d)])
  <1> DEFINE end == last + 1
             over == Overlapping(data, share, first, end)
             cuts == Cuts(data, share, first, end)
             Candidates(b) == {m \in over : InForce(data.mappings[m], b)}
             pieces == {b \in cuts \ {end} : Candidates(b) # {}}
             choice == [b \in pieces |-> Selected(data, Candidates(b))]
             mapping == [d \in first..last |-> Resolve(data, share, d)]
  <1>1. Segments(data, share, first, last) = SegmentsOf(cuts, pieces, choice)
    BY DEF Segments, SegmentsOf, StartsOf, RunOf, EndOf, Cuts, Overlapping
  <1>2. end \in Nat /\ first < end /\ end - 1 = last
    OBVIOUS
  <1> HIDE DEF end, cuts, over
  <1>3. cuts \in SUBSET (first..end) /\ first \in cuts /\ end \in cuts
    BY <1>2, CutsOfRange DEF cuts
  <1>4. ASSUME NEW b \in cuts \ {end}
        PROVE  b \in first..last /\ Candidates(b) = Held(data, share, b)
    <2>1. b \in first..end
      BY <1>3
    <2>2. b \in first..last /\ b \in Nat
      BY <1>2, <2>1
    <2>3. ASSUME NEW m \in Visible(data, share), InForce(data.mappings[m], b)
          PROVE  m \in over
      <3>1. /\ data.mappings[m].from \in Nat
            /\ data.mappings[m].to # None => data.mappings[m].to \in Nat
        BY VisibleRows DEF Days
      <3>2. /\ data.mappings[m].from <= b
            /\ data.mappings[m].to = None \/ data.mappings[m].to > b
        BY <2>3 DEF InForce
      <3>3. /\ data.mappings[m].from < end
            /\ data.mappings[m].to = None \/ data.mappings[m].to > first
        BY <1>2, <2>2, <3>1, <3>2
      <3> QED BY <1>2, <3>3, CutsOfRange DEF over
    <2>4. over \subseteq Visible(data, share)
      BY DEF over, Overlapping
    <2> QED BY <2>2, <2>3, <2>4 DEF Held
  <1>5. \A b \in cuts \ {end} :
            /\ Candidates(b) # {} <=> mapping[b] # None
            /\ Candidates(b) # {} => Selected(data, Candidates(b)) = mapping[b]
    BY <1>4, ResolvedMapping
  <1>6. pieces = {b \in cuts \ {end} : mapping[b] # None}
    BY <1>5
  <1>7. \A b \in pieces : choice[b] = mapping[b]
    BY <1>5
  <1>8. ASSUME NEW d \in first..(end - 1), NEW b \in cuts, b <= d,
               \A c \in cuts : c <= d => c <= b
        PROVE  mapping[b] = mapping[d]
    <2>1. Held(data, share, b) = Held(data, share, d)
      BY <1>2, <1>8, HeldFromCut DEF cuts
    <2>2. d \in first..last /\ b \in first..last
      <3>1. b \in first..end
        BY <1>3
      <3> QED BY <1>2, <1>8, <3>1
    <2> QED BY <2>1, <2>2, ResolvedMapping
  <1>9. ASSUME NEW a \in first..(end - 1), NEW b \in first..(end - 1), NEW c \in first..(end - 1),
               a <= b, b <= c, mapping[a] = mapping[c], mapping[a] # None
        PROVE  mapping[b] # None
    <2>1. PICK m : m = Resolve(data, share, a) /\ m = Resolve(data, share, c) /\ m # None
      BY <1>2, <1>9
    <2>2. m \in Held(data, share, a) /\ m \in Held(data, share, c)
      BY <2>1, ResolvedMapping
    <2>3. m \in Visible(data, share)
          /\ InForce(data.mappings[m], a) /\ InForce(data.mappings[m], c)
      BY <2>2 DEF Held
    <2>4. InForce(data.mappings[m], b)
      <3>1. /\ data.mappings[m].from \in Nat
            /\ data.mappings[m].to # None => data.mappings[m].to \in Nat
        BY <2>3, VisibleRows DEF Days
      <3>2. a \in Nat /\ b \in Nat /\ c \in Nat
        BY <1>2
      <3> QED BY <1>9, <2>3, <3>1, <3>2 DEF InForce
    <2>5. Held(data, share, b) # {}
      BY <2>3, <2>4 DEF Held
    <2> QED BY <1>2, <2>5, ResolvedMapping
  <1> HIDE DEF pieces, choice, mapping
  <1>10. CoverOnce(SegmentsOf(cuts, pieces, choice), first, end, mapping)
    <2>1. \A d \in first..(end - 1) : \A b \in cuts :
            b <= d /\ (\A c \in cuts : c <= d => c <= b) => mapping[b] = mapping[d]
      BY <1>8
    <2>2. \A a, b, c \in first..(end - 1) :
            a <= b /\ b <= c /\ mapping[a] = mapping[c] /\ mapping[a] # None
                => mapping[b] # None
      BY <1>9
    <2>3. end \in Nat /\ first < end
      BY <1>2
    <2> QED BY <1>3, <1>6, <1>7, <2>1, <2>2, <2>3, Partition
  <1> QED BY <1>1, <1>10 DEF end, mapping

-----------------------------------------------------------------------------
(* Segments and look-ups agree *)

LEMMA WindowIsRange ==
    ASSUME NEW data \in World, NEW share \in Shares, Window(data.nav[share]) # {}
    PROVE  LET window == Window(data.nav[share])
           IN  Min(window) \in Nat /\ Max(window) \in Nat /\ Min(window) <= Max(window)
  <1> DEFINE window == Window(data.nav[share])
  <1>1. window \in SUBSET (0..LastDay) /\ LastDay \in Nat
    <2>1. data.nav[share] \in Rows
      BY DEF World
    <2>2. DOMAIN data.nav[share] \subseteq Days
      BY <2>1 DEF Rows
    <2> QED BY <2>2, InputsAssumption DEF Window, Days
  <1> HIDE DEF window
  <1>2. Min(window) \in window /\ \A y \in window : Min(window) <= y
    BY <1>1, MinOfSet DEF window
  <1>3. Max(window) \in window
    BY <1>1, MaxOfSet DEF window
  <1> QED BY <1>1, <1>2, <1>3 DEF window

(* The segments of a window cover each of its days that has a mapping.     *)
LEMMA SegmentsOfWindow ==
    ASSUME NEW data \in World, NEW share \in Classified(data),
           Window(data.nav[share]) # {}
    PROVE  LET window == Window(data.nav[share])
           IN  /\ InForceOn(data, share) =
                    [d \in Min(window)..Max(window) |-> Resolve(data, share, d)]
               /\ CoverOnce(WindowSegments(data, share), Min(window), Max(window) + 1,
                            InForceOn(data, share))
  <1> DEFINE window == Window(data.nav[share])
  <1>1. share \in Shares /\ data.class[share] # None
    BY DEF Classified
  <1>2. Min(window) \in Nat /\ Max(window) \in Nat /\ Min(window) <= Max(window)
    BY <1>1, WindowIsRange
  <1>3. InForceOn(data, share) =
            [d \in Min(window)..Max(window) |-> Resolve(data, share, d)]
    BY DEF InForceOn, WindowDays
  <1>4. WindowSegments(data, share) = Segments(data, share, Min(window), Max(window))
    BY <1>1 DEF WindowSegments
  <1> HIDE DEF window
  <1>5. CoverOnce(Segments(data, share, Min(window), Max(window)), Min(window),
                  Max(window) + 1,
                  [d \in Min(window)..Max(window) |-> Resolve(data, share, d)])
    BY <1>2, SegmentsOfRange
  <1> QED BY <1>3, <1>4, <1>5 DEF window

LEMMA SegmentsOfAnyWorld ==
    ASSUME NEW data \in World
    PROVE  SegmentsAgree(data)
  <1> SUFFICES ASSUME NEW s \in Classified(data), NEW d \in DOMAIN InForceOn(data, s)
               PROVE  LET over == {g \in WindowSegments(data, s) : g.from <= d /\ d < g.to}
                      IN  IF InForceOn(data, s)[d] = None THEN over = {}
                          ELSE \E g \in over :
                                over = {g} /\ g.mapping = InForceOn(data, s)[d]
    BY DEF SegmentsAgree
  <1> DEFINE window == Window(data.nav[s])
  <1>1. window # {} /\ d \in Min(window)..Max(window)
    BY DEF InForceOn, WindowDays
  <1>2. Max(window) \in Nat
    BY <1>1, WindowIsRange DEF Classified
  <1>3. CoverOnce(WindowSegments(data, s), Min(window), Max(window) + 1, InForceOn(data, s))
    BY <1>1, SegmentsOfWindow
  <1> HIDE DEF window
  <1>4. d \in Min(window)..((Max(window) + 1) - 1)
    BY <1>1, <1>2
  <1> QED BY <1>3, <1>4 DEF CoverOnce

-----------------------------------------------------------------------------
(* Excess returns *)

(* A return is measured from the level before, and both are known. *)
LEMMA ReturnOf ==
    ASSUME NEW end \in Nat, NEW level, DOMAIN level \in SUBSET (0..end),
           NEW d \in DOMAIN Returns(level)
    PROVE  LET from == Returns(level)[d]
           IN  /\ d \in DOMAIN level /\ level[d] /\ from \in DOMAIN level /\ level[from]
               /\ from < d /\ \A e \in DOMAIN level : e < d => e <= from
  <1> DEFINE days == DOMAIN level
             D == {e \in days : /\ level[e] /\ \E x \in days : x < e
                                /\ level[Previous(days, e)]}
  <1>1. Returns(level) = [x \in D |-> Previous(days, x)]
    BY DEF Returns
  <1> HIDE DEF D
  <1>2. d \in D /\ Returns(level)[d] = Previous(days, d)
    BY <1>1
  <1>3. d \in days /\ level[d] /\ level[Previous(days, d)] /\ \E x \in days : x < d
    BY <1>2 DEF D
  <1> HIDE DEF days
  <1>4. /\ Previous(days, d) \in days /\ Previous(days, d) < d
        /\ \A c \in days : c < d => c <= Previous(days, d)
    BY <1>3, PreviousPiece DEF days
  <1> QED BY <1>2, <1>3, <1>4 DEF days

(* A benchmark's return is one of a segment, and of no day of change. *)
LEMMA BenchmarkReturnOf ==
    ASSUME NEW data, NEW share, NEW segments,
           NEW d \in DOMAIN BenchmarkReturns(data, share, segments)
    PROVE  /\ d \notin SwitchDates(segments)
           /\ \E g \in segments :
                /\ d \in DOMAIN Returns(Levels(data, share, g))
                /\ BenchmarkReturns(data, share, segments)[d] = Returns(Levels(data, share, g))[d]
  <1> DEFINE returns == [s \in segments |-> Returns(Levels(data, share, s))]
             days == (UNION {DOMAIN returns[s] : s \in segments}) \ SwitchDates(segments)
             Of(x) == CHOOSE s \in segments : x \in DOMAIN returns[s]
  <1>1. BenchmarkReturns(data, share, segments) = [x \in days |-> returns[Of(x)][x]]
    BY DEF BenchmarkReturns
  <1> HIDE DEF days
  <1>2. d \in days /\ BenchmarkReturns(data, share, segments)[d] = returns[Of(d)][d]
    BY <1>1
  <1>3. d \notin SwitchDates(segments) /\ \E s \in segments : d \in DOMAIN returns[s]
    BY <1>2 DEF days
  <1>4. Of(d) \in segments /\ d \in DOMAIN returns[Of(d)]
    BY <1>3
  <1> HIDE DEF Of
  <1> QED BY <1>2, <1>3, <1>4

(* The fund's return of a day of the sample is compared with a benchmark's *)
(* of the segments of its window.                                          *)
LEMMA ExcessReturnOf ==
    ASSUME NEW data, NEW share \in Basis(data, "EXCESS").members,
           NEW d \in Basis(data, "EXCESS").dates
    PROVE  LET returns == BenchmarkReturns(data, share, WindowSegments(data, share))
           IN  /\ share \in Classified(data) /\ Window(data.nav[share]) # {}
               /\ d \in DOMAIN returns
               /\ ExcessReturns(data, share)[d].benchmark = returns[d]
               /\ d \in DOMAIN AbsoluteReturns(data, share)
               /\ ExcessReturns(data, share)[d].fund = AbsoluteReturns(data, share)[d]
  <1> DEFINE series == [s \in Shares |-> ExcessReturns(data, s)]
             aligned == Align(series)
             segments == WindowSegments(data, share)
             fund == AbsoluteReturns(data, share)
             benchmark == BenchmarkReturns(data, share, segments)
  <1>1. share \in aligned.members /\ d \in aligned.dates
    BY DEF Basis, Sampled
  <1>2. share \in Shares /\ d \in DOMAIN ExcessReturns(data, share)
    <2>1. share \in Shares /\ d \in DOMAIN series[share]
      BY <1>1 DEF Align
    <2> QED BY <2>1
  <1>3. segments # {}
    <2> SUFFICES ASSUME segments = {} PROVE FALSE
      OBVIOUS
    <2>1. ExcessReturns(data, share) = <<>>
      BY DEF ExcessReturns
    <2> QED BY <1>2, <2>1
  <1>4. data.class[share] # None /\ Window(data.nav[share]) # {}
    BY <1>3 DEF WindowSegments
  <1>5. ExcessReturns(data, share) =
            [x \in DOMAIN fund \cap DOMAIN benchmark |->
                [fund |-> fund[x], benchmark |-> benchmark[x]]]
    BY <1>3 DEF ExcessReturns
  <1> HIDE DEF fund, benchmark, segments
  <1>6. /\ d \in DOMAIN benchmark /\ ExcessReturns(data, share)[d].benchmark = benchmark[d]
        /\ d \in DOMAIN fund /\ ExcessReturns(data, share)[d].fund = fund[d]
    BY <1>2, <1>5
  <1> QED BY <1>2, <1>4, <1>6 DEF Classified, benchmark, segments, fund

(* A fund's return joins two rows that have a value, and no row is between *)
(* them: the rows of a window are all those from its first day on.         *)
LEMMA FundReturnOf ==
    ASSUME NEW data \in World, NEW share \in Shares,
           NEW d \in DOMAIN AbsoluteReturns(data, share)
    PROVE  LET rows == data.nav[share]
               from == AbsoluteReturns(data, share)[d]
           IN  /\ from \in Nat /\ d \in Nat
               /\ {from, d} \subseteq DOMAIN rows
               /\ rows[from] = "AVAILABLE" /\ rows[d] = "AVAILABLE"
               /\ \A e \in (from + 1)..(d - 1) : e \notin DOMAIN rows
  <1> DEFINE rows == data.nav[share]
             window == Window(rows)
             level == [x \in window |-> NavIsAvailable(rows, x)]
             from == AbsoluteReturns(data, share)[d]
             After(x) == {e \in DOMAIN rows : e > x}
  <1>1. rows \in Rows /\ LastDay \in Nat
    BY InputsAssumption DEF World
  <1>2. /\ DOMAIN rows \in SUBSET (0..LastDay)
        /\ \A x \in DOMAIN rows : rows[x] \in Quality
    BY <1>1 DEF Rows, Days
  <1>3. AbsoluteReturns(data, share) = Returns(level)
    BY DEF AbsoluteReturns
  <1> HIDE DEF rows
  <1>4. window \subseteq DOMAIN rows /\ DOMAIN level \in SUBSET (0..LastDay)
    BY <1>2 DEF Window
  <1>5. \A x \in window : level[x] => NavIsAvailable(rows, x)
    OBVIOUS
  <1>6. /\ d \in window /\ level[d] /\ from \in window /\ level[from]
        /\ from < d /\ \A e \in window : e < d => e <= from
    <2> HIDE DEF window
    <2>1. DOMAIN level = window
      OBVIOUS
    <2> HIDE DEF level
    <2> QED BY <1>1, <1>3, <1>4, <2>1, ReturnOf
  <1>7. from \in Nat /\ d \in Nat /\ {from, d} \subseteq DOMAIN rows
    BY <1>2, <1>4, <1>6
  <1>8. ASSUME NEW x \in {from, d} PROVE rows[x] = "AVAILABLE"
    <2>1. x \in DOMAIN rows /\ NavIsAvailable(rows, x) /\ x <= x
      BY <1>5, <1>6, <1>7
    <2> QED BY <1>2, <2>1 DEF NavIsAvailable, Quality
  <1>9. ASSUME NEW e \in (from + 1)..(d - 1), e \in DOMAIN rows PROVE FALSE
    <2>1. e \in Nat /\ from < e /\ e < d
      BY <1>7
    <2>2. IsFiniteSet(After(from)) /\ After(e) \subseteq After(from)
      <3>1. IsFiniteSet(0..LastDay)
        BY <1>1, FS_Interval
      <3>2. After(from) \subseteq 0..LastDay
        BY <1>2
      <3>3. \A x \in 0..LastDay : x > e => x > from
        BY <1>1, <1>7, <2>1
      <3> QED BY <1>2, <3>1, <3>2, <3>3, FS_Subset
    <2>3. /\ Cardinality(After(e)) \in Nat /\ Cardinality(After(from)) \in Nat
          /\ Cardinality(After(e)) <= Cardinality(After(from))
      BY <2>2, FS_Subset, FS_CardinalityType
    <2>4. Cardinality(After(from)) <= Lookback /\ Lookback \in Nat
      BY <1>6, InputsAssumption DEF Window
    <2>5. Cardinality(After(e)) <= Lookback
      BY <2>3, <2>4
    <2>6. e \in window
      BY <1>9, <2>5 DEF Window
    <2> QED BY <1>6, <1>7, <2>1, <2>6
  <1> QED BY <1>7, <1>8, <1>9 DEF rows

LEMMA OneBenchmarkOfAnyWorld ==
    ASSUME NEW data \in World
    PROVE  ExcessKeepsToOneBenchmark(data)
  <1> SUFFICES ASSUME NEW s \in Basis(data, "EXCESS").members,
                      NEW d \in Basis(data, "EXCESS").dates
               PROVE  LET mapping == InForceOn(data, s)
                          from == ExcessReturns(data, s)[d].benchmark
                          start == ExcessReturns(data, s)[d].fund
                          Joins(rows, x, y) ==
                                /\ {x, y} \subseteq DOMAIN rows
                                /\ rows[x] = "AVAILABLE" /\ rows[y] = "AVAILABLE"
                                /\ \A e \in (x + 1)..(y - 1) : e \notin DOMAIN rows
                      IN  /\ mapping[d] # None
                          /\ \A e \in from..d : mapping[e] = mapping[d]
                          /\ \A i \in Components[data.mappings[mapping[d]].benchmark] :
                                Joins(data.index[i], from, d)
                          /\ Joins(data.nav[s], start, d)
    BY DEF ExcessKeepsToOneBenchmark
  <1> DEFINE mapping == InForceOn(data, s)
             from == ExcessReturns(data, s)[d].benchmark
             window == Window(data.nav[s])
             segments == WindowSegments(data, s)
             first == Min(window)
             last == Max(window)
  <1>1. s \in Classified(data) /\ s \in Shares /\ window # {}
    BY ExcessReturnOf DEF Classified
  <1>2. first \in Nat /\ last \in Nat /\ CoverOnce(segments, first, last + 1, mapping)
    BY <1>1, WindowIsRange, SegmentsOfWindow
  <1>3. PICK g \in segments : /\ d \in DOMAIN Returns(Levels(data, s, g))
                              /\ from = Returns(Levels(data, s, g))[d]
    BY ExcessReturnOf, BenchmarkReturnOf
  <1> DEFINE indexes == Components[data.mappings[g.mapping].benchmark]
             days == {e \in g.from..(g.to - 1) : \E i \in indexes : e \in DOMAIN data.index[i]}
             level == Levels(data, s, g)
  <1>4. /\ DOMAIN level = days
        /\ \A e \in days : level[e] =>
            \A i \in indexes : e \in DOMAIN data.index[i] /\ data.index[i][e] = "AVAILABLE"
    BY DEF Levels
  <1> HIDE DEF window, segments, first, last, mapping, from, level
  <1>5. g.from \in Nat /\ g.to \in Nat /\ first <= g.from /\ g.to <= last + 1
    BY <1>2 DEF CoverOnce
  <1>6. days \in SUBSET (0..g.to)
    BY <1>5
  <1>7. /\ d \in days /\ level[d] /\ from \in days /\ level[from]
        /\ from < d /\ \A e \in days : e < d => e <= from
    <2> HIDE DEF days
    <2> QED BY <1>3, <1>4, <1>5, <1>6, ReturnOf DEF level
  <1>8. ASSUME NEW e \in g.from..(g.to - 1)
        PROVE  mapping[e] = g.mapping /\ mapping[e] # None
    <2> DEFINE over == {h \in segments : h.from <= e /\ e < h.to}
    <2>1. e \in first..((last + 1) - 1) /\ g \in over
      BY <1>2, <1>5
    <2>2. IF mapping[e] = None THEN over = {}
          ELSE \E h \in over : over = {h} /\ h.mapping = mapping[e]
      BY <1>2, <2>1 DEF CoverOnce
    <2> HIDE DEF over
    <2> QED BY <2>1, <2>2
  <1>9. ASSUME NEW e \in from..d
        PROVE  e \in g.from..(g.to - 1)
    BY <1>5, <1>7
  <1>10. d \in from..d /\ mapping[d] = g.mapping /\ mapping[d] # None
    BY <1>5, <1>7, <1>8
  <1>11. ASSUME NEW i \in indexes
         PROVE  /\ {from, d} \subseteq DOMAIN data.index[i]
                /\ data.index[i][from] = "AVAILABLE" /\ data.index[i][d] = "AVAILABLE"
                /\ \A e \in (from + 1)..(d - 1) : e \notin DOMAIN data.index[i]
    <2>1. \A e \in {from, d} : e \in DOMAIN data.index[i] /\ data.index[i][e] = "AVAILABLE"
      <3> HIDE DEF days, indexes
      <3> QED BY <1>4, <1>7
    <2>2. ASSUME NEW e \in (from + 1)..(d - 1), e \in DOMAIN data.index[i] PROVE FALSE
      <3>1. from \in Nat /\ d \in Nat /\ e \in Nat /\ e \in from..d /\ from < e /\ e < d
        <4> HIDE DEF days
        <4>1. from \in Nat /\ d \in Nat
          BY <1>5, <1>6, <1>7
        <4> QED BY <4>1
      <3>2. e \in days
        <4>1. e \in g.from..(g.to - 1)
          BY <1>9, <3>1
        <4> HIDE DEF indexes
        <4> QED BY <2>2, <4>1
      <3> HIDE DEF days
      <3> QED BY <1>7, <3>1, <3>2
    <2> QED BY <2>1, <2>2
  <1> HIDE DEF indexes
  <1>12. \A e \in from..d : mapping[e] = mapping[d]
    BY <1>8, <1>9, <1>10
  <1>13. indexes = Components[data.mappings[mapping[d]].benchmark]
    BY <1>10 DEF indexes
  <1> QED BY <1>1, <1>10, <1>11, <1>12, <1>13, ExcessReturnOf, FundReturnOf DEF mapping, from

-----------------------------------------------------------------------------
(* Changes of the mapping *)

LEMMA SwitchesOfAnyWorld ==
    ASSUME NEW data \in World
    PROVE  SwitchesAreShown(data)
  <1> SUFFICES ASSUME NEW s \in Classified(data), NEW d \in DOMAIN InForceOn(data, s),
                      InForceOn(data, s)[d] # None,
                      NEW e \in DOMAIN InForceOn(data, s), e < d,
                      InForceOn(data, s)[e] # None,
                      InForceOn(data, s)[d - 1] # InForceOn(data, s)[d]
               PROVE  Shows(Basis(data, "EXCESS"), s, d)
    BY DEF SwitchesAreShown
  <1> DEFINE mapping == InForceOn(data, s)
             window == Window(data.nav[s])
             segments == WindowSegments(data, s)
             first == Min(window)
             last == Max(window)
             Over(x) == {g \in segments : g.from <= x /\ x < g.to}
  <1>1. s \in Shares /\ window # {} /\ d \in first..last /\ e \in first..last
    BY DEF Classified, InForceOn, WindowDays
  <1>2. first \in Nat /\ last \in Nat /\ CoverOnce(segments, first, last + 1, mapping)
    BY <1>1, WindowIsRange, SegmentsOfWindow
  <1> HIDE DEF window, segments, first, last, mapping
  <1>3. /\ d \in Nat /\ e \in Nat /\ d - 1 \in Nat
        /\ \A x \in {d, e, d - 1} : x \in first..((last + 1) - 1)
    BY <1>1, <1>2
  <1>4. ASSUME NEW x \in {d, e, d - 1}
        PROVE  IF mapping[x] = None THEN Over(x) = {}
               ELSE \E g \in Over(x) : Over(x) = {g} /\ g.mapping = mapping[x]
    BY <1>2, <1>3 DEF CoverOnce
  <1>5. \A g \in segments : g.from \in Nat /\ g.to \in Nat
    BY <1>2 DEF CoverOnce
  <1>6. PICK g \in Over(d) : g.mapping = mapping[d]
    BY <1>4 DEF mapping
  <1>7. PICK h \in Over(e) : TRUE
    BY <1>4 DEF mapping
  <1>8. g \notin Over(d - 1)
    <2>1. ASSUME g \in Over(d - 1) PROVE mapping[d - 1] = g.mapping
      <3> HIDE DEF Over
      <3> QED BY <1>4, <2>1
    <2> QED BY <1>6, <2>1 DEF mapping
  <1>9. g \in segments /\ g.from = d
    BY <1>3, <1>5, <1>6, <1>8
  <1>10. h \in segments /\ h.from < d
    BY <1>3, <1>5, <1>7
  <1> DEFINE starts == {x.from : x \in segments}
  <1>11. d \in starts /\ d # Min(starts)
    <2>1. d \in starts /\ h.from \in starts
      BY <1>9, <1>10
    <2>2. starts \in SUBSET Nat
      BY <1>5
    <2> HIDE DEF starts
    <2>3. \A y \in starts : Min(starts) <= y
      BY <2>1, <2>2, MinOfSet
    <2> QED BY <1>3, <1>5, <1>10, <2>1, <2>3
  <1>12. d \in SwitchDates(segments)
    BY <1>11 DEF SwitchDates
  <1>13. segments # {}
    BY <1>9
  <1>14. d \in Switches(data, "EXCESS")
    BY <1>1, <1>12, <1>13 DEF Switches, segments
  <1>15. d \in Basis(data, "EXCESS").dropped /\ Basis(data, "EXCESS").warned
    BY <1>14 DEF Basis, Sampled
  <1>16. ASSUME s \in Basis(data, "EXCESS").members, d \in Basis(data, "EXCESS").dates
         PROVE  FALSE
    <2>1. d \in DOMAIN BenchmarkReturns(data, s, segments)
      BY <1>16, ExcessReturnOf DEF segments
    <2> QED BY <1>12, <2>1, BenchmarkReturnOf
  <1> QED BY <1>15, <1>16 DEF Shows

-----------------------------------------------------------------------------
(* What may be found are worlds. *)
LEMMA FoundIsWorld == DataSpec => [](found \in World)
  <1>1. DataInit => found \in World
    BY WorldAssumption DEF DataInit
  <1>2. found \in World /\ [DataNext]_<<found, changes>> => (found \in World)'
    <2> SUFFICES ASSUME found \in World, [DataNext]_<<found, changes>>
                 PROVE  found' \in World
      OBVIOUS
    <2>1. PICK w \in World : w = found
      OBVIOUS
    <2>2. \A rows \in Rows : \A d \in DOMAIN rows :
            /\ Restrict(rows, DOMAIN rows \ {d}) \in Rows
            /\ [rows EXCEPT ![d] = "UNAVAILABLE"] \in Rows
      <3> SUFFICES ASSUME NEW rows \in Rows, NEW d \in DOMAIN rows
                   PROVE  /\ Restrict(rows, DOMAIN rows \ {d}) \in Rows
                          /\ [rows EXCEPT ![d] = "UNAVAILABLE"] \in Rows
        OBVIOUS
      <3>1. PICK days \in SUBSET Days : rows \in [days -> Quality]
        BY DEF Rows
      <3>2. Restrict(rows, days \ {d}) \in [days \ {d} -> Quality]
        BY <3>1 DEF Restrict
      <3>3. [rows EXCEPT ![d] = "UNAVAILABLE"] \in [days -> Quality]
        BY <3>1 DEF Quality
      <3> QED BY <3>1, <3>2, <3>3 DEF Rows
    <2>3. ASSUME NEW s \in Shares, NEW rows \in Rows
          PROVE  [w EXCEPT !.nav[s] = rows] \in World
      BY DEF World
    <2>4. ASSUME NEW i \in Indexes, NEW rows \in Rows
          PROVE  [w EXCEPT !.index[i] = rows] \in World
      BY DEF World
    <2>5. w.nav \in [Shares -> Rows] /\ w.index \in [Indexes -> Rows]
      BY DEF World
    <2>6. CASE LoseNav
      <3>0. PICK s \in Shares : \E d \in DOMAIN w.nav[s] :
                found' = [w EXCEPT !.nav[s] = Restrict(@, DOMAIN @ \ {d})]
        BY <2>1, <2>6 DEF LoseNav, Change
      <3>1. PICK d \in DOMAIN w.nav[s] :
                found' = [w EXCEPT !.nav[s] = Restrict(@, DOMAIN @ \ {d})]
        BY <3>0
      <3>2. w.nav[s] \in Rows
        BY <2>5
      <3>3. PICK rows \in Rows : rows = Restrict(w.nav[s], DOMAIN w.nav[s] \ {d})
        BY <2>2, <3>2
      <3> QED BY <2>3, <3>1, <3>3
    <2>7. CASE SpoilNav
      <3>0. PICK s \in Shares : \E d \in DOMAIN w.nav[s] :
                found' = [w EXCEPT !.nav[s] = [@ EXCEPT ![d] = "UNAVAILABLE"]]
        BY <2>1, <2>7 DEF SpoilNav, Change
      <3>1. PICK d \in DOMAIN w.nav[s] :
                found' = [w EXCEPT !.nav[s] = [@ EXCEPT ![d] = "UNAVAILABLE"]]
        BY <3>0
      <3>2. w.nav[s] \in Rows
        BY <2>5
      <3>3. PICK rows \in Rows : rows = [w.nav[s] EXCEPT ![d] = "UNAVAILABLE"]
        BY <2>2, <3>2
      <3> QED BY <2>3, <3>1, <3>3
    <2>8. CASE LoseIndex
      <3>0. PICK i \in Indexes : \E d \in DOMAIN w.index[i] :
                found' = [w EXCEPT !.index[i] = Restrict(@, DOMAIN @ \ {d})]
        BY <2>1, <2>8 DEF LoseIndex, Change
      <3>1. PICK d \in DOMAIN w.index[i] :
                found' = [w EXCEPT !.index[i] = Restrict(@, DOMAIN @ \ {d})]
        BY <3>0
      <3>2. w.index[i] \in Rows
        BY <2>5
      <3>3. PICK rows \in Rows : rows = Restrict(w.index[i], DOMAIN w.index[i] \ {d})
        BY <2>2, <3>2
      <3> QED BY <2>4, <3>1, <3>3
    <2>9. CASE SpoilIndex
      <3>0. PICK i \in Indexes : \E d \in DOMAIN w.index[i] :
                found' = [w EXCEPT !.index[i] = [@ EXCEPT ![d] = "UNAVAILABLE"]]
        BY <2>1, <2>9 DEF SpoilIndex, Change
      <3>1. PICK d \in DOMAIN w.index[i] :
                found' = [w EXCEPT !.index[i] = [@ EXCEPT ![d] = "UNAVAILABLE"]]
        BY <3>0
      <3>2. w.index[i] \in Rows
        BY <2>5
      <3>3. PICK rows \in Rows : rows = [w.index[i] EXCEPT ![d] = "UNAVAILABLE"]
        BY <2>2, <3>2
      <3> QED BY <2>4, <3>1, <3>3
    <2>10. CASE Unclassify
      <3>1. PICK s \in Shares : found' = [w EXCEPT !.class[s] = None]
        BY <2>1, <2>10 DEF Unclassify, Change
      <3> QED BY <3>1 DEF World
    <2>11. CASE AddMapping
      <3>1. PICK row \in Mapping : found' = [w EXCEPT !.mappings = Append(@, row)]
        <4>1. PICK benchmark \in Benchmarks, from \in Days, to \in Days \cup {None},
                   at \in {1, LastDay + 1} :
                \E row \in [share : Shares, class : {None}, benchmark : {benchmark},
                            from : {from}, to : {to}, at : {at}]
                           \cup [share : {None}, class : Classes, benchmark : {benchmark},
                                 from : {from}, to : {to}, at : {at}] :
                    /\ to # None => from < to
                    /\ Change([found EXCEPT !.mappings = Append(@, row)])
          BY <2>11 DEF AddMapping
        <4>2. PICK row \in [share : Shares, class : {None}, benchmark : {benchmark},
                            from : {from}, to : {to}, at : {at}]
                           \cup [share : {None}, class : Classes, benchmark : {benchmark},
                                 from : {from}, to : {to}, at : {at}] :
                    found' = [w EXCEPT !.mappings = Append(@, row)]
          BY <2>1, <4>1 DEF Change
        <4>3. at \in Int
          BY InputsAssumption
        <4>4. row \in Mapping
          BY <4>3 DEF Mapping
        <4> QED BY <4>2, <4>4
      <3>2. w.mappings \in Seq(Mapping)
        BY DEF World
      <3>3. PICK rows \in Seq(Mapping) : rows = Append(w.mappings, row)
        <4>1. Append(w.mappings, row) \in Seq(Mapping)
          BY <3>1, <3>2
        <4> QED BY <4>1
      <3>4. found' = [w EXCEPT !.mappings = rows]
        BY <3>1, <3>3
      <3> QED BY <3>4 DEF World
    <2>12. CASE EndMapping
      <3>1. PICK k \in DOMAIN w.mappings, to \in Days :
                found' = [w EXCEPT !.mappings[k].to = to]
        BY <2>1, <2>12 DEF EndMapping, Change
      <3>2. w.mappings \in Seq(Mapping) /\ w.mappings[k] \in Mapping
        BY <3>1 DEF World
      <3>3. PICK row \in Mapping : row = [w.mappings[k] EXCEPT !.to = to]
        BY <3>1, <3>2 DEF Mapping
      <3>4. PICK rows \in Seq(Mapping) : rows = [w.mappings EXCEPT ![k] = row]
        <4>1. PICK seq : seq = w.mappings /\ seq \in Seq(Mapping) /\ k \in DOMAIN seq
          BY <3>1, <3>2
        <4>2. [seq EXCEPT ![k] = row] \in Seq(Mapping)
          BY <4>1
        <4> QED BY <4>1, <4>2
      <3>5. found' = [w EXCEPT !.mappings = rows]
        BY <3>1, <3>3, <3>4
      <3> QED BY <3>5 DEF World
    <2>13. CASE UNCHANGED <<found, changes>>
      BY <2>13
    <2> QED BY <2>6, <2>7, <2>8, <2>9, <2>10, <2>11, <2>12, <2>13 DEF DataNext
  <1> QED BY <1>1, <1>2, PTL DEF DataSpec

(* For all data: the segments of a window and the look-up of a day choose  *)
(* the same benchmark mapping, and no two segments overlap.                *)
THEOREM SegmentsAlwaysAgree == DataSpec => []SegmentsAreResolutions
  <1>1. found \in World => SegmentsAreResolutions
    BY SegmentsOfAnyWorld DEF SegmentsAreResolutions
  <1> QED BY <1>1, FoundIsWorld, PTL

(* For all data: an excess return compares with one benchmark, in force on *)
(* every day from the one its benchmark return is measured from; and each  *)
(* of its two returns joins two values with no stored row between them.    *)
THEOREM AlwaysOneBenchmark == DataSpec => []OneBenchmark
  <1>1. found \in World => OneBenchmark
    BY OneBenchmarkOfAnyWorld DEF OneBenchmark
  <1> QED BY <1>1, FoundIsWorld, PTL

(* For all data: each day on which the mapping in force changes inside a   *)
(* fund's window is listed among the dropped dates and warned of, and is   *)
(* in no sample that the fund is in.                                       *)
THEOREM SwitchesAlwaysShow == DataSpec => []SwitchesShow
  <1>1. found \in World => SwitchesShow
    BY SwitchesOfAnyWorld DEF SwitchesShow
  <1> QED BY <1>1, FoundIsWorld, PTL

=============================================================================
