---------------------------- MODULE NavPit_proofs ----------------------------
(***************************************************************************)
(* Theorems about NavPit, for any number of workers, values, days, event   *)
(* days, versions and batches, and for all lags that LagAssumption allows. *)
(***************************************************************************)
EXTENDS NavPit, FiniteSetTheorems, WellFoundedInduction, TLAPS

-----------------------------------------------------------------------------
(* The least and the greatest element of a set of numbers: the initial     *)
(* segments of the numbers are ordered by inclusion.                       *)

LEMMA MinOfSet ==
    ASSUME NEW S \in SUBSET Nat, S # {}
    PROVE  Min(S) \in S /\ \A y \in S : Min(S) <= y
  <1> DEFINE T == {0..s : s \in S}
  <1>1. T \subseteq FiniteSubsetsOf(Nat)
    <2>1. \A s \in S : 0..s \in SUBSET Nat /\ IsFiniteSet(0..s)
      BY FS_Interval
    <2> QED BY <2>1 DEF FiniteSubsetsOf
  <1>2. T # {}
    OBVIOUS
  <1>3. IsWellFoundedOn(StrictSubsetOrdering(Nat), FiniteSubsetsOf(Nat))
    BY FS_StrictSubsetOrderingWellFounded
  <1>4. PICK x \in T : \A y \in T : <<y, x>> \notin StrictSubsetOrdering(Nat)
    <2> HIDE DEF T
    <2> QED BY <1>1, <1>2, <1>3, WFMin
  <1>5. PICK s \in S : x = 0..s
    OBVIOUS
  <1>6. \A y \in S : s <= y
    <2> SUFFICES ASSUME NEW y \in S, y < s PROVE FALSE
      OBVIOUS
    <2>1. 0..y \subseteq 0..s /\ 0..y # 0..s
      <3>1. s \in 0..s /\ s \notin 0..y
        OBVIOUS
      <3> QED BY <3>1
    <2>2. <<0..y, 0..s>> \in StrictSubsetOrdering(Nat)
      BY <2>1 DEF StrictSubsetOrdering
    <2> QED BY <2>2, <1>4, <1>5
  <1> QED BY <1>6 DEF Min

LEMMA MaxOfSet ==
    ASSUME NEW n \in Nat, NEW S \in SUBSET (0..n), S # {}
    PROVE  Max(S) \in S /\ \A y \in S : y <= Max(S)
  <1> DEFINE T == {n - s : s \in S}
  <1>1. T \in SUBSET Nat /\ T # {}
    <2>1. \A s \in S : n - s \in Nat
      OBVIOUS
    <2>2. PICK s \in S : TRUE
      OBVIOUS
    <2>3. n - s \in T
      BY <2>2
    <2> QED BY <2>1, <2>3
  <1>2. Min(T) \in T /\ \A y \in T : Min(T) <= y
    <2> HIDE DEF T
    <2> QED BY <1>1, MinOfSet
  <1>3. PICK s \in S : Min(T) = n - s
    BY <1>2
  <1>4. \A y \in S : y <= s
    <2> TAKE y \in S
    <2>1. n - s <= n - y
      BY <1>2, <1>3
    <2>2. n \in Int /\ s \in Int /\ y \in Int
      OBVIOUS
    <2> HIDE DEF T
    <2> QED BY <2>1, <2>2
  <1> QED BY <1>4 DEF Max

-----------------------------------------------------------------------------
(* Types *)

NavRow == [value : Values, at : Nat, adjusted : AdjustedValues \cup {None}]
EventRow == [value : (SUBSET Inputs) \ {{}}, at : Nat]
NavTable == [Days -> Seq(NavRow)]
EventTable == [Days -> Seq(EventRow)]
Said == [nav : [Days -> Values \cup {None}],
         event : [Days -> ((SUBSET Inputs) \ {{}}) \cup {None}]]
Batch == [stage : {"priced", "fetched", "rebuilt"}, day : Days,
          nav : NavTable, event : EventTable, reported : Said]

TypeInv ==
    /\ today \in Days
    /\ nav \in NavTable
    /\ event \in EventTable
    /\ tx \in [Workers -> Batch \cup {None}]
    /\ batches \in 0..MaxBatches
    /\ checked \in Days \cup {None}
    /\ reported \in Said

(* A day is a number. *)
LEMMA DaysAreNumbers == Days \subseteq Nat
  BY BoundsAssumption DEF Days

(* The sets of rows and batches imply the type invariant of NavPit. *)
LEMMA TypeInvTypeOK == TypeInv => TypeOK
  <1> SUFFICES ASSUME TypeInv PROVE TypeOK
    OBVIOUS
  <1> USE DEF TypeInv
  <1>1. ASSUME NEW d \in Days, NEW v \in DOMAIN nav[d]
        PROVE  nav[d][v] \in NavRow
    BY <1>1 DEF NavTable
  <1>2. ASSUME NEW d \in Days, NEW v \in DOMAIN event[d]
        PROVE  event[d][v] \in EventRow
    BY <1>2 DEF EventTable
  <1>3. \A w \in Workers : Stage(w) \in {"idle", "priced", "fetched", "rebuilt"}
    BY DEF Stage, Batch
  <1>4. \A d \in Days : \A v \in DOMAIN nav[d] :
            /\ nav[d][v].value \in Values
            /\ nav[d][v].at \in Nat
            /\ nav[d][v].adjusted # None => nav[d][v].adjusted \in AdjustedValues
    BY <1>1 DEF NavRow
  <1>5. \A d \in Days : \A v \in DOMAIN event[d] :
            event[d][v].value \in (SUBSET Inputs) \ {{}}
    BY <1>2 DEF EventRow
  <1> QED BY <1>3, <1>4, <1>5 DEF TypeOK

-----------------------------------------------------------------------------
(* Reading: what is resolved are values of stored rows. *)

(* If any version is available, the current one is. *)
LEMMA CurrentVersionIsVisible ==
    ASSUME NEW S, NEW rows \in Seq(S), NEW time, VisibleVersions(rows, time) # {}
    PROVE  CurrentVersion(rows, time) \in VisibleVersions(rows, time)
  <1>1. VisibleVersions(rows, time) \in SUBSET (0..Len(rows)) /\ Len(rows) \in Nat
    BY DEF VisibleVersions
  <1> QED BY <1>1, MaxOfSet DEF CurrentVersion

(* Only days are resolved, and to values. *)
LEMMA ResolvedNavs ==
    ASSUME NEW navs \in NavTable, NEW time
    PROVE  /\ DOMAIN Resolve(navs, time) \subseteq Days
           /\ \A d \in DOMAIN Resolve(navs, time) : Resolve(navs, time)[d] \in Values
  <1>1. ASSUME NEW d \in Days, VisibleVersions(navs[d], time) # {}
        PROVE  navs[d][CurrentVersion(navs[d], time)].value \in Values
    <2>1. CurrentVersion(navs[d], time) \in VisibleVersions(navs[d], time)
      BY <1>1, CurrentVersionIsVisible DEF NavTable
    <2>2. CurrentVersion(navs[d], time) \in DOMAIN navs[d]
      BY <2>1 DEF VisibleVersions
    <2>3. navs[d][CurrentVersion(navs[d], time)] \in NavRow
      BY <2>2 DEF NavTable
    <2> QED BY <2>3 DEF NavRow
  <1> QED BY <1>1 DEF Resolve

(* Only days are resolved, and to sets of inputs. *)
LEMMA ResolvedEvents ==
    ASSUME NEW events \in EventTable, NEW time
    PROVE  /\ DOMAIN Resolve(events, time) \subseteq Days
           /\ \A d \in DOMAIN Resolve(events, time) :
                Resolve(events, time)[d] \in SUBSET Inputs
  <1>1. ASSUME NEW d \in Days, VisibleVersions(events[d], time) # {}
        PROVE  events[d][CurrentVersion(events[d], time)].value \in SUBSET Inputs
    <2>1. CurrentVersion(events[d], time) \in VisibleVersions(events[d], time)
      BY <1>1, CurrentVersionIsVisible DEF EventTable
    <2>2. CurrentVersion(events[d], time) \in DOMAIN events[d]
      BY <2>1 DEF VisibleVersions
    <2>3. events[d][CurrentVersion(events[d], time)] \in EventRow
      BY <2>2 DEF EventTable
    <2> QED BY <2>3 DEF EventRow
  <1> QED BY <1>1 DEF Resolve

(* A value that can be computed, of a day that has one, is well formed. *)
LEMMA AdjustedOfSeries ==
    ASSUME NEW navs, DOMAIN navs \subseteq Days, \A d \in DOMAIN navs : navs[d] \in Values,
           NEW events, DOMAIN events \subseteq Days,
           \A d \in DOMAIN events : events[d] \in SUBSET Inputs,
           Computable(navs, events), NEW day \in DOMAIN navs
    PROVE  Adjusted(navs, events, day) \in AdjustedValues
  <1>1. DOMAIN events \subseteq DOMAIN navs
    BY DEF Computable
  <1>2. \A e \in {x \in DOMAIN events : x <= day} :
            <<e, navs[e], events[e]>> \in Days \X Values \X (SUBSET Inputs)
    BY <1>1
  <1> QED BY <1>2 DEF Adjusted, AdjustedValues

LEMMA AdjustedType ==
    ASSUME NEW navs \in NavTable, NEW events \in EventTable, NEW time,
           NEW d \in DOMAIN Resolve(navs, time),
           Computable(Resolve(navs, time), Resolve(events, time))
    PROVE  Adjusted(Resolve(navs, time), Resolve(events, time), d) \in AdjustedValues
  BY ResolvedNavs, ResolvedEvents, AdjustedOfSeries

-----------------------------------------------------------------------------
(* Storing a fetched row *)

(* No value is stored twice in a row. *)
Differ(rows) == \A v \in DOMAIN rows \ {1} : rows[v].value # rows[v - 1].value

(* A revision keeps the versions, ends with the row's value and repeats    *)
(* no version's value right after it.                                      *)
LEMMA RevisedRows ==
    ASSUME NEW S, NEW rows \in Seq(S), NEW row \in S
    PROVE  /\ Revise(rows, row) \in Seq(S)
           /\ Revise(rows, row) # <<>>
           /\ \A v \in DOMAIN rows :
                v \in DOMAIN Revise(rows, row) /\ Revise(rows, row)[v] = rows[v]
           /\ Latest(Revise(rows, row)).value = row.value
           /\ Differ(rows) => Differ(Revise(rows, row))
  <1>1. CASE rows # <<>> /\ Latest(rows).value = row.value
    BY <1>1 DEF Revise
  <1>2. CASE ~(rows # <<>> /\ Latest(rows).value = row.value)
    <2> DEFINE new == Append(rows, row)
    <2>1. Revise(rows, row) = new
      BY <1>2 DEF Revise
    <2>2. /\ new \in Seq(S) /\ new # <<>>
          /\ Len(rows) \in Nat /\ Len(new) = Len(rows) + 1
          /\ DOMAIN rows = 1..Len(rows) /\ DOMAIN new = 1..(Len(rows) + 1)
          /\ new[Len(rows) + 1] = row
          /\ \A v \in 1..Len(rows) : new[v] = rows[v]
      OBVIOUS
    <2> HIDE DEF new
    <2>3. Latest(new) = row
      BY <2>2 DEF Latest
    <2>4. rows # <<>> => Latest(rows) = rows[Len(rows)] /\ row.value # rows[Len(rows)].value
      BY <1>2 DEF Latest
    <2>5. ASSUME Differ(rows), NEW v \in DOMAIN new \ {1}
          PROVE  new[v].value # new[v - 1].value
      <3>1. CASE v \in DOMAIN rows
        BY <2>2, <2>5, <3>1 DEF Differ
      <3>2. CASE v = Len(rows) + 1
        <4>1. rows # <<>> /\ v - 1 = Len(rows) /\ v - 1 \in 1..Len(rows)
          BY <2>2, <2>5, <3>2
        <4> QED BY <2>2, <2>4, <3>2, <4>1
      <3> QED BY <2>2, <3>1, <3>2
    <2> QED BY <2>1, <2>2, <2>3, <2>5 DEF Differ
  <1> QED BY <1>1, <1>2

(* Storing a frame keeps the table's type and its rows. *)
LEMMA IngestedTable ==
    ASSUME NEW S, NEW table \in [Days -> Seq(S)], NEW rows,
           \A d \in DOMAIN rows \cap Days : rows[d] \in S
    PROVE  /\ Ingest(table, rows) \in [Days -> Seq(S)]
           /\ Kept(table, Ingest(table, rows))
  <1>1. ASSUME NEW d \in Days
        PROVE  /\ Ingest(table, rows)[d] \in Seq(S)
               /\ \A v \in DOMAIN table[d] :
                    /\ v \in DOMAIN Ingest(table, rows)[d]
                    /\ Ingest(table, rows)[d][v] = table[d][v]
    <2>1. CASE d \in DOMAIN rows
      <3>1. table[d] \in Seq(S) /\ rows[d] \in S
        BY <2>1
      <3>2. Ingest(table, rows)[d] = Revise(table[d], rows[d])
        BY <2>1 DEF Ingest
      <3> QED BY <3>1, <3>2, RevisedRows
    <2>2. CASE d \notin DOMAIN rows
      BY <2>2 DEF Ingest
    <2> QED BY <2>1, <2>2
  <1>2. Ingest(table, rows) \in [Days -> Seq(S)]
    BY <1>1 DEF Ingest
  <1> QED BY <1>1, <1>2 DEF Kept

(* Storing a frame keeps the last word of the provider the last version. *)
LEMMA IngestedIsHeard ==
    ASSUME NEW S, NEW table \in [Days -> Seq(S)], NEW rows, NEW said, NEW frame,
           \A d \in DOMAIN rows \cap Days : rows[d] \in S /\ rows[d].value = frame[d],
           DOMAIN frame = DOMAIN rows,
           Revised(table, said)
    PROVE  Revised(Ingest(table, rows), Heard(said, frame))
  <1> DEFINE new == Ingest(table, rows)
  <1>1. ASSUME NEW d \in Days
        PROVE  /\ \A v \in DOMAIN new[d] \ {1} : new[d][v].value # new[d][v - 1].value
               /\ Heard(said, frame)[d] = IF new[d] = <<>> THEN None ELSE Latest(new[d]).value
    <2>1. CASE d \in DOMAIN rows
      <3>1. PICK old \in Seq(S) : old = table[d]
        OBVIOUS
      <3>2. PICK row \in S : row = rows[d]
        BY <2>1
      <3>3. new[d] = Revise(old, row) /\ Heard(said, frame)[d] = row.value
        BY <2>1, <3>1, <3>2 DEF Ingest, Heard
      <3>4. Differ(old)
        BY <3>1 DEF Revised, Differ
      <3>5. Revise(old, row) # <<>> /\ Latest(Revise(old, row)).value = row.value
        BY RevisedRows
      <3>6. Differ(Revise(old, row))
        BY <3>4, RevisedRows
      <3> HIDE DEF new
      <3> QED BY <3>3, <3>5, <3>6 DEF Differ
    <2>2. CASE d \notin DOMAIN rows
      <3>1. new[d] = table[d] /\ Heard(said, frame)[d] = said[d]
        BY <2>2 DEF Ingest, Heard
      <3> HIDE DEF new
      <3> QED BY <3>1 DEF Revised
    <2> QED BY <2>1, <2>2
  <1> HIDE DEF new
  <1>2. Revised(new, Heard(said, frame))
    BY <1>1 DEF Revised
  <1> QED BY <1>2 DEF new

(* The rows that are made of an answer of the provider are well formed. *)
LEMMA FetchedNavs ==
    ASSUME today \in Days, NEW frame \in NavFrames
    PROVE  /\ DOMAIN frame \subseteq Days
           /\ \A d \in DOMAIN frame : frame[d] \in Values
           /\ DOMAIN NavRows(frame) = DOMAIN frame
           /\ \A d \in DOMAIN frame :
                NavRows(frame)[d] \in NavRow /\ NavRows(frame)[d].value = frame[d]
  <1>1. PICK days \in SUBSET (0..today) : frame \in [days -> Values]
    BY DEF NavFrames
  <1>2. DOMAIN frame = days /\ \A d \in days : frame[d] \in Values
    BY <1>1
  <1>3. days \subseteq Days /\ \A d \in days : d \in Nat /\ d + NavLag \in Nat
    BY BoundsAssumption, LagAssumption DEF Days
  <1> QED BY <1>2, <1>3 DEF NavRows, NavRow

(* So are those of its events, which have at least one input each. *)
LEMMA FetchedEvents ==
    ASSUME NEW frame \in EventFrames
    PROVE  /\ DOMAIN frame \subseteq Days
           /\ \A d \in DOMAIN frame : frame[d] \in (SUBSET Inputs) \ {{}}
           /\ DOMAIN EventRows(frame) = DOMAIN frame
           /\ \A d \in DOMAIN frame :
                EventRows(frame)[d] \in EventRow /\ EventRows(frame)[d].value = frame[d]
  <1>1. PICK days \in SUBSET EventDays : frame \in [days -> (SUBSET Inputs) \ {{}}]
    BY DEF EventFrames
  <1>2. DOMAIN frame = days /\ \A d \in days : frame[d] \in (SUBSET Inputs) \ {{}}
    BY <1>1
  <1>3. days \subseteq Days
    BY BoundsAssumption
  <1>4. ASSUME NEW d \in days
        PROVE  Max({d + Lag[i] : i \in frame[d]}) \in Nat
    <2> DEFINE ats == {d + Lag[i] : i \in frame[d]}
    <2>1. d \in Nat /\ DividendLag \in Nat /\ SplitLag \in Nat
      BY <1>3, DaysAreNumbers, LagAssumption
    <2>2. frame[d] # {} /\ frame[d] \subseteq {"dividend", "split"}
      <3>1. frame[d] \in (SUBSET Inputs) \ {{}}
        BY <1>2
      <3> QED BY <3>1 DEF Inputs
    <2>3. \A i \in frame[d] : d + Lag[i] \in 0..(d + DividendLag + SplitLag)
      BY <2>1, <2>2 DEF Lag
    <2>4. ats \in SUBSET (0..(d + DividendLag + SplitLag)) /\ ats # {}
      BY <2>2, <2>3
    <2>5. d + DividendLag + SplitLag \in Nat
      BY <2>1
    <2> HIDE DEF ats
    <2>6. Max(ats) \in ats
      BY <2>4, <2>5, MaxOfSet
    <2> QED BY <2>4, <2>5, <2>6 DEF ats
  <1> QED BY <1>2, <1>3, <1>4 DEF EventRows, EventRow

-----------------------------------------------------------------------------
(* Rebuilding the column *)

(* A version is stamped at a checkpoint at which it is the current one. *)
LEMMA StampIsReign ==
    ASSUME NEW navs \in NavTable, NEW events, NEW time \in Nat,
           NEW s \in Stamps(navs, events, time)
    PROVE  /\ s.day \in Days
           /\ s.version \in DOMAIN navs[s.day]
           /\ s.day \in DOMAIN Resolve(navs, s.at)
  <1> DEFINE C == Checkpoints(navs, events, time)
             R(d, v) == Reign(navs[d], v, C)
  <1>1. C \in SUBSET Nat
    BY DEF Checkpoints
  <1> HIDE DEF C
  <1>2. PICK d \in Days : \E v \in DOMAIN navs[d] :
            R(d, v) # {} /\ s = [day |-> d, version |-> v, at |-> Min(R(d, v))]
    BY DEF Stamps, C
  <1>3. PICK v \in DOMAIN navs[d] :
            R(d, v) # {} /\ s = [day |-> d, version |-> v, at |-> Min(R(d, v))]
    BY <1>2
  <1>4. R(d, v) \in SUBSET Nat
    BY <1>1 DEF Reign
  <1>5. Min(R(d, v)) \in R(d, v)
    <2> HIDE DEF R
    <2> QED BY <1>3, <1>4, MinOfSet
  <1>6. CurrentVersion(navs[d], s.at) = v
    BY <1>3, <1>5 DEF Reign
  <1>7. v # 0
    BY DEF NavTable
  <1>8. VisibleVersions(navs[d], s.at) # {}
    BY <1>6, <1>7 DEF CurrentVersion
  <1> QED BY <1>3, <1>8 DEF Resolve

(* Rebuilding changes only the column, and what it fills in is well formed *)
(* unless the batch is broken.                                             *)
LEMMA RebuiltTable ==
    ASSUME NEW navs \in NavTable, NEW events \in EventTable, NEW time \in Nat,
           ~Broken(navs, events, time)
    PROVE  /\ Rebuilt(navs, events, time) \in NavTable
           /\ \A d \in Days :
                /\ DOMAIN Rebuilt(navs, events, time)[d] = DOMAIN navs[d]
                /\ Len(Rebuilt(navs, events, time)[d]) = Len(navs[d])
                /\ \A v \in DOMAIN navs[d] :
                    /\ Rebuilt(navs, events, time)[d][v].value = navs[d][v].value
                    /\ Rebuilt(navs, events, time)[d][v].at = navs[d][v].at
  <1> DEFINE new == Rebuilt(navs, events, time)
             Own(d, v) == {s \in Stamps(navs, events, time) : s.day = d /\ s.version = v}
             Value(d, at) == Adjusted(Resolve(navs, at), Resolve(events, at), d)
  <1>1. ASSUME NEW d \in Days, NEW v \in DOMAIN navs[d], Own(d, v) # {},
               NEW s \in Own(d, v)
        PROVE  Value(d, s.at) \in AdjustedValues
    <2>1. s \in Stamps(navs, events, time) /\ s.day = d
      OBVIOUS
    <2>2. Computable(Resolve(navs, s.at), Resolve(events, s.at))
      BY <2>1 DEF Broken
    <2>3. d \in DOMAIN Resolve(navs, s.at)
      BY <2>1, StampIsReign
    <2> QED BY <2>2, <2>3, AdjustedType
  <1>2. ASSUME NEW d \in Days, NEW v \in DOMAIN navs[d]
        PROVE  /\ new[d][v] \in NavRow
               /\ new[d][v].value = navs[d][v].value
               /\ new[d][v].at = navs[d][v].at
    <2>1. navs[d][v] \in NavRow
      BY DEF NavTable
    <2>2. CASE Own(d, v) = {}
      <3>1. new[d][v] = navs[d][v]
        BY <2>2 DEF Rebuilt
      <3> QED BY <2>1, <3>1
    <2>3. CASE Own(d, v) # {}
      <3> DEFINE s == CHOOSE x \in Own(d, v) : TRUE
      <3>1. s \in Own(d, v)
        BY <2>3
      <3>2. new[d][v] = [navs[d][v] EXCEPT !.adjusted = Value(d, s.at)]
        BY <2>3 DEF Rebuilt
      <3>3. Value(d, s.at) \in AdjustedValues
        <4> HIDE DEF s, Own, Value
        <4> QED BY <1>1, <2>3, <3>1
      <3> HIDE DEF new, s, Own, Value
      <3> QED BY <2>1, <3>2, <3>3 DEF NavRow
    <2> QED BY <2>2, <2>3
  <1>3. ASSUME NEW d \in Days
        PROVE  new[d] \in Seq(NavRow) /\ DOMAIN new[d] = DOMAIN navs[d]
               /\ Len(new[d]) = Len(navs[d])
    <2>1. DOMAIN navs[d] = 1..Len(navs[d]) /\ Len(navs[d]) \in Nat
      BY DEF NavTable
    <2>2. new[d] = [v \in DOMAIN navs[d] |-> new[d][v]]
      BY DEF Rebuilt
    <2> HIDE DEF new
    <2>3. new[d] \in [1..Len(navs[d]) -> NavRow]
      BY <1>2, <2>1, <2>2
    <2> QED BY <2>1, <2>3
  <1>4. new = [d \in Days |-> new[d]]
    BY DEF Rebuilt
  <1> HIDE DEF new
  <1>5. new \in NavTable
    BY <1>3, <1>4 DEF NavTable
  <1> QED BY <1>2, <1>3, <1>5 DEF new

(* Rebuilding makes no revision. *)
LEMMA RebuiltIsRevised ==
    ASSUME NEW navs \in NavTable, NEW events \in EventTable, NEW time \in Nat,
           NEW said, ~Broken(navs, events, time), Revised(navs, said)
    PROVE  Revised(Rebuilt(navs, events, time), said)
  <1> DEFINE new == Rebuilt(navs, events, time)
  <1>1. ASSUME NEW d \in Days
        PROVE  /\ new[d] \in Seq(NavRow) /\ navs[d] \in Seq(NavRow)
               /\ DOMAIN new[d] = DOMAIN navs[d] /\ Len(new[d]) = Len(navs[d])
               /\ \A v \in DOMAIN navs[d] : new[d][v].value = navs[d][v].value
    BY RebuiltTable DEF NavTable
  <1> HIDE DEF new
  <1>2. ASSUME NEW d \in Days
        PROVE  /\ \A v \in DOMAIN new[d] \ {1} : new[d][v].value # new[d][v - 1].value
               /\ said[d] = IF new[d] = <<>> THEN None ELSE Latest(new[d]).value
    <2>1. PICK a \in Seq(NavRow) : a = new[d]
      BY <1>1
    <2>2. PICK b \in Seq(NavRow) : b = navs[d]
      BY <1>1
    <2>3. DOMAIN a = DOMAIN b /\ Len(a) = Len(b) /\ \A v \in DOMAIN b : a[v].value = b[v].value
      BY <1>1, <2>1, <2>2
    <2>4. \A v \in DOMAIN b \ {1} : b[v].value # b[v - 1].value
      BY <2>2 DEF Revised
    <2>5. said[d] = IF b = <<>> THEN None ELSE b[Len(b)].value
      BY <2>2 DEF Revised, Latest
    <2>6. \A v \in DOMAIN a \ {1} : a[v].value # a[v - 1].value
      BY <2>3, <2>4
    <2>7. said[d] = IF a = <<>> THEN None ELSE a[Len(a)].value
      BY <2>3, <2>5
    <2> QED BY <2>1, <2>6, <2>7 DEF Latest
  <1>3. Revised(new, said)
    BY <1>2 DEF Revised
  <1> QED BY <1>3 DEF new

(* What is kept twice is kept. *)
LEMMA KeptIsTransitive ==
    ASSUME NEW a, NEW b, NEW c, Kept(a, b), Kept(b, c)
    PROVE  Kept(a, c)
  BY DEF Kept

-----------------------------------------------------------------------------
(* The inductive invariant.  What a batch will commit extends what is      *)
(* stored when it began, and that is what is stored when it commits: the   *)
(* lock leaves room for one batch at a time.                               *)

Pending(b) ==
    /\ Kept(nav, b.nav) /\ Kept(event, b.event)
    /\ Revised(b.nav, b.reported.nav) /\ Revised(b.event, b.reported.event)

TxInv ==
    \A w \in Workers : tx[w] # None =>
        /\ batches < MaxBatches
        /\ \A u \in Workers \ {w} : tx[u] = None
        /\ Pending(tx[w])

IInv == TypeInv /\ TxInv /\ VersionsAreRevisions

(* The invariant holds of empty tables. *)
LEMMA InitIInv == Init => IInv
  <1> SUFFICES ASSUME Init PROVE IInv
    OBVIOUS
  <1> USE DEF Init
  <1>1. TypeInv
    <2>1. 0 \in Days /\ batches \in 0..MaxBatches
      BY BoundsAssumption DEF Days
    <2>2. NoRows \in NavTable /\ NoRows \in EventTable
      BY DEF NoRows, NavTable, EventTable
    <2>3. reported \in Said
      BY DEF Said
    <2> QED BY <2>1, <2>2, <2>3 DEF TypeInv
  <1>2. TxInv
    BY DEF TxInv
  <1>3. VersionsAreRevisions
    <2>1. \A d \in Days : nav[d] = <<>> /\ event[d] = <<>>
      BY DEF NoRows
    <2>2. \A d \in Days : DOMAIN nav[d] = {} /\ DOMAIN event[d] = {}
      BY <2>1
    <2> QED BY <2>1, <2>2 DEF VersionsAreRevisions, Revised
  <1> QED BY <1>1, <1>2, <1>3 DEF IInv

(* A batch that has begun is the only one. *)
LEMMA OneBatch ==
    ASSUME TypeInv, TxInv, NEW w \in Workers, Stage(w) # "idle"
    PROVE  /\ tx[w] \in Batch /\ tx[w] # None
           /\ tx[w].stage = Stage(w)
           /\ batches < MaxBatches
           /\ \A u \in Workers \ {w} : tx[u] = None
           /\ Pending(tx[w])
  BY DEF Stage, TypeInv, TxInv

(* The lock is free only if there is no batch. *)
LEMMA NoBatch ==
    ASSUME TypeInv, Unlocked
    PROVE  \A w \in Workers : tx[w] = None
  BY DEF Unlocked, Stage, TypeInv, Batch

(* A step that only changes what one worker, the only one, has pending. *)
LEMMA TxStep ==
    ASSUME IInv, NEW w \in Workers, NEW b \in Batch \cup {None},
           \A u \in Workers \ {w} : tx[u] = None,
           b # None => batches < MaxBatches /\ Pending(b),
           tx' = [tx EXCEPT ![w] = b],
           UNCHANGED <<today, nav, event, batches, checked, reported>>
    PROVE  IInv'
  <1>1. TypeInv'
    BY DEF IInv, TypeInv
  <1>2. TxInv'
    <2>1. tx'[w] = b /\ \A u \in Workers \ {w} : tx'[u] = None
      BY DEF IInv, TypeInv
    <2> QED BY <2>1 DEF TxInv, Pending
  <1>3. VersionsAreRevisions'
    BY DEF IInv, VersionsAreRevisions
  <1> QED BY <1>1, <1>2, <1>3 DEF IInv

(* One lemma for each action: it preserves the invariant. *)
LEMMA IngestNavStep ==
    ASSUME IInv, NEW w \in Workers, IngestNav(w)
    PROVE  IInv'
  <1> USE DEF IInv
  <1>1. \A u \in Workers : tx[u] = None
    BY NoBatch DEF IngestNav
  <1>2. PICK frame \in NavFrames, day \in 0..today :
            tx' = [tx EXCEPT ![w] =
                    [stage |-> "priced", day |-> day, event |-> event,
                     nav |-> Ingest(nav, NavRows(frame)),
                     reported |-> [nav |-> Heard(reported.nav, frame),
                                   event |-> reported.event]]]
    BY DEF IngestNav
  <1>3. PICK b : b = [stage |-> "priced", day |-> day, event |-> event,
                      nav |-> Ingest(nav, NavRows(frame)),
                      reported |-> [nav |-> Heard(reported.nav, frame),
                                    event |-> reported.event]]
    OBVIOUS
  <1>4. PICK navs \in NavTable : navs = nav
    BY DEF TypeInv
  <1>5. /\ Ingest(navs, NavRows(frame)) \in NavTable
        /\ Kept(navs, Ingest(navs, NavRows(frame)))
    BY FetchedNavs, IngestedTable DEF NavTable, TypeInv
  <1>6. Revised(Ingest(navs, NavRows(frame)), Heard(reported.nav, frame))
    <2>1. PICK said : said = reported.nav
      OBVIOUS
    <2>2. Revised(navs, said)
      BY <1>4, <2>1 DEF VersionsAreRevisions
    <2>3. Revised(Ingest(navs, NavRows(frame)), Heard(said, frame))
      BY <2>2, FetchedNavs, IngestedIsHeard DEF NavTable, TypeInv
    <2> QED BY <2>1, <2>3
  <1>7. Heard(reported.nav, frame) \in [Days -> Values \cup {None}]
    BY FetchedNavs DEF TypeInv, Said, Heard
  <1>8. b \in Batch
    <2>1. day \in Days
      BY BoundsAssumption DEF TypeInv, Days
    <2>2. [nav |-> Heard(reported.nav, frame), event |-> reported.event] \in Said
      BY <1>7 DEF TypeInv, Said
    <2> QED BY <1>3, <1>4, <1>5, <2>1, <2>2 DEF Batch, TypeInv
  <1>9. Pending(b)
    <2>1. Kept(event, event) /\ Revised(event, reported.event)
      BY DEF Kept, VersionsAreRevisions
    <2> QED BY <1>3, <1>4, <1>5, <1>6, <2>1 DEF Pending
  <1> QED BY <1>1, <1>2, <1>3, <1>8, <1>9, TxStep DEF IngestNav

LEMMA IngestDistributionsStep ==
    ASSUME IInv, NEW w \in Workers, IngestDistributions(w)
    PROVE  IInv'
  <1> USE DEF IInv
  <1>1. /\ tx[w] \in Batch /\ batches < MaxBatches
        /\ \A u \in Workers \ {w} : tx[u] = None
        /\ Pending(tx[w])
    BY OneBatch DEF IngestDistributions
  <1>2. PICK frame \in EventFrames :
            tx' = [tx EXCEPT ![w] =
                    [@ EXCEPT !.stage = "fetched", !.event = Ingest(event, EventRows(frame)),
                              !.reported.event = Heard(reported.event, frame)]]
    BY DEF IngestDistributions
  <1>3. PICK a \in Batch : a = tx[w]
    BY <1>1
  <1>4. PICK b : b = [a EXCEPT !.stage = "fetched", !.event = Ingest(event, EventRows(frame)),
                               !.reported.event = Heard(reported.event, frame)]
    OBVIOUS
  <1>5. PICK events \in EventTable : events = event
    BY DEF TypeInv
  <1>6. /\ Ingest(events, EventRows(frame)) \in EventTable
        /\ Kept(events, Ingest(events, EventRows(frame)))
    BY FetchedEvents, IngestedTable DEF EventTable
  <1>7. Revised(Ingest(events, EventRows(frame)), Heard(reported.event, frame))
    <2>1. PICK said : said = reported.event
      OBVIOUS
    <2>2. Revised(events, said)
      BY <1>5, <2>1 DEF VersionsAreRevisions
    <2>3. Revised(Ingest(events, EventRows(frame)), Heard(said, frame))
      BY <2>2, FetchedEvents, IngestedIsHeard DEF EventTable
    <2> QED BY <2>1, <2>3
  <1>8. Heard(reported.event, frame) \in [Days -> ((SUBSET Inputs) \ {{}}) \cup {None}]
    BY FetchedEvents DEF TypeInv, Said, Heard
  <1>9. /\ b.nav = a.nav /\ b.reported.nav = a.reported.nav
        /\ b.event = Ingest(events, EventRows(frame))
        /\ b.reported.event = Heard(reported.event, frame)
        /\ b \in Batch
    BY <1>4, <1>5, <1>6, <1>8 DEF Batch, Said
  <1>10. Pending(b)
    BY <1>1, <1>3, <1>5, <1>6, <1>7, <1>9 DEF Pending
  <1>11. tx' = [tx EXCEPT ![w] = b]
    BY <1>2, <1>3, <1>4
  <1> QED BY <1>1, <1>9, <1>10, <1>11, TxStep DEF IngestDistributions

LEMMA RebuildStep ==
    ASSUME IInv, NEW w \in Workers, RebuildAdjustedNav(w)
    PROVE  IInv'
  <1> USE DEF IInv
  <1>1. /\ tx[w] \in Batch /\ batches < MaxBatches
        /\ \A u \in Workers \ {w} : tx[u] = None
        /\ Pending(tx[w])
    BY OneBatch DEF RebuildAdjustedNav
  <1>2. PICK a \in Batch : a = tx[w]
    BY <1>1
  <1>3. PICK day \in {a.day, today} :
            tx' = [tx EXCEPT ![w] =
                IF Broken(a.nav, a.event, day) THEN None
                ELSE [a EXCEPT !.stage = "rebuilt", !.day = day,
                               !.nav = Rebuilt(a.nav, a.event, day)]]
    BY <1>2 DEF RebuildAdjustedNav
  <1>4. day \in Days /\ day \in Nat
    BY <1>2, <1>3, DaysAreNumbers DEF TypeInv, Batch
  <1>5. CASE Broken(a.nav, a.event, day)
    <2>1. tx' = [tx EXCEPT ![w] = None]
      BY <1>3, <1>5
    <2> QED BY <1>1, <2>1, TxStep DEF RebuildAdjustedNav
  <1>6. CASE ~Broken(a.nav, a.event, day)
    <2>1. PICK b : b = [a EXCEPT !.stage = "rebuilt", !.day = day,
                                 !.nav = Rebuilt(a.nav, a.event, day)]
      OBVIOUS
    <2>2. a.nav \in NavTable /\ a.event \in EventTable
      BY DEF Batch
    <2>3. PICK navs \in NavTable, events \in EventTable : navs = a.nav /\ events = a.event
      BY <2>2
    <2>4. PICK new : new = Rebuilt(navs, events, day)
      OBVIOUS
    <2>5. new \in NavTable /\ Kept(navs, new)
      BY <1>4, <1>6, <2>3, <2>4, RebuiltTable DEF Kept
    <2>6. b \in Batch /\ b.nav = new /\ b.event = a.event /\ b.reported = a.reported
      BY <1>4, <2>1, <2>3, <2>4, <2>5 DEF Batch
    <2>7. Revised(new, b.reported.nav)
      <3>1. PICK said : said = a.reported.nav
        OBVIOUS
      <3>2. Revised(navs, said)
        BY <1>1, <1>2, <2>3, <3>1 DEF Pending
      <3>3. ~Broken(navs, events, day)
        BY <1>6, <2>3
      <3> QED BY <1>4, <2>4, <2>6, <3>1, <3>2, <3>3, RebuiltIsRevised
    <2>8. Kept(nav, new)
      BY <1>1, <1>2, <2>3, <2>5, KeptIsTransitive DEF Pending
    <2>9. Pending(b)
      BY <1>1, <1>2, <2>6, <2>7, <2>8 DEF Pending
    <2>10. tx' = [tx EXCEPT ![w] = b]
      BY <1>3, <1>6, <2>1
    <2> QED BY <1>1, <2>6, <2>9, <2>10, TxStep DEF RebuildAdjustedNav
  <1> QED BY <1>5, <1>6

(* Committing also keeps every stored version. *)
LEMMA CommitStep ==
    ASSUME IInv, NEW w \in Workers, Commit(w)
    PROVE  IInv' /\ Kept(nav, nav') /\ Kept(event, event')
  <1> USE DEF IInv, Commit
  <1>1. /\ tx[w] \in Batch /\ batches < MaxBatches
        /\ \A u \in Workers \ {w} : tx[u] = None
        /\ Pending(tx[w])
    BY OneBatch
  <1>2. TypeInv'
    <2>1. batches + 1 \in 0..MaxBatches
      BY <1>1, BoundsAssumption DEF TypeInv
    <2> QED BY <1>1, <2>1 DEF TypeInv, Batch
  <1>3. \A u \in Workers : tx'[u] = None
    BY <1>1 DEF TypeInv
  <1>4. TxInv'
    BY <1>3 DEF TxInv
  <1>5. VersionsAreRevisions'
    BY <1>1 DEF Pending, VersionsAreRevisions
  <1>6. Kept(nav, nav') /\ Kept(event, event')
    BY <1>1 DEF Pending
  <1> QED BY <1>2, <1>4, <1>5, <1>6

LEMMA FailStep ==
    ASSUME IInv, NEW w \in Workers, Fail(w)
    PROVE  IInv'
  <1>1. \A u \in Workers \ {w} : tx[u] = None
    BY OneBatch DEF Fail, IInv
  <1> QED BY <1>1, TxStep DEF Fail

LEMMA MidnightStep ==
    ASSUME IInv, Midnight
    PROVE  IInv'
  <1> USE DEF IInv, Midnight
  <1>1. today' \in Days
    BY BoundsAssumption DEF TypeInv, Days
  <1>2. TypeInv'
    BY <1>1 DEF TypeInv
  <1>3. TxInv'
    BY DEF TxInv, Pending
  <1>4. VersionsAreRevisions'
    BY DEF VersionsAreRevisions
  <1> QED BY <1>2, <1>3, <1>4

(* So does every step. *)
LEMMA NextStep ==
    ASSUME IInv, [Next]_vars
    PROVE  IInv' /\ Kept(nav, nav') /\ Kept(event, event')
  <1>1. CASE UNCHANGED <<nav, event>> /\ IInv'
    <2>1. nav' = nav /\ event' = event
      BY <1>1
    <2>2. Kept(nav, nav) /\ Kept(event, event)
      BY DEF Kept
    <2> QED BY <1>1, <2>1, <2>2
  <1>2. CASE Midnight
    BY <1>1, <1>2, MidnightStep DEF Midnight
  <1>3. ASSUME NEW w \in Workers, IngestNav(w)
        PROVE  IInv' /\ Kept(nav, nav') /\ Kept(event, event')
    BY <1>1, <1>3, IngestNavStep DEF IngestNav
  <1>4. ASSUME NEW w \in Workers, IngestDistributions(w)
        PROVE  IInv' /\ Kept(nav, nav') /\ Kept(event, event')
    BY <1>1, <1>4, IngestDistributionsStep DEF IngestDistributions
  <1>5. ASSUME NEW w \in Workers, RebuildAdjustedNav(w)
        PROVE  IInv' /\ Kept(nav, nav') /\ Kept(event, event')
    BY <1>1, <1>5, RebuildStep DEF RebuildAdjustedNav
  <1>6. ASSUME NEW w \in Workers, Commit(w)
        PROVE  IInv' /\ Kept(nav, nav') /\ Kept(event, event')
    BY <1>6, CommitStep
  <1>7. ASSUME NEW w \in Workers, Fail(w)
        PROVE  IInv' /\ Kept(nav, nav') /\ Kept(event, event')
    BY <1>1, <1>7, FailStep DEF Fail
  <1>8. CASE UNCHANGED vars
    <2>1. IInv'
      BY <1>8 DEF IInv, TypeInv, TxInv, Pending, VersionsAreRevisions, vars
    <2> QED BY <1>1, <1>8, <2>1 DEF vars
  <1> QED BY <1>2, <1>3, <1>4, <1>5, <1>6, <1>7, <1>8 DEF Next

(* Each state of a behaviour satisfies the invariant. *)
THEOREM Invariance == Spec => []IInv
  <1>1. Init => IInv
    BY InitIInv
  <1>2. IInv /\ [Next]_vars => IInv'
    BY NextStep
  <1> QED BY <1>1, <1>2, PTL DEF Spec

(* Every variable stays in its type: batches type-check what the provider  *)
(* and the rebuilding put into the two tables and into the column.         *)
THEOREM TypeCorrect == Spec => []TypeOK
  <1>1. IInv => TypeOK
    BY TypeInvTypeOK DEF IInv
  <1> QED BY <1>1, Invariance, PTL

(* For any provider: the stored versions of a day are its revisions, no    *)
(* two in a row are the same, and the last one is its last word.           *)
THEOREM VersionsCorrect == Spec => []VersionsAreRevisions
  <1>1. IInv => VersionsAreRevisions
    BY DEF IInv
  <1> QED BY <1>1, Invariance, PTL

(* No step loses or changes a stored version, but for the column. *)
THEOREM RowsKept == Spec => RowsAreKept
  <1>1. IInv /\ [Next]_vars => [Kept(nav, nav') /\ Kept(event, event')]_vars
    BY NextStep
  <1> QED BY <1>1, Invariance, PTL DEF Spec, RowsAreKept

-----------------------------------------------------------------------------
(* The column.  Versions become available in time: a day's values all at   *)
(* once, its events not after them.  So a version that a batch sees gets   *)
(* what can be computed on the day on which it becomes available.          *)

Timely(navs, events) ==
    \A d \in Days :
        /\ \A v \in DOMAIN navs[d] : navs[d][v].at = d + NavLag
        /\ \A v \in DOMAIN events[d] : events[d][v].at <= d + NavLag

Filled(navs, events, time) ==
    \A d \in Days : navs[d] # <<>> /\ d + NavLag <= time =>
        LET at == d + NavLag
        IN  /\ Computable(Resolve(navs, at), Resolve(events, at))
            /\ Latest(navs[d]).adjusted = Adjusted(Resolve(navs, at), Resolve(events, at), d)

ColumnInv ==
    /\ Timely(nav, event)
    /\ checked # None => Filled(nav, event, checked)
    /\ \A w \in Workers : tx[w] # None =>
        /\ Timely(tx[w].nav, tx[w].event)
        /\ tx[w].stage = "rebuilt" => Filled(tx[w].nav, tx[w].event, tx[w].day)

(* Of versions that are all available on one day, the last is current then.*)
LEMMA AllAtOnce ==
    ASSUME NEW S, NEW rows \in Seq(S), NEW at \in Nat, NEW time \in Nat,
           \A v \in DOMAIN rows : rows[v].at = at
    PROVE  /\ VisibleVersions(rows, time) = IF at <= time THEN DOMAIN rows ELSE {}
           /\ rows # <<>> => (CurrentVersion(rows, time) = Len(rows) <=> at <= time)
           /\ rows # <<>> => Len(rows) \in DOMAIN rows
  <1>1. DOMAIN rows = 1..Len(rows) /\ Len(rows) \in Nat
        /\ (rows # <<>> => Len(rows) \in 1..Len(rows))
    OBVIOUS
  <1>2. VisibleVersions(rows, time) = IF at <= time THEN DOMAIN rows ELSE {}
    BY DEF VisibleVersions
  <1> DEFINE D == 1..Len(rows)
  <1>3. ASSUME rows # <<>> PROVE Max(D) = Len(rows)
    <2>1. D \in SUBSET (0..Len(rows)) /\ Len(rows) \in D
      BY <1>1, <1>3
    <2>2. Max(D) \in D /\ \A y \in D : y <= Max(D)
      BY <1>1, <2>1, MaxOfSet
    <2> QED BY <1>1, <2>1, <2>2
  <1>4. ASSUME rows # <<>>, at <= time PROVE CurrentVersion(rows, time) = Len(rows)
    BY <1>1, <1>2, <1>3, <1>4 DEF CurrentVersion
  <1>5. ASSUME rows # <<>>, ~(at <= time) PROVE CurrentVersion(rows, time) # Len(rows)
    BY <1>1, <1>2, <1>5 DEF CurrentVersion
  <1> QED BY <1>1, <1>2, <1>4, <1>5

(* Stamps are the first checkpoints of reigns. *)
LEMMA StampForm ==
    ASSUME NEW navs, NEW events, NEW time
    PROVE  LET C == Checkpoints(navs, events, time)
           IN  /\ \A d \in Days : \A v \in DOMAIN navs[d] : Reign(navs[d], v, C) # {} =>
                    [day |-> d, version |-> v, at |-> Min(Reign(navs[d], v, C))]
                        \in Stamps(navs, events, time)
               /\ \A s \in Stamps(navs, events, time) :
                    s.at = Min(Reign(navs[s.day], s.version, C))
  <1> DEFINE C == Checkpoints(navs, events, time)
             R(d, v) == Reign(navs[d], v, C)
             reigns == [d \in Days |-> [v \in DOMAIN navs[d] |-> R(d, v)]]
             Of(d) == {[day |-> d, version |-> v, at |-> Min(reigns[d][v])] :
                            v \in {u \in DOMAIN navs[d] : reigns[d][u] # {}}}
  <1>1. Stamps(navs, events, time) = UNION {Of(d) : d \in Days}
    BY DEF Stamps
  <1> HIDE DEF C, R
  <1>2. \A d \in Days : \A v \in DOMAIN navs[d] : reigns[d][v] = R(d, v)
    OBVIOUS
  <1> HIDE DEF reigns
  <1>3. ASSUME NEW d \in Days, NEW v \in DOMAIN navs[d], R(d, v) # {}
        PROVE  [day |-> d, version |-> v, at |-> Min(R(d, v))] \in Stamps(navs, events, time)
    <2>1. [day |-> d, version |-> v, at |-> Min(R(d, v))] \in Of(d)
      BY <1>2, <1>3
    <2> HIDE DEF Of
    <2> QED BY <1>1, <2>1
  <1>4. ASSUME NEW s \in Stamps(navs, events, time)
        PROVE  s.at = Min(R(s.day, s.version))
    <2>1. PICK d \in Days : s \in Of(d)
      <3> HIDE DEF Of
      <3> QED BY <1>1, <1>4
    <2> QED BY <1>2, <2>1
  <1> QED BY <1>3, <1>4 DEF C, R

(* What is read of a table depends on its values and when they became      *)
(* available, not on the column.                                           *)
LEMMA SameResolved ==
    ASSUME NEW navs \in NavTable, NEW new \in NavTable, NEW time,
           \A d \in Days :
                /\ DOMAIN new[d] = DOMAIN navs[d]
                /\ \A v \in DOMAIN navs[d] : /\ new[d][v].value = navs[d][v].value
                                             /\ new[d][v].at = navs[d][v].at
    PROVE  Resolve(new, time) = Resolve(navs, time)
  <1>1. ASSUME NEW d \in Days
        PROVE  VisibleVersions(new[d], time) = VisibleVersions(navs[d], time)
    BY DEF VisibleVersions
  <1>2. ASSUME NEW d \in Days
        PROVE  CurrentVersion(new[d], time) = CurrentVersion(navs[d], time)
    BY <1>1 DEF CurrentVersion
  <1> DEFINE D == {e \in Days : VisibleVersions(navs[e], time) # {}}
             Value(table, d) == table[d][CurrentVersion(table[d], time)].value
  <1>3. {e \in Days : VisibleVersions(new[e], time) # {}} = D
    BY <1>1
  <1>4. \A d \in D : Value(new, d) = Value(navs, d)
    <2> SUFFICES ASSUME NEW d \in D PROVE Value(new, d) = Value(navs, d)
      OBVIOUS
    <2>1. CurrentVersion(navs[d], time) \in VisibleVersions(navs[d], time)
      BY CurrentVersionIsVisible DEF NavTable
    <2>2. CurrentVersion(navs[d], time) \in DOMAIN navs[d]
      BY <2>1 DEF VisibleVersions
    <2> QED BY <1>2, <2>2
  <1>5. /\ Resolve(new, time) = [d \in D |-> Value(new, d)]
        /\ Resolve(navs, time) = [d \in D |-> Value(navs, d)]
    BY <1>3 DEF Resolve
  <1> HIDE DEF D, Value
  <1> QED BY <1>4, <1>5

(* A batch that is not broken fills the column. *)
LEMMA RebuiltIsFilled ==
    ASSUME NEW navs \in NavTable, NEW events \in EventTable, NEW time \in Nat,
           ~Broken(navs, events, time), Timely(navs, events)
    PROVE  LET new == Rebuilt(navs, events, time)
           IN  Timely(new, events) /\ Filled(new, events, time)
  <1> DEFINE new == Rebuilt(navs, events, time)
             C == Checkpoints(navs, events, time)
             Own(d, v) == {s \in Stamps(navs, events, time) : s.day = d /\ s.version = v}
             Value(d, at) == Adjusted(Resolve(navs, at), Resolve(events, at), d)
  <1>1. /\ new \in NavTable
        /\ \A d \in Days :
            /\ DOMAIN new[d] = DOMAIN navs[d] /\ Len(new[d]) = Len(navs[d])
            /\ \A v \in DOMAIN navs[d] : /\ new[d][v].value = navs[d][v].value
                                         /\ new[d][v].at = navs[d][v].at
    BY RebuiltTable
  <1>2. ASSUME NEW d \in Days, NEW v \in DOMAIN navs[d], Own(d, v) # {}
        PROVE  new[d][v].adjusted = Value(d, (CHOOSE s \in Own(d, v) : TRUE).at)
    <2> DEFINE value == Value(d, (CHOOSE s \in Own(d, v) : TRUE).at)
    <2>1. new[d][v] = [navs[d][v] EXCEPT !.adjusted = value]
      BY <1>2 DEF Rebuilt
    <2>2. navs[d][v] \in NavRow
      BY DEF NavTable
    <2> HIDE DEF value, new
    <2>3. new[d][v].adjusted = value
      BY <2>1, <2>2 DEF NavRow
    <2> QED BY <2>3 DEF value
  <1> HIDE DEF new, Value
  <1>3. ASSUME NEW d \in Days, new[d] # <<>>, d + NavLag <= time
        PROVE  LET at == d + NavLag
               IN  /\ Computable(Resolve(navs, at), Resolve(events, at))
                   /\ Latest(new[d]).adjusted = Value(d, at)
    <2> DEFINE at == d + NavLag
               n == Len(navs[d])
               R == Reign(navs[d], n, C)
    <2>1. /\ at \in Nat /\ navs[d] \in Seq(NavRow) /\ navs[d] # <<>>
          /\ \A v \in DOMAIN navs[d] : navs[d][v].at = at
      <3>1. new[d] \in Seq(NavRow) /\ navs[d] \in Seq(NavRow) /\ DOMAIN new[d] = DOMAIN navs[d]
        BY <1>1 DEF NavTable
      <3>2. navs[d] # <<>>
        BY <1>3, <3>1
      <3> QED BY <3>1, <3>2, DaysAreNumbers, LagAssumption DEF Timely
    <2> HIDE DEF at
    <2>2. n \in DOMAIN navs[d] /\ \A c \in Nat : CurrentVersion(navs[d], c) = n <=> at <= c
      BY <2>1, AllAtOnce
    <2>3. C \subseteq Nat /\ at \in C
      <3>1. at \in 0..time /\ navs[d][n].at = at
        BY <1>3, <2>1, <2>2 DEF at
      <3> QED BY <2>2, <3>1 DEF Checkpoints
    <2> HIDE DEF C, n
    <2>4. R \in SUBSET Nat /\ at \in R /\ \A c \in R : at <= c
      <3>1. R = {c \in C : CurrentVersion(navs[d], c) = n}
        BY DEF Reign
      <3>2. \A c \in C : c \in R <=> at <= c
        <4> HIDE DEF R
        <4> QED BY <2>2, <2>3, <3>1
      <3>3. R \subseteq C
        <4> HIDE DEF R
        <4> QED BY <3>1
      <3>4. at <= at
        BY <2>1
      <3> HIDE DEF R
      <3> QED BY <2>3, <3>2, <3>3, <3>4
    <2>5. Min(R) = at
      <3>1. Min(R) \in R /\ \A y \in R : Min(R) <= y
        <4> HIDE DEF R
        <4> QED BY <2>4, MinOfSet
      <3> QED BY <2>1, <2>4, <3>1
    <2> DEFINE s0 == [day |-> d, version |-> n, at |-> at]
    <2>6. s0 \in Stamps(navs, events, time)
      BY <2>2, <2>4, <2>5, StampForm DEF C
    <2>7. \A s \in Own(d, n) : s.at = at
      BY <2>5, StampForm DEF C
    <2>8. s0 \in Own(d, n) /\ s0.at = at
      BY <2>6
    <2> HIDE DEF Own, s0
    <2>9. (CHOOSE s \in Own(d, n) : TRUE).at = at
      BY <2>7, <2>8
    <2>10. new[d][n].adjusted = Value(d, at)
      <3>1. new[d][n].adjusted = Value(d, (CHOOSE s \in Own(d, n) : TRUE).at)
        BY <1>2, <2>2, <2>8
      <3> QED BY <2>9, <3>1
    <2>11. Latest(new[d]) = new[d][n]
      BY <1>1 DEF Latest, n
    <2>12. Computable(Resolve(navs, at), Resolve(events, at))
      BY <2>6, <2>8 DEF Broken
    <2> QED BY <2>10, <2>11, <2>12 DEF at
  <1>4. \A t : Resolve(new, t) = Resolve(navs, t)
    BY <1>1, SameResolved
  <1>5. Filled(new, events, time)
    BY <1>3, <1>4 DEF Filled, Value
  <1>6. Timely(new, events)
    BY <1>1 DEF Timely
  <1> QED BY <1>5, <1>6 DEF new

(* Storing a frame leaves each row as it is, or is the frame's row. *)
LEMMA IngestedIsOldOrNew ==
    ASSUME NEW S, NEW table \in [Days -> Seq(S)], NEW rows, NEW d \in Days,
           d \in DOMAIN rows => rows[d] \in S,
           NEW v \in DOMAIN Ingest(table, rows)[d]
    PROVE  \/ v \in DOMAIN table[d] /\ Ingest(table, rows)[d][v] = table[d][v]
           \/ d \in DOMAIN rows /\ Ingest(table, rows)[d][v] = rows[d]
  <1>1. CASE d \in DOMAIN rows /\ Ingest(table, rows)[d] = Append(table[d], rows[d])
    BY <1>1
  <1>2. CASE Ingest(table, rows)[d] = table[d]
    BY <1>2
  <1>3. \/ Ingest(table, rows)[d] = table[d]
        \/ d \in DOMAIN rows /\ Ingest(table, rows)[d] = Append(table[d], rows[d])
    BY DEF Ingest, Revise
  <1> QED BY <1>1, <1>2, <1>3

(* The provider's values are available with their lag, its events with the *)
(* longer of theirs: both in time.                                         *)
LEMMA FetchedNavsTimely ==
    ASSUME today \in Days, NEW frame \in NavFrames,
           NEW navs \in NavTable, NEW events, Timely(navs, events)
    PROVE  Timely(Ingest(navs, NavRows(frame)), events)
  <1>1. ASSUME NEW d \in Days, NEW v \in DOMAIN Ingest(navs, NavRows(frame))[d]
        PROVE  Ingest(navs, NavRows(frame))[d][v].at = d + NavLag
    <2>1. d \in DOMAIN NavRows(frame) => NavRows(frame)[d] \in NavRow
      BY FetchedNavs
    <2>2. CASE v \in DOMAIN navs[d] /\ Ingest(navs, NavRows(frame))[d][v] = navs[d][v]
      BY <2>2 DEF Timely
    <2>3. CASE d \in DOMAIN NavRows(frame)
               /\ Ingest(navs, NavRows(frame))[d][v] = NavRows(frame)[d]
      BY <2>3 DEF NavRows
    <2> QED BY <2>1, <2>2, <2>3, IngestedIsOldOrNew DEF NavTable
  <1> QED BY <1>1 DEF Timely

LEMMA FetchedEventsTimely ==
    ASSUME NEW frame \in EventFrames,
           NEW navs, NEW events \in EventTable, Timely(navs, events)
    PROVE  Timely(navs, Ingest(events, EventRows(frame)))
  <1>1. ASSUME NEW d \in DOMAIN frame
        PROVE  EventRows(frame)[d].at <= d + NavLag
    <2> DEFINE ats == {d + Lag[i] : i \in frame[d]}
    <2>1. d \in Nat /\ {NavLag, DividendLag, SplitLag} \subseteq Nat
          /\ DividendLag <= NavLag /\ SplitLag <= NavLag
      BY FetchedEvents, DaysAreNumbers, LagAssumption
    <2>2. frame[d] # {} /\ frame[d] \subseteq {"dividend", "split"}
      <3>1. frame[d] \in (SUBSET Inputs) \ {{}}
        BY FetchedEvents
      <3> QED BY <3>1 DEF Inputs
    <2>3. \A i \in frame[d] : d + Lag[i] \in 0..(d + NavLag)
      BY <2>1, <2>2 DEF Lag
    <2>4. ats \in SUBSET (0..(d + NavLag)) /\ ats # {} /\ d + NavLag \in Nat
      BY <2>1, <2>2, <2>3
    <2>5. EventRows(frame)[d].at = Max(ats)
      BY DEF EventRows
    <2> HIDE DEF ats
    <2>6. Max(ats) \in 0..(d + NavLag)
      BY <2>4, MaxOfSet
    <2> QED BY <2>4, <2>5, <2>6
  <1>2. ASSUME NEW d \in Days, NEW v \in DOMAIN Ingest(events, EventRows(frame))[d]
        PROVE  Ingest(events, EventRows(frame))[d][v].at <= d + NavLag
    <2>1. d \in DOMAIN EventRows(frame) =>
            EventRows(frame)[d] \in EventRow /\ d \in DOMAIN frame
      BY FetchedEvents
    <2>2. CASE v \in DOMAIN events[d]
               /\ Ingest(events, EventRows(frame))[d][v] = events[d][v]
      BY <2>2 DEF Timely
    <2>3. CASE d \in DOMAIN EventRows(frame)
               /\ Ingest(events, EventRows(frame))[d][v] = EventRows(frame)[d]
      BY <1>1, <2>1, <2>3
    <2> QED BY <2>1, <2>2, <2>3, IngestedIsOldOrNew DEF EventTable
  <1> QED BY <1>2 DEF Timely

(* A step that only changes what one worker has pending. *)
LEMMA ColumnTxStep ==
    ASSUME IInv, ColumnInv, NEW w \in Workers, NEW b,
           b # None => /\ Timely(b.nav, b.event)
                       /\ b.stage = "rebuilt" => Filled(b.nav, b.event, b.day),
           tx' = [tx EXCEPT ![w] = b],
           UNCHANGED <<nav, event, checked>>
    PROVE  ColumnInv'
  <1>1. tx'[w] = b /\ \A u \in Workers \ {w} : tx'[u] = tx[u]
    BY DEF IInv, TypeInv
  <1> QED BY <1>1 DEF ColumnInv

(* Every step keeps versions timely and the column filled. *)
LEMMA ColumnStep ==
    ASSUME IInv, ColumnInv, [Next]_vars
    PROVE  ColumnInv'
  <1> USE DEF IInv
  <1>1. CASE Midnight
    BY <1>1 DEF Midnight, ColumnInv
  <1>2. ASSUME NEW w \in Workers, IngestNav(w) PROVE ColumnInv'
    <2>1. PICK frame \in NavFrames, day \in 0..today :
            tx' = [tx EXCEPT ![w] =
                    [stage |-> "priced", day |-> day, event |-> event,
                     nav |-> Ingest(nav, NavRows(frame)),
                     reported |-> [nav |-> Heard(reported.nav, frame),
                                   event |-> reported.event]]]
      BY <1>2 DEF IngestNav
    <2>2. PICK b : b = [stage |-> "priced", day |-> day, event |-> event,
                        nav |-> Ingest(nav, NavRows(frame)),
                        reported |-> [nav |-> Heard(reported.nav, frame),
                                      event |-> reported.event]]
      OBVIOUS
    <2>3. Timely(Ingest(nav, NavRows(frame)), event)
      <3>1. PICK navs \in NavTable : navs = nav
        BY DEF TypeInv
      <3>2. Timely(Ingest(navs, NavRows(frame)), event)
        BY <3>1, FetchedNavsTimely DEF TypeInv, ColumnInv
      <3> QED BY <3>1, <3>2
    <2>4. b.stage = "priced" /\ b.nav = Ingest(nav, NavRows(frame)) /\ b.event = event
      BY <2>2
    <2>5. tx' = [tx EXCEPT ![w] = b]
      BY <2>1, <2>2
    <2> QED BY <1>2, <2>3, <2>4, <2>5, ColumnTxStep DEF IngestNav
  <1>3. ASSUME NEW w \in Workers, IngestDistributions(w) PROVE ColumnInv'
    <2>1. tx[w] \in Batch /\ tx[w] # None
      BY <1>3, OneBatch DEF IngestDistributions
    <2>2. PICK frame \in EventFrames :
            tx' = [tx EXCEPT ![w] =
                    [@ EXCEPT !.stage = "fetched", !.event = Ingest(event, EventRows(frame)),
                              !.reported.event = Heard(reported.event, frame)]]
      BY <1>3 DEF IngestDistributions
    <2>3. PICK a \in Batch : a = tx[w]
      BY <2>1
    <2>4. PICK b : b = [a EXCEPT !.stage = "fetched", !.event = Ingest(event, EventRows(frame)),
                                 !.reported.event = Heard(reported.event, frame)]
      OBVIOUS
    <2>5. Timely(a.nav, Ingest(event, EventRows(frame)))
      <3>1. PICK events \in EventTable : events = event
        BY DEF TypeInv
      <3>2. Timely(a.nav, events)
        <4>1. Timely(a.nav, a.event) /\ Timely(nav, event)
          BY <2>1, <2>3 DEF ColumnInv
        <4> QED BY <3>1, <4>1 DEF Timely
      <3>3. Timely(a.nav, Ingest(events, EventRows(frame)))
        BY <3>2, FetchedEventsTimely
      <3> QED BY <3>1, <3>3
    <2>6. b.stage = "fetched" /\ b.nav = a.nav /\ b.event = Ingest(event, EventRows(frame))
      BY <2>4 DEF Batch
    <2>7. tx' = [tx EXCEPT ![w] = b]
      BY <2>2, <2>3, <2>4
    <2> QED BY <1>3, <2>5, <2>6, <2>7, ColumnTxStep DEF IngestDistributions
  <1>4. ASSUME NEW w \in Workers, RebuildAdjustedNav(w) PROVE ColumnInv'
    <2>1. tx[w] \in Batch /\ tx[w] # None
      BY <1>4, OneBatch DEF RebuildAdjustedNav
    <2>2. PICK a \in Batch : a = tx[w]
      BY <2>1
    <2>3. PICK day \in {a.day, today} :
            tx' = [tx EXCEPT ![w] =
                IF Broken(a.nav, a.event, day) THEN None
                ELSE [a EXCEPT !.stage = "rebuilt", !.day = day,
                               !.nav = Rebuilt(a.nav, a.event, day)]]
      BY <1>4, <2>2 DEF RebuildAdjustedNav
    <2>4. CASE Broken(a.nav, a.event, day)
      <3>1. tx' = [tx EXCEPT ![w] = None]
        BY <2>3, <2>4
      <3> QED BY <1>4, <3>1, ColumnTxStep DEF RebuildAdjustedNav
    <2>5. CASE ~Broken(a.nav, a.event, day)
      <3>1. PICK b : b = [a EXCEPT !.stage = "rebuilt", !.day = day,
                                   !.nav = Rebuilt(a.nav, a.event, day)]
        OBVIOUS
      <3>2. b.day = day /\ b.nav = Rebuilt(a.nav, a.event, day) /\ b.event = a.event
        BY <3>1 DEF Batch
      <3>3. a.nav \in NavTable /\ a.event \in EventTable /\ day \in Nat
        BY <2>3, DaysAreNumbers DEF TypeInv, Batch
      <3>4. Timely(a.nav, a.event)
        BY <2>1, <2>2 DEF ColumnInv
      <3>5. Timely(b.nav, b.event) /\ Filled(b.nav, b.event, b.day)
        BY <2>5, <3>2, <3>3, <3>4, RebuiltIsFilled
      <3>6. tx' = [tx EXCEPT ![w] = b]
        BY <2>3, <2>5, <3>1
      <3> QED BY <1>4, <3>5, <3>6, ColumnTxStep DEF RebuildAdjustedNav
    <2> QED BY <2>4, <2>5
  <1>5. ASSUME NEW w \in Workers, Commit(w) PROVE ColumnInv'
    <2>1. tx[w] \in Batch /\ tx[w] # None /\ tx[w].stage = "rebuilt" /\ \A u \in Workers \ {w} : tx[u] = None
      BY <1>5, OneBatch DEF Commit
    <2>2. Timely(tx[w].nav, tx[w].event) /\ Filled(tx[w].nav, tx[w].event, tx[w].day)
      BY <2>1 DEF ColumnInv
    <2>3. \A u \in Workers : tx'[u] = None
      BY <1>5, <2>1 DEF TypeInv, Commit
    <2> QED BY <1>5, <2>2, <2>3 DEF Commit, ColumnInv
  <1>6. ASSUME NEW w \in Workers, Fail(w) PROVE ColumnInv'
    BY <1>6, ColumnTxStep DEF Fail
  <1>7. CASE UNCHANGED vars
    BY <1>7 DEF vars, ColumnInv
  <1> QED BY <1>1, <1>2, <1>3, <1>4, <1>5, <1>6, <1>7 DEF Next

(* Versions are timely, and what the last batch and a batch that is ready   *)
(* to commit have rebuilt is filled, in every state.                       *)
THEOREM ColumnInvariant == Spec => []ColumnInv
  <1>1. Init => ColumnInv
    BY DEF Init, NoRows, ColumnInv, Timely
  <1>2. IInv /\ ColumnInv /\ [Next]_vars => ColumnInv'
    BY ColumnStep
  <1> QED BY <1>1, <1>2, Invariance, PTL DEF Spec

-----------------------------------------------------------------------------
(* What is read *)

(* What is computed for a day is not changed by what comes after it. *)
LEMMA AdjustedUpTo ==
    ASSUME NEW navs, DOMAIN navs \subseteq Days, NEW events, DOMAIN events \subseteq Days,
           NEW day \in DOMAIN navs, DOMAIN events \subseteq DOMAIN navs
    PROVE  /\ day \in DOMAIN UpTo(navs, day)
           /\ Computable(UpTo(navs, day), UpTo(events, day))
           /\ Adjusted(UpTo(navs, day), UpTo(events, day), day) = Adjusted(navs, events, day)
  <1> DEFINE N == UpTo(navs, day)
             E == UpTo(events, day)
             past == {x \in DOMAIN events : x <= day}
  <1>1. /\ DOMAIN N = {d \in DOMAIN navs : d <= day} /\ \A d \in DOMAIN N : N[d] = navs[d]
        /\ DOMAIN E = past /\ \A d \in past : E[d] = events[d]
    BY DEF UpTo, Restrict
  <1>2. day \in Int /\ day <= day
    <2>1. day \in Nat
      BY DaysAreNumbers
    <2> QED BY <2>1
  <1>3. past \subseteq DOMAIN N
    BY <1>1
  <1>4. {x \in DOMAIN E : x <= day} = past
    BY <1>1
  <1> HIDE DEF N, E, past
  <1>5. \A e \in past : N[e] = navs[e] /\ E[e] = events[e]
    BY <1>1, <1>3
  <1>6. {<<e, N[e], E[e]>> : e \in past} = {<<e, navs[e], events[e]>> : e \in past}
    BY <1>5
  <1>7. Adjusted(N, E, day) = Adjusted(navs, events, day)
    BY <1>1, <1>2, <1>4, <1>6 DEF Adjusted, past
  <1>8. Computable(N, E)
    BY <1>1, <1>3 DEF Computable
  <1> QED BY <1>1, <1>2, <1>7, <1>8 DEF N, E

(* A day's values are read from the day on which they become available. *)
LEMMA ReadFrom ==
    ASSUME NEW navs \in NavTable, NEW events, Timely(navs, events),
           NEW d \in Days, NEW time \in Nat
    PROVE  d \in DOMAIN Resolve(navs, time) <=> navs[d] # <<>> /\ d + NavLag <= time
  <1>1. navs[d] \in Seq(NavRow) /\ d + NavLag \in Nat
    BY DaysAreNumbers, LagAssumption DEF NavTable
  <1>2. \A v \in DOMAIN navs[d] : navs[d][v].at = d + NavLag
    BY DEF Timely
  <1>3. VisibleVersions(navs[d], time) = IF d + NavLag <= time THEN DOMAIN navs[d] ELSE {}
    BY <1>1, <1>2, AllAtOnce
  <1>4. navs[d] # <<>> <=> DOMAIN navs[d] # {}
    BY <1>1
  <1> QED BY <1>3, <1>4 DEF Resolve

(* The stored column and the reading side agree. *)
THEOREM ColumnAlwaysAgrees == Spec => []ColumnAgrees
  <1>1. IInv /\ ColumnInv => ColumnAgrees
    <2> SUFFICES ASSUME IInv, ColumnInv, NEW d \in Days,
                        nav[d] # <<>>, checked # None, Latest(nav[d]).at <= checked
                 PROVE  Latest(nav[d]).adjusted = AdjustedNavSeries(Latest(nav[d]).at, d)[d]
      BY DEF ColumnAgrees
    <2> DEFINE time == Latest(nav[d]).at
               N == Resolve(nav, time)
               E == Resolve(event, time)
    <2>1. nav \in NavTable /\ event \in EventTable /\ Timely(nav, event)
          /\ Filled(nav, event, checked)
      BY DEF IInv, TypeInv, ColumnInv
    <2>2. time = d + NavLag /\ time \in Nat
      <3>1. nav[d] \in Seq(NavRow) /\ Len(nav[d]) \in DOMAIN nav[d]
        BY <2>1 DEF NavTable
      <3>2. nav[d][Len(nav[d])].at = d + NavLag
        BY <2>1, <3>1 DEF Timely
      <3> QED BY <3>2, DaysAreNumbers, LagAssumption DEF Latest
    <2>3. Computable(N, E) /\ Latest(nav[d]).adjusted = Adjusted(N, E, d)
      BY <2>1, <2>2 DEF Filled
    <2> HIDE DEF time
    <2>4. d \in DOMAIN N
      BY <2>1, <2>2, DaysAreNumbers, ReadFrom
    <2>5. DOMAIN N \subseteq Days /\ DOMAIN E \subseteq Days
      BY <2>1, ResolvedNavs, ResolvedEvents
    <2> HIDE DEF N, E
    <2>6. DOMAIN E \subseteq DOMAIN N
      BY <2>3, <2>4 DEF Computable
    <2>7. /\ d \in DOMAIN UpTo(N, d) /\ Computable(UpTo(N, d), UpTo(E, d))
          /\ Adjusted(UpTo(N, d), UpTo(E, d), d) = Adjusted(N, E, d)
      BY <2>4, <2>5, <2>6, AdjustedUpTo
    <2>8. AdjustedNavSeries(time, d) =
            [x \in DOMAIN UpTo(N, d) |-> Adjusted(UpTo(N, d), UpTo(E, d), x)]
      BY <2>7 DEF AdjustedNavSeries, N, E
    <2>9. AdjustedNavSeries(time, d)[d] = Adjusted(N, E, d)
      BY <2>7, <2>8
    <2> QED BY <2>3, <2>9 DEF time
  <1> QED BY <1>1, Invariance, ColumnInvariant, PTL

(* Whatever the last batch has accepted can be read. *)
THEOREM ChainAlwaysHolds == Spec => []ChainHolds
  <1>1. IInv /\ ColumnInv => ChainHolds
    <2> SUFFICES ASSUME IInv, ColumnInv, checked # None, NEW decision \in 0..checked,
                        NEW last \in DOMAIN Resolve(nav, decision)
                 PROVE  AdjustedNavSeries(decision, last) # None
      BY DEF ChainHolds
    <2> DEFINE N == UpTo(Resolve(nav, decision), last)
               E == UpTo(Resolve(event, decision), last)
               time == last + NavLag
    <2>1. nav \in NavTable /\ event \in EventTable /\ Timely(nav, event)
          /\ Filled(nav, event, checked) /\ checked \in Nat
      BY DaysAreNumbers DEF IInv, TypeInv, ColumnInv
    <2>2. last \in Days /\ nav[last] # <<>> /\ time <= decision /\ time \in Nat
      <3>1. last \in Days /\ last \in Nat /\ decision \in Nat
        <4>1. last \in Days
          BY <2>1, ResolvedNavs
        <4>2. decision \in Nat
          BY <2>1
        <4> QED BY <4>1, <4>2, DaysAreNumbers
      <3>2. nav[last] # <<>> /\ last + NavLag <= decision
        BY <2>1, <3>1, ReadFrom
      <3> QED BY <3>1, <3>2, LagAssumption
    <2>3. DOMAIN Resolve(event, time) \subseteq DOMAIN Resolve(nav, time)
      <3>1. Computable(Resolve(nav, time), Resolve(event, time))
        BY <2>1, <2>2, DaysAreNumbers, LagAssumption DEF Filled
      <3>2. last \in DOMAIN Resolve(nav, time)
        BY <2>1, <2>2, ReadFrom
      <3> QED BY <3>1, <3>2 DEF Computable
    <2>4. /\ DOMAIN N = {d \in DOMAIN Resolve(nav, decision) : d <= last}
          /\ \A d \in DOMAIN N : N[d] = Resolve(nav, decision)[d]
          /\ DOMAIN E = {d \in DOMAIN Resolve(event, decision) : d <= last}
          /\ \A d \in DOMAIN E : E[d] = Resolve(event, decision)[d]
      BY DEF UpTo, Restrict
    <2> HIDE DEF N, E
    <2>5. ASSUME NEW e \in DOMAIN E PROVE e \in DOMAIN N
      <3>1. e \in Days /\ e \in DOMAIN Resolve(event, decision) /\ e <= last
        BY <2>1, <2>4, ResolvedEvents
      <3>2. PICK v \in DOMAIN event[e] : TRUE
        <4>1. VisibleVersions(event[e], decision) # {}
          BY <3>1 DEF Resolve
        <4> QED BY <4>1 DEF VisibleVersions
      <3>3. event[e][v].at <= time
        <4>1. event[e][v].at <= e + NavLag
          BY <2>1, <3>1 DEF Timely
        <4>2. event[e][v].at \in Nat
          <5>1. event[e][v] \in EventRow
            BY <2>1, <3>1 DEF EventTable
          <5> QED BY <5>1 DEF EventRow
        <4> QED BY <2>2, <3>1, <4>1, <4>2, DaysAreNumbers, LagAssumption
      <3>4. e \in DOMAIN Resolve(event, time)
        BY <3>1, <3>3 DEF Resolve, VisibleVersions
      <3>5. e \in DOMAIN Resolve(nav, time)
        BY <2>3, <3>4
      <3>6. e \in DOMAIN Resolve(nav, decision)
        <4>1. nav[e] # <<>> /\ e + NavLag <= time
          BY <2>1, <2>2, <3>1, <3>5, ReadFrom
        <4>2. e + NavLag <= decision /\ decision \in Nat
          BY <2>1, <2>2, <3>1, <4>1, DaysAreNumbers, LagAssumption
        <4> QED BY <2>1, <3>1, <4>1, <4>2, ReadFrom
      <3> QED BY <2>4, <3>1, <3>6
    <2>6. Computable(N, E)
      BY <2>5 DEF Computable
    <2>7. /\ DOMAIN N \subseteq Days /\ \A d \in DOMAIN N : N[d] \in Values
          /\ DOMAIN E \subseteq Days /\ \A d \in DOMAIN E : E[d] \in SUBSET Inputs
      BY <2>1, <2>4, ResolvedNavs, ResolvedEvents
    <2>8. [d \in DOMAIN N |-> Adjusted(N, E, d)] \in [DOMAIN N -> AdjustedValues]
      BY <2>6, <2>7, AdjustedOfSeries
    <2>9. AdjustedNavSeries(decision, last) = [d \in DOMAIN N |-> Adjusted(N, E, d)]
      BY <2>6 DEF AdjustedNavSeries, N, E
    <2>10. None \notin [DOMAIN N -> AdjustedValues]
      BY <2>7, SeriesAssumption
    <2> QED BY <2>8, <2>9, <2>10
  <1> QED BY <1>1, Invariance, ColumnInvariant, PTL

=============================================================================
