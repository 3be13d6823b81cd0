------------------------------- MODULE NavPit -------------------------------
(***************************************************************************)
(* The net asset values and corporate actions of one share class: how an   *)
(* ingestion stores them in versions, how it rebuilds the column of        *)
(* adjusted values, and what a decision of a given day reads.              *)
(*                                                                         *)
(* A batch locks the share class, fetches the values, fetches the events,  *)
(* rebuilds the column and commits; when the rebuilding fails, the batch   *)
(* is rolled back.  The provider may answer anything: leave days out,      *)
(* revise them, announce events ahead of their day.                        *)
(*                                                                         *)
(* A day's event is the set of its inputs, a dividend, a split or both.    *)
(* An adjusted value is what it is computed from: the value of its day and *)
(* the events up to it, each with the value at which it is reinvested.     *)
(***************************************************************************)
EXTENDS Integers, Sequences, FiniteSetsExt, Functions

CONSTANTS
    Workers,
    Values,             \* net asset values, all positive
    EventDays,          \* days that may have an event
    NavLag, DividendLag, SplitLag,  \* declared disclosure lags, in days
    LastDay, MaxVersions, MaxBatches,   \* bounds
    None

Days == 0..LastDay
Inputs == {"dividend", "split"}
Lag == [dividend |-> DividendLag, split |-> SplitLag]

ASSUME BoundsAssumption ==
    {LastDay, MaxVersions, MaxBatches} \subseteq Nat /\ EventDays \subseteq Days
(* The seeded policy has the same lag for all three data sets. *)
ASSUME LagAssumption ==
    /\ {NavLag, DividendLag, SplitLag} \subseteq Nat
    /\ DividendLag <= NavLag /\ SplitLag <= NavLag
ASSUME NoneAssumption ==
    None \notin Values \cup Days /\ \A inputs \in SUBSET Inputs : None # inputs

VARIABLES
    today,
    nav,        \* fund_nav: the versions of each day
    event,      \* fund_distribution: the versions of each day
    tx,         \* what each worker has done in its transaction
    batches,    \* batches that were committed
    checked,    \* the day for which the last of them rebuilt the column
    reported    \* the provider's last word on each day, in committed batches

vars == <<today, nav, event, tx, batches, checked, reported>>

(* What the provider may answer: days that have nothing are left out. *)
NavFrames == UNION {[days -> Values] : days \in SUBSET (0..today)}
EventFrames == UNION {[days -> (SUBSET Inputs) \ {{}}] : days \in SUBSET EventDays}
NoRows == [d \in Days |-> <<>>]

Init ==
    /\ today = 0
    /\ nav = NoRows
    /\ event = NoRows
    /\ tx = [w \in Workers |-> None]
    /\ batches = 0
    /\ checked = None
    /\ reported = [nav |-> [d \in Days |-> None], event |-> [d \in Days |-> None]]

-----------------------------------------------------------------------------
(* Reading: the latest version that is available at a time. *)

Latest(rows) == rows[Len(rows)]
VisibleVersions(rows, time) == {v \in DOMAIN rows : rows[v].at <= time}
CurrentVersion(rows, time) ==
    LET seen == VisibleVersions(rows, time) IN IF seen = {} THEN 0 ELSE Max(seen)
Resolve(table, time) ==
    [d \in {e \in Days : VisibleVersions(table[e], time) # {}} |->
        table[d][CurrentVersion(table[d], time)].value]

(* No value can be computed if an event has no price to be reinvested at.  *)
Computable(navs, events) == DOMAIN navs = {} \/ DOMAIN events \subseteq DOMAIN navs
Adjusted(navs, events, day) ==
    [value |-> navs[day],
     reinvested |-> {<<e, navs[e], events[e]>> : e \in {x \in DOMAIN events : x <= day}}]

UpTo(series, day) == Restrict(series, {d \in DOMAIN series : d <= day})

(* What a decision reads of the days up to another; None: unavailable. *)
AdjustedNavSeries(decision, dateTo) ==
    LET navs == UpTo(Resolve(nav, decision), dateTo)
        events == UpTo(Resolve(event, decision), dateTo)
    IN  IF Computable(navs, events)
        THEN [d \in DOMAIN navs |-> Adjusted(navs, events, d)]
        ELSE None

-----------------------------------------------------------------------------
(* Storing *)

\* Mutant of Revise: a value that any version had is not stored again.
ReviseOnce(rows, row) ==
    IF \E v \in DOMAIN rows : rows[v].value = row.value THEN rows
    ELSE Append(rows, row)

(* A value that is that of the latest version makes no new version. *)
Revise(rows, row) ==
    IF rows # <<>> /\ Latest(rows).value = row.value THEN rows
    ELSE Append(rows, row)

NavRows(frame) ==
    [d \in DOMAIN frame |-> [value |-> frame[d], at |-> d + NavLag, adjusted |-> None]]

(* A day's dividend and split are merged, and available with the later one.*)
EventRows(frame) ==
    [d \in DOMAIN frame |-> [value |-> frame[d], at |-> Max({d + Lag[i] : i \in frame[d]})]]

Ingest(table, rows) ==
    [d \in Days |-> IF d \in DOMAIN rows THEN Revise(table[d], rows[d]) ELSE table[d]]
Heard(said, frame) == [d \in Days |-> IF d \in DOMAIN frame THEN frame[d] ELSE said[d]]
Bounded(table) == \A d \in Days : Len(table[d]) <= MaxVersions

-----------------------------------------------------------------------------
(* Rebuilding the column of adjusted values *)

Checkpoints(navs, events, time) ==
    {c \in 0..time : \E table \in {navs, events}, d \in Days :
                        \E v \in DOMAIN table[d] : table[d][v].at = c}

(* The checkpoints at which a version is the current one. *)
Reign(rows, version, checkpoints) ==
    {c \in checkpoints : CurrentVersion(rows, c) = version}

(* A version gets its value at the first checkpoint at which it is current,*)
(* and from what is available then.                                        *)
Stamps(navs, events, time) ==
    LET checkpoints == Checkpoints(navs, events, time)
        reigns == [d \in Days |-> [v \in DOMAIN navs[d] |-> Reign(navs[d], v, checkpoints)]]
    IN  UNION {{[day |-> d, version |-> v, at |-> Min(reigns[d][v])] :
                    v \in {u \in DOMAIN navs[d] : reigns[d][u] # {}}} : d \in Days}

(* A checkpoint that makes no version current is not looked at. *)
Broken(navs, events, time) ==
    \E s \in Stamps(navs, events, time) :
        ~Computable(Resolve(navs, s.at), Resolve(events, s.at))

\* Mutant of Rebuilt: only versions without a value get one.
RebuiltOnce(navs, events, time) ==
    LET stamps == Stamps(navs, events, time)
    IN  [d \in Days |-> [v \in DOMAIN navs[d] |->
        LET own == {s \in stamps : s.day = d /\ s.version = v}
        IN  IF own = {} \/ navs[d][v].adjusted # None THEN navs[d][v]
            ELSE LET at == (CHOOSE s \in own : TRUE).at
                 IN  [navs[d][v] EXCEPT !.adjusted =
                        Adjusted(Resolve(navs, at), Resolve(events, at), d)]]]

(* Every batch gives all the versions that it sees their values again. *)
Rebuilt(navs, events, time) ==
    LET stamps == Stamps(navs, events, time)
    IN  [d \in Days |-> [v \in DOMAIN navs[d] |->
        LET own == {s \in stamps : s.day = d /\ s.version = v}
        IN  IF own = {} THEN navs[d][v]
            ELSE LET at == (CHOOSE s \in own : TRUE).at
                 IN  [navs[d][v] EXCEPT !.adjusted =
                        Adjusted(Resolve(navs, at), Resolve(events, at), d)]]]

-----------------------------------------------------------------------------
(* A batch *)

Stage(w) == IF tx[w] = None THEN "idle" ELSE tx[w].stage

\* Mutant of Unlocked: the lock is given up before the batch is committed.
UnlockedEarly == \A w \in Workers : Stage(w) \in {"idle", "rebuilt"}

(* Batches of a share class wait for the one that has its lock. *)
Unlocked == \A w \in Workers : Stage(w) = "idle"

(* A job that began, and read the clock, on some day until today gets the  *)
(* lock on the share class and fetches the values of days until today.     *)
IngestNav(w) ==
    /\ Stage(w) = "idle"
    /\ batches < MaxBatches
    /\ Unlocked
    /\ \E frame \in NavFrames, day \in 0..today :
        /\ Bounded(Ingest(nav, NavRows(frame)))
        /\ tx' = [tx EXCEPT ![w] =
                    [stage |-> "priced", day |-> day, event |-> event,
                     nav |-> Ingest(nav, NavRows(frame)),
                     reported |-> [nav |-> Heard(reported.nav, frame),
                                   event |-> reported.event]]]
    /\ UNCHANGED <<today, nav, event, batches, checked, reported>>

(* It fetches the events, which may be announced ahead. *)
IngestDistributions(w) ==
    /\ Stage(w) = "priced"
    /\ \E frame \in EventFrames :
        /\ Bounded(Ingest(event, EventRows(frame)))
        /\ tx' = [tx EXCEPT ![w] =
                    [@ EXCEPT !.stage = "fetched", !.event = Ingest(event, EventRows(frame)),
                              !.reported.event = Heard(reported.event, frame)]]
    /\ UNCHANGED <<today, nav, event, batches, checked, reported>>

\* Mutant of RebuildAdjustedNav: what cannot be computed is left out.
RebuildLenient(w) ==
    /\ Stage(w) = "fetched"
    /\ \E day \in {tx[w].day, today} :
        tx' = [tx EXCEPT ![w] =
            [@ EXCEPT !.stage = "rebuilt", !.day = day,
                      !.nav = IF Broken(tx[w].nav, tx[w].event, day) THEN @
                              ELSE Rebuilt(tx[w].nav, tx[w].event, day)]]
    /\ UNCHANGED <<today, nav, event, batches, checked, reported>>

(* It rebuilds the column, as of the job's clock or, from the command line,*)
(* of the clock; when an event has no price, everything is rolled back.    *)
RebuildAdjustedNav(w) ==
    /\ Stage(w) = "fetched"
    /\ \E day \in {tx[w].day, today} :
        tx' = [tx EXCEPT ![w] =
            IF Broken(tx[w].nav, tx[w].event, day) THEN None
            ELSE [@ EXCEPT !.stage = "rebuilt", !.day = day,
                           !.nav = Rebuilt(tx[w].nav, tx[w].event, day)]]
    /\ UNCHANGED <<today, nav, event, batches, checked, reported>>

Commit(w) ==
    /\ Stage(w) = "rebuilt"
    /\ nav' = tx[w].nav
    /\ event' = tx[w].event
    /\ reported' = tx[w].reported
    /\ checked' = tx[w].day
    /\ batches' = batches + 1
    /\ tx' = [tx EXCEPT ![w] = None]
    /\ UNCHANGED today

(* A fetch or a parser fails, or the worker dies. *)
Fail(w) ==
    /\ Stage(w) # "idle"
    /\ tx' = [tx EXCEPT ![w] = None]
    /\ UNCHANGED <<today, nav, event, batches, checked, reported>>

Midnight ==
    /\ today < LastDay
    /\ today' = today + 1
    /\ UNCHANGED <<nav, event, tx, batches, checked, reported>>

Next ==
    \/ Midnight
    \/ \E w \in Workers :
        \/ IngestNav(w) \/ IngestDistributions(w)
        \/ RebuildAdjustedNav(w) \/ Commit(w) \/ Fail(w)

Spec == Init /\ [][Next]_vars
-----------------------------------------------------------------------------
(* Properties *)

AdjustedValues ==
    [value : Values, reinvested : SUBSET (Days \X Values \X (SUBSET Inputs))]

ASSUME SeriesAssumption == \A days \in SUBSET Days : None \notin [days -> AdjustedValues]

(* Every variable stays in its type. *)
TypeOK ==
    /\ today \in Days
    /\ \A d \in Days :
        /\ \A v \in DOMAIN nav[d] :
            /\ nav[d][v].value \in Values
            /\ nav[d][v].at \in Nat
            /\ nav[d][v].adjusted # None => nav[d][v].adjusted \in AdjustedValues
        /\ \A v \in DOMAIN event[d] : event[d][v].value \in (SUBSET Inputs) \ {{}}
    /\ \A w \in Workers : Stage(w) \in {"idle", "priced", "fetched", "rebuilt"}
    /\ batches \in 0..MaxBatches
    /\ checked \in Days \cup {None}

(* The versions of a day are exactly the provider's revisions of it: a     *)
(* rerun adds none, and the last is what the provider said last, also when *)
(* a value came back that an earlier version had (ingest.py, ingest_nav    *)
(* and ingest_distributions).                                              *)
Revised(table, said) ==
    \A d \in Days :
        /\ \A v \in DOMAIN table[d] \ {1} : table[d][v].value # table[d][v - 1].value
        /\ said[d] = IF table[d] = <<>> THEN None ELSE Latest(table[d]).value
VersionsAreRevisions ==
    Revised(nav, reported.nav) /\ Revised(event, reported.event)

(* However batches overlap, fail or are rolled back, a stored version is   *)
(* neither lost nor changed, but for its column of adjusted values.        *)
Kept(table, later) ==
    \A d \in Days : \A v \in DOMAIN table[d] :
        /\ v \in DOMAIN later[d]
        /\ later[d][v].value = table[d][v].value
        /\ later[d][v].at = table[d][v].at
RowsAreKept == [][Kept(nav, nav') /\ Kept(event, event')]_vars

(* The stored column and the reading side, which compute adjusted values   *)
(* separately, agree: the column of a day's last version is what a         *)
(* decision reads that is made when the version becomes available, for all *)
(* versions that were available to the last batch.                         *)
ColumnAgrees ==
    \A d \in Days :
        /\ nav[d] # <<>>
        /\ checked # None
        /\ Latest(nav[d]).at <= checked
        => LET time == Latest(nav[d]).at
           IN  Latest(nav[d]).adjusted = AdjustedNavSeries(time, d)[d]

(* What the last batch has accepted can be read: no decision until its day *)
(* finds the values unavailable, up to the last value that it sees.        *)
ChainHolds ==
    checked # None =>
        \A decision \in 0..checked :
            \A last \in DOMAIN Resolve(nav, decision) :
                AdjustedNavSeries(decision, last) # None

=============================================================================
