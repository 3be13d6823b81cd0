-------------------------- MODULE EstimationInputs --------------------------
(***************************************************************************)
(* How the return and risk estimation of a decision makes its inputs: the  *)
(* return series of the selected funds, the benchmark that is in force on  *)
(* each day, the excess returns over it, and the complete-case sample of   *)
(* each return basis.                                                      *)
(*                                                                         *)
(* Every operator takes the data as a record, "world":                     *)
(*   nav       per fund, the quality of each day's value that is stored    *)
(*   class     per fund, its classification, or None                       *)
(*   mappings  the benchmark mappings, of a fund or of a classification    *)
(*   index     per index, the quality of each day's value that is stored   *)
(* All rows of a world are visible to the decision, but for mappings that  *)
(* become available after it.  A return is the day that it is measured     *)
(* from: the value itself plays no part in what is kept and what is not.   *)
(***************************************************************************)
EXTENDS Integers, FiniteSetsExt, Functions

CONSTANTS
    Shares, Classes, Indexes,
    Components,         \* of each benchmark: its indexes
    ValidFor,           \* of each benchmark: the classifications it may serve
    Lookback,           \* returns that the window holds
    MinTOverN,          \* observations that the sample needs per fund
    LastDay,            \* the decision's day
    None

Days == 1..LastDay
Benchmarks == DOMAIN Components
Quality == {"AVAILABLE", "UNAVAILABLE"}
Bases == {"ABSOLUTE", "EXCESS"}

ASSUME InputsAssumption ==
    /\ {Lookback, LastDay} \subseteq Nat \ {0} /\ MinTOverN \in Nat
    /\ Components \in [Benchmarks -> (SUBSET Indexes) \ {{}}]
    /\ ValidFor \in [Benchmarks -> SUBSET Classes]
    /\ None \notin Shares \cup Classes \cup Int

Rows == UNION {[days -> Quality] : days \in SUBSET Days}
Mapping == [share : Shares \cup {None}, class : Classes \cup {None},
            benchmark : Benchmarks, from : Days, to : Days \cup {None}, at : Int]

-----------------------------------------------------------------------------
(* Returns *)

Previous(days, day) == Max({d \in days : d < day})

(* A return is measured from the level before, if that one is known: a     *)
(* level that is stored but not usable ends the chain.                     *)
Returns(level) ==
    LET days == DOMAIN level
    IN  [d \in {e \in days : /\ level[e] /\ \E x \in days : x < e
                             /\ level[Previous(days, e)]} |-> Previous(days, d)]

(* An adjusted value is as good as the worst value and event before it.    *)
NavIsAvailable(rows, day) == \A d \in DOMAIN rows : d <= day => rows[d] # "UNAVAILABLE"

Window(rows) ==
    {d \in DOMAIN rows : Cardinality({e \in DOMAIN rows : e > d}) <= Lookback}
AbsoluteReturns(world, share) ==
    LET rows == world.nav[share]
    IN  Returns([d \in Window(rows) |-> NavIsAvailable(rows, d)])

-----------------------------------------------------------------------------
(* The benchmark mapping in force *)

(* A fund's own mapping goes before that of its classification; then the   *)
(* one that is valid since later, available later, stored later.           *)
Outranks(world, m, n) ==
    LET Key(k) == LET row == world.mappings[k]
                  IN  <<IF row.share # None THEN 1 ELSE 0, row.from, row.at, k>>
    IN  \E i \in 1..4 : Key(m)[i] > Key(n)[i] /\ \A j \in 1..(i - 1) : Key(m)[j] = Key(n)[j]
Selected(world, candidates) ==
    CHOOSE m \in candidates : \A n \in candidates \ {m} : Outranks(world, m, n)

InForce(row, day) == row.from <= day /\ (row.to = None \/ row.to > day)
Visible(world, share) ==
    {m \in DOMAIN world.mappings :
        /\ world.mappings[m].at <= LastDay
        /\ \/ world.mappings[m].share = share
           \/ world.mappings[m].class # None /\ world.mappings[m].class = world.class[share]}

(* A day's mapping, on its own. *)
Resolve(world, share, day) ==
    LET candidates == {m \in Visible(world, share) : InForce(world.mappings[m], day)}
    IN  IF candidates = {} THEN None ELSE Selected(world, candidates)

Until(row, end) == IF row.to = None THEN end ELSE Min({end, row.to})
\* Mutant of Boundaries: the end of a mapping is forgotten.
BoundariesOfStarts(rows, first, end) == {first, end} \cup {Max({first, row.from}) : row \in rows}
Boundaries(rows, first, end) ==
    {first, end} \cup {Max({first, row.from}) : row \in rows}
                 \cup {Until(row, end) : row \in rows}

(* The mappings of a range of days, as segments: from one boundary to the  *)
(* next a single mapping is in force; neighbours with the same are merged. *)
Segments(world, share, first, last) ==
    LET end == last + 1
        mappings == {m \in Visible(world, share) :
                        /\ world.mappings[m].from < end
                        /\ Until(world.mappings[m], end) > first}
        boundaries == Boundaries({world.mappings[m] : m \in mappings}, first, end)
        Candidates(b) == {m \in mappings : InForce(world.mappings[m], b)}
        pieces == {b \in boundaries \ {end} : Candidates(b) # {}}
        choice == [b \in pieces |-> Selected(world, Candidates(b))]
        starts == {b \in pieces : \/ b = Min(pieces)
                                  \/ choice[b] # choice[Previous(pieces, b)]}
        Last(b) == Max({c \in pieces : c >= b /\ \A s \in starts : s <= b \/ s > c})
    IN  {[from |-> b, to |-> Min({e \in boundaries : e > Last(b)}), mapping |-> choice[b]] :
            b \in starts}

(* The fund's present classification stands for the whole window.          *)
IsUsable(world, share, segment) ==
    world.class[share] \in ValidFor[world.mappings[segment.mapping].benchmark]

-----------------------------------------------------------------------------
(* Benchmark and excess returns *)

(* A composite has a level on the days on which all its indexes have one.  *)
Levels(world, share, segment) ==
    LET indexes == Components[world.mappings[segment.mapping].benchmark]
        days == {d \in segment.from .. (segment.to - 1) :
                    \E i \in indexes : d \in DOMAIN world.index[i]}
    IN  [d \in days |->
            /\ IsUsable(world, share, segment)
            /\ \A i \in indexes : d \in DOMAIN world.index[i] /\ world.index[i][d] = "AVAILABLE"]

\* Mutant of SwitchDates: only where a segment follows the one before at once.
SwitchDatesOfNeighbours(segments) == {s.from : s \in segments} \cap {s.to : s \in segments}
SwitchDates(segments) == {s.from : s \in segments} \ {Min({s.from : s \in segments})}

\* Mutant of BenchmarkReturns: one series over all segments.
BenchmarkReturnsJoined(world, share, segments) ==
    LET levels == [s \in segments |-> Levels(world, share, s)]
        days == UNION {DOMAIN levels[s] : s \in segments}
    IN  Returns([d \in days |-> \E s \in segments : d \in DOMAIN levels[s] /\ levels[s][d]])

(* Each segment is a series of its own, and a day of change has no return. *)
BenchmarkReturns(world, share, segments) ==
    LET returns == [s \in segments |-> Returns(Levels(world, share, s))]
        days == (UNION {DOMAIN returns[s] : s \in segments}) \ SwitchDates(segments)
    IN  [d \in days |-> returns[CHOOSE s \in segments : d \in DOMAIN returns[s]][d]]

WindowSegments(world, share) ==
    LET window == Window(world.nav[share])
    IN  IF world.class[share] = None \/ window = {} THEN {}
        ELSE Segments(world, share, Min(window), Max(window))

ExcessReturns(world, share) ==
    LET segments == WindowSegments(world, share)
        fund == AbsoluteReturns(world, share)
        benchmark == BenchmarkReturns(world, share, segments)
    IN  IF segments = {} THEN <<>>
        ELSE [d \in DOMAIN fund \cap DOMAIN benchmark |->
                [fund |-> fund[d], benchmark |-> benchmark[d]]]

-----------------------------------------------------------------------------
(* The sample of a basis *)

(* Funds with fewer than two returns are left out, then every day on which *)
(* one of the others has none.                                             *)
Align(series) ==
    LET members == {s \in Shares : Cardinality(DOMAIN series[s]) >= 2}
        all == UNION {DOMAIN series[s] : s \in members}
        dates == {d \in all : \A s \in members : d \in DOMAIN series[s]}
    IN  [members |-> members, dates |-> dates, dropped |-> all \ dates]

Switches(world, basis) ==
    IF basis = "ABSOLUTE" THEN {}
    ELSE UNION {SwitchDates(WindowSegments(world, s)) :
                    s \in {x \in Shares : WindowSegments(world, x) # {}}}

(* A sample that is too small rejects the whole basis. *)
Sampled(aligned, switches) ==
    LET available == /\ aligned.members # {}
                     /\ Cardinality(aligned.dates) >= MinTOverN * Cardinality(aligned.members)
    IN  [available |-> available,
         members |-> IF available THEN aligned.members ELSE {},
         dates |-> IF available THEN aligned.dates ELSE {},
         dropped |-> aligned.dropped \cup switches,
         warned |-> switches # {}]

Basis(world, basis) ==
    Sampled(Align([s \in Shares |-> IF basis = "ABSOLUTE" THEN AbsoluteReturns(world, s)
                                    ELSE ExcessReturns(world, s)]),
            Switches(world, basis))

-----------------------------------------------------------------------------
(* Properties, of a world *)

WindowDays(world, share) ==
    LET window == Window(world.nav[share])
    IN  IF window = {} THEN {} ELSE Min(window)..Max(window)
Classified(world) == {s \in Shares : world.class[s] # None}
(* The mapping of each day of a fund's window. *)
InForceOn(world, share) == [d \in WindowDays(world, share) |-> Resolve(world, share, d)]

(* The segments of a fund's window give each of its days the mapping that  *)
(* is in force on that day, no two segments overlap, and a day without a   *)
(* mapping is in none (two readings of one table: resolve_history slices   *)
(* a range, resolve looks up a day).                                       *)
SegmentsAgree(world) ==
    \A s \in Classified(world) :
        LET segments == WindowSegments(world, s)
            mapping == InForceOn(world, s)
            Over(d) == {g \in segments : g.from <= d /\ d < g.to}
        IN  \A d \in DOMAIN mapping :
                IF mapping[d] = None THEN Over(d) = {}
                ELSE \E g \in Over(d) : Over(d) = {g} /\ g.mapping = mapping[d]

(* An excess return in the sample compares with one benchmark, the one     *)
(* whose mapping is in force on every day from the one that the            *)
(* benchmark's return is measured from.  All its indexes have a value on   *)
(* the first and the last of them, and none has a row between.  The fund's *)
(* own return is measured from the last row of the fund before, which has  *)
(* a value: it may begin before the benchmark's, and before a change of    *)
(* the mapping, but only by days on which nothing is stored of the fund    *)
(* (_benchmark_returns and the join of load: no return crosses two         *)
(* benchmarks, fills or steps over a value that is stored but not usable). *)
ExcessKeepsToOneBenchmark(world) ==
    LET sample == Basis(world, "EXCESS")
    IN  \A s \in sample.members :
            LET excess == ExcessReturns(world, s)
                mapping == InForceOn(world, s)
                Joins(rows, from, to) == /\ {from, to} \subseteq DOMAIN rows
                                         /\ rows[from] = "AVAILABLE" /\ rows[to] = "AVAILABLE"
                                         /\ \A e \in (from + 1)..(to - 1) : e \notin DOMAIN rows
            IN  \A d \in sample.dates :
                    LET from == excess[d].benchmark
                    IN  /\ mapping[d] # None
                        /\ \A e \in from..d : mapping[e] = mapping[d]
                        /\ \A i \in Components[world.mappings[mapping[d]].benchmark] :
                                Joins(world.index[i], from, d)
                        /\ Joins(world.nav[s], excess[d].fund, d)

(* A change of a fund's mapping shows in a basis.                          *)
Shows(basis, share, day) ==
    /\ day \in basis.dropped /\ basis.warned
    /\ share \in basis.members => day \notin basis.dates

(* Each day of a fund's window on which another mapping begins to be in    *)
(* force than on the day before shows in the excess basis: it is listed    *)
(* among the dropped dates, the basis warns of it, and no sample that the  *)
(* fund is in holds the day.  That is so also for a fund that the sample   *)
(* leaves out, and after days without any mapping (benchmark_switch_dates  *)
(* are the starts of segments, which look at no day).                      *)
SwitchesAreShown(world) ==
    \A s \in Classified(world) :
        LET mapping == InForceOn(world, s)
        IN  \A d \in DOMAIN mapping :
                /\ mapping[d] # None
                /\ \E e \in DOMAIN mapping : e < d /\ mapping[e] # None
                /\ mapping[d - 1] # mapping[d]
                => Shows(Basis(world, "EXCESS"), s, d)

=============================================================================
