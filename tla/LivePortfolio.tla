--------------------------- MODULE LivePortfolio ---------------------------
(***************************************************************************)
(* The live portfolio and its rebalancing: the snapshot that the router    *)
(* api/routers/rebalance.py keeps in memory, the fills reported to it, the *)
(* orders delivered to a broker, drift, triggers and proposals.            *)
(*                                                                         *)
(* The handlers are synchronous functions that the server runs in threads. *)
(* Each looks the snapshot up, computes a new one and stores it, without a *)
(* lock: a request is what its thread has read so far.  Money is in whole  *)
(* units, weights are fractions of the equity in percent, compared by      *)
(* multiplying out.  A position without shares is one that is not there.   *)
(* Cost bases, holding days and texts are left out.                        *)
(***************************************************************************)
EXTENDS Integers, FiniteSets, Sequences, FiniteSetsExt

CONSTANTS
    Funds,
    Clients,            \* request threads
    Target,             \* target weights, in percent
    Capital,            \* the initial cash
    Prices, Fee,        \* prices of fills and of valuations, the fee of a fill
    FundLimit, CategoryLimit,   \* drift thresholds, in percent
    MinTrade,           \* the smallest trade, in percent
    Gains, CostRate,    \* expected improvements, and what a traded percent costs
    Period,             \* days between periodic rebalances
    MaxShares, MaxReports, MaxDeliveries, MaxEvents, LastDay,   \* bounds
    None

ASSUME FundsAssumption == IsFiniteSet(Funds)
ASSUME BoundsAssumption ==
    {MaxShares, MaxReports, MaxDeliveries, MaxEvents, LastDay} \subseteq Nat
ASSUME MoneyAssumption == Prices \subseteq Nat /\ Capital \in Nat
ASSUME WeightAssumption == Target \in [Funds -> 0..100]
ASSUME LimitAssumption ==
    {FundLimit, CategoryLimit, MinTrade, Fee, CostRate, Period} \subseteq Nat

VARIABLES
    stored,     \* _LIVE_PORTFOLIOS of this portfolio
    request,    \* what each thread works on, and the snapshot it has read
    events,     \* _HISTORICAL_REBALANCES
    filed,      \* _REBALANCE_TRADES: the traded funds, by decision day
    orders,     \* the broker's open orders
    strayed,    \* the funds for which, while their order was open, a report
                \* came in that was about something else
    books,      \* what the acknowledged reports amount to
    fresh,      \* threads whose snapshot is the stored one, not replaced since
    serial      \* whether every snapshot was stored over the one it came from

vars == <<stored, request, events, filed, orders, strayed, books, fresh, serial>>

Days == 0..LastDay
Fills == {"PARTIALLY_FILLED", "FILLED"}
Dead == {"REJECTED", "EXPIRED"}
Sides == {"BUY", "SELL"}
Eligibility == {"FULLY_ELIGIBLE", "HOLD_ONLY", "EXIT_ONLY", "NOT_TRADABLE"}
Outcomes == {"RECOMMENDED", "SKIPPED_COST_BENEFIT", "SKIPPED_FILTERED",
             "SKIPPED_NO_DELTA"}

(* Of a report without a fill the side does not matter. *)
Reports == [kind : {"report"}, fund : Funds, side : Sides, shares : 1..MaxShares,
            price : Prices, status : Fills]
    \cup [kind : {"report"}, fund : Funds, side : {"BUY"}, shares : {0},
          price : {0}, status : Dead \cup {"SUBMITTED"}]
Evaluations == [kind : {"evaluate"}, day : Days, gain : Gains]
Gets == [kind : {"get"}]

(* A snapshot: cash, the stored equity, shares and prices of the actual    *)
(* positions, shares of the pending ones, the flag of a pending execution  *)
(* and the day of the last delivery.                                       *)
Snapshot ==
    [cash : Int, equity : Int, shares : [Funds -> Nat],
     price : [Funds -> Prices \cup {0}], pending : [Funds -> Nat],
     waiting : BOOLEAN, last : Days \cup {None}]

Orders == [side : Sides, left : 1..MaxShares]
Files == [kind : {"file"}, day : Days]
Request == [op : Reports \cup Evaluations \cup Gets \cup Files,
            base : Snapshot \cup {None}]

ASSUME NoneAssumption ==
    /\ None \notin Snapshot \cup Request \cup Orders
    /\ \A S \in SUBSET Funds : None # S

Opening ==
    [cash |-> Capital, equity |-> Capital, shares |-> [f \in Funds |-> 0],
     price |-> [f \in Funds |-> 0], pending |-> [f \in Funds |-> 0],
     waiting |-> FALSE, last |-> None]

Larger(m, n) == IF m > n THEN m ELSE n
Magnitude(n) == Larger(n, -n)
Total(value(_)) == MapThenSumSet(value, Funds)

ValueOf(s, f) == s.shares[f] * s.price[f]
Valued(s) == [s EXCEPT !.equity = s.cash + Total(LAMBDA f : ValueOf(s, f))]
Flagged(s) == [s EXCEPT !.waiting = \E f \in Funds : s.pending[f] > 0]

Init ==
    /\ stored = None
    /\ request = [c \in Clients |-> None]
    /\ events = <<>>
    /\ filed = [d \in Days |-> None]
    /\ orders = [f \in Funds |-> None]
    /\ strayed = {}
    /\ books = [cash |-> Capital, shares |-> [f \in Funds |-> 0],
                short |-> FALSE, reports |-> 0, deliveries |-> 0]
    /\ fresh = {}
    /\ serial = TRUE

-----------------------------------------------------------------------------
(* The snapshot's own operations *)

\* Mutant of Fill: a bought position replaces the one that is held.
FillReplacing(s, r) ==
    [s EXCEPT !.cash = IF r.side = "BUY" THEN @ - (r.shares * r.price + Fee)
                       ELSE @ + (r.shares * r.price - Fee),
              !.shares[r.fund] = IF r.side = "BUY" THEN r.shares
                                 ELSE Larger(0, @ - r.shares),
              !.price[r.fund] = r.price]

(* A buy pays for its shares, a sale of more shares than are held sells    *)
(* them all but is paid in full.                                           *)
Fill(s, r) ==
    LET held == s.shares[r.fund]
        left == IF r.side = "BUY" THEN held + r.shares
                ELSE Larger(0, held - r.shares)
        amount == r.shares * r.price
    IN  [s EXCEPT !.cash = IF r.side = "BUY" THEN @ - (amount + Fee)
                           ELSE @ + (amount - Fee),
                  !.shares[r.fund] = left,
                  !.price[r.fund] = IF left = 0 THEN 0 ELSE r.price]

\* Mutant of Settle: a partial fill ends the pending order.
SettleAtOnce(s, r) ==
    IF r.status = "SUBMITTED" THEN s ELSE [s EXCEPT !.pending[r.fund] = 0]

(* The pending shares are those of the fund, whatever the report's side. *)
Settle(s, r) ==
    [s EXCEPT !.pending[r.fund] =
        CASE r.status \in {"FILLED"} \cup Dead -> 0
          [] r.status = "PARTIALLY_FILLED" -> Larger(0, @ - r.shares)
          [] OTHER -> @]

Process(s, r) ==
    LET filled == IF r.status \in Fills THEN Fill(s, r) ELSE s
    IN  Flagged(Valued(Settle(filled, r)))

MarkToMarket(s, price) ==
    Valued([s EXCEPT !.price = [f \in Funds |-> IF s.shares[f] = 0 THEN 0
                                                ELSE price[f]]])

-----------------------------------------------------------------------------
(* Drift, triggers and proposals, as operators on a snapshot *)

(* Weights are numerators over 100 * Scale: no weight without equity. *)
Scale(s) == IF s.equity > 0 THEN s.equity ELSE 1
Weight(s, f) == IF s.equity > 0 THEN 100 * ValueOf(s, f) ELSE 0
Gap(s, f) == Target[f] * Scale(s) - Weight(s, f)

FundDrift(s, frozen) ==
    \E f \in Funds \ frozen : Magnitude(Gap(s, f)) >= FundLimit * Scale(s)
CategoryGap(s, funds) == MapThenSumSet(LAMBDA f : Gap(s, f), funds)
CategoryDrift(s, categories) ==
    \E funds \in categories :
        Magnitude(CategoryGap(s, funds)) >= CategoryLimit * Scale(s)
(* With frozen = Funds the thresholds compare to 0.0, the empty maximum.   *)
Drifted(s, frozen, categories) ==
    \/ FundDrift(s, frozen)
    \/ frozen = Funds /\ FundLimit = 0
    \/ CategoryDrift(s, categories)

Holds(s) == {f \in Funds : s.shares[f] > 0}

(* The depths of the scopes that the triggers of a day ask for: a breached *)
(* constraint, drift (of funds of one category), lost eligibility, period. *)
Triggers(s, day, eligible, breached) ==
    IF s.waiting THEN {}
    ELSE {depth \in 1..4 :
            CASE depth = 1 -> breached
              [] depth = 2 -> Drifted(s, {}, {Funds})
              [] depth = 3 -> \E f \in Holds(s) : eligible[f] # "FULLY_ELIGIBLE"
              [] depth = 4 -> IF s.last = None THEN Holds(s) # {}
                              ELSE day - s.last >= Period}
Scope(triggers) == IF triggers = {} THEN 0 ELSE Max(triggers)

\* Mutant of Filtered: a gap at the threshold is filtered too.
FilteredAtThreshold(s, f, eligible) ==
    \/ eligible[f] = "NOT_TRADABLE"
    \/ eligible[f] \in {"HOLD_ONLY", "EXIT_ONLY"} /\ Gap(s, f) > 0
    \/ Magnitude(Gap(s, f)) <= MinTrade * Scale(s)

(* Whether the trade that closes the gap of a fund is filtered. *)
Filtered(s, f, eligible) ==
    \/ eligible[f] = "NOT_TRADABLE"
    \/ eligible[f] \in {"HOLD_ONLY", "EXIT_ONLY"} /\ Gap(s, f) > 0
    \/ Magnitude(Gap(s, f)) < MinTrade * Scale(s)
Trades(s) == {f \in Funds : Gap(s, f) # 0}
Moves(s, eligible) == {f \in Trades(s) : ~Filtered(s, f, eligible)}

Traded(s, eligible) ==
    MapThenSumSet(LAMBDA f : Magnitude(Gap(s, f)), Moves(s, eligible))
Worthwhile(s, gain, eligible) ==
    IF s.equity > 0 THEN gain * s.equity >= CostRate * Traded(s, eligible)
    ELSE gain >= 0
Outcome(s, gain, eligible) ==
    IF Moves(s, eligible) = {}
    THEN IF Trades(s) = {} THEN "SKIPPED_NO_DELTA" ELSE "SKIPPED_FILTERED"
    ELSE IF Worthwhile(s, gain, eligible) THEN "RECOMMENDED"
    ELSE "SKIPPED_COST_BENEFIT"

AllEligible == [f \in Funds |-> "FULLY_ELIGIBLE"]

-----------------------------------------------------------------------------
(* The requests *)

(* Whether a report can be about the fund's open order: then its fills are *)
(* of the order's side, and a partial one leaves something open.           *)
Concerns(r) ==
    LET order == orders[r.fund]
    IN  /\ order # None
        /\ r.status \in Fills => r.side = order.side
        /\ r.status = "PARTIALLY_FILLED" => r.shares < order.left

(* The broker's order after its report: closed, or what is left of it. *)
Reported(r) ==
    LET order == orders[r.fund]
    IN  IF r.status \in {"FILLED"} \cup Dead THEN None
        ELSE IF r.status = "PARTIALLY_FILLED" THEN [order EXCEPT !.left = @ - r.shares]
        ELSE order

(* A report comes in about the fund's open order, or about anything else   *)
(* that was traded in the fund: another order's or nobody's, of any side   *)
(* and size.  The handler does not tell the two apart: it reads neither    *)
(* the report's rebalance nor its order.                                   *)
Arrives(r) ==
    \/ /\ Concerns(r)
       /\ orders' = [orders EXCEPT ![r.fund] = Reported(r)]
       /\ strayed' = IF Reported(r) = None THEN strayed \ {r.fund} ELSE strayed
    \/ /\ strayed' = IF orders[r.fund] = None \/ r.status = "SUBMITTED" THEN strayed
                     ELSE strayed \cup {r.fund}
       /\ UNCHANGED orders

(* A thread begins to serve a request: it looks the snapshot up. *)
Look(c, op) ==
    /\ request[c] = None
    /\ IF op.kind = "report"
       THEN /\ books.reports < MaxReports
            /\ Arrives(op)
            /\ books' = [books EXCEPT !.reports = @ + 1]
       ELSE UNCHANGED <<orders, strayed, books>>
    /\ op.kind = "evaluate" => Len(events) < MaxEvents
    /\ request' = [request EXCEPT ![c] = [op |-> op, base |-> stored]]
    /\ fresh' = fresh \cup {c}
    /\ UNCHANGED <<stored, events, filed, serial>>

(* It has found none and stores the default one. *)
Create(c) ==
    /\ request[c] # None
    /\ request[c].base = None
    /\ stored' = Opening
    /\ request' = [request EXCEPT ![c].base = Opening]
    /\ serial' = (serial /\ c \in fresh)
    /\ fresh' = {c}
    /\ UNCHANGED <<events, filed, orders, strayed, books>>

At(c, kind) ==
    /\ request[c] # None
    /\ request[c].base # None
    /\ request[c].op.kind = kind
Answer(c) == request' = [request EXCEPT ![c] = None] /\ fresh' = fresh \ {c}

Get(c) ==
    /\ At(c, "get")
    /\ Answer(c)
    /\ UNCHANGED <<stored, events, filed, orders, strayed, books, serial>>

(* The books take the report for what it says. *)
Booked(r) ==
    IF r.status \notin Fills THEN books
    ELSE LET sign == IF r.side = "BUY" THEN 1 ELSE -1
         IN  [books EXCEPT !.cash = @ - sign * r.shares * r.price - Fee,
                           !.shares[r.fund] = @ + sign * r.shares,
                           !.short = @ \/ books.shares[r.fund] + sign * r.shares < 0]

Report(c) ==
    /\ At(c, "report")
    /\ stored' = Process(request[c].base, request[c].op)
    /\ books' = Booked(request[c].op)
    /\ serial' = (serial /\ c \in fresh)
    /\ request' = [request EXCEPT ![c] = None]
    /\ fresh' = {}
    /\ UNCHANGED <<events, filed, orders, strayed>>

(* An evaluation records its event, and then files the trades.  It makes   *)
(* the proposal whatever the triggers say, and knows of no eligibility.    *)
Record(c) ==
    /\ At(c, "evaluate")
    /\ LET s == request[c].base
           op == request[c].op
       IN  /\ events' = Append(events,
                [day |-> op.day,
                 scope |-> Scope(Triggers(s, op.day, AllEligible, FALSE)),
                 outcome |-> Outcome(s, op.gain, AllEligible)])
           /\ request' = [request EXCEPT ![c].op =
                [kind |-> "file", day |-> op.day]]
    /\ UNCHANGED <<stored, filed, orders, strayed, books, fresh, serial>>

File(c) ==
    /\ At(c, "file")
    /\ filed' = [filed EXCEPT ![request[c].op.day] =
                    Moves(request[c].base, AllEligible)]
    /\ Answer(c)
    /\ UNCHANGED <<stored, events, orders, strayed, books, serial>>

(* The operations that no request calls: they replace the snapshot whole.  *)
Deliver(trades, day) ==
    /\ stored # None
    /\ ~stored.waiting
    /\ books.deliveries < MaxDeliveries
    /\ stored' = Flagged([stored EXCEPT
            !.pending = [f \in Funds |-> IF f \in DOMAIN trades THEN trades[f].left
                                         ELSE stored.pending[f]],
            !.last = day])
    /\ orders' = [f \in Funds |-> IF f \in DOMAIN trades THEN trades[f]
                                  ELSE orders[f]]
    /\ strayed' = strayed \ DOMAIN trades
    /\ books' = [books EXCEPT !.deliveries = @ + 1]
    /\ fresh' = {}
    /\ UNCHANGED <<request, events, filed, serial>>

Mark(price) ==
    /\ stored # None
    /\ stored' = MarkToMarket(stored, price)
    /\ fresh' = {}
    /\ UNCHANGED <<request, events, filed, orders, strayed, books, serial>>

TradeLists == UNION {[S -> [side : Sides, left : 1..MaxShares]] : S \in SUBSET Funds}

Next ==
    \/ \E c \in Clients :
        \/ \E op \in Reports \cup Evaluations \cup Gets : Look(c, op)
        \/ Create(c) \/ Get(c) \/ Report(c) \/ Record(c) \/ File(c)
    \/ \E trades \in TradeLists, day \in Days : Deliver(trades, day)
    \/ \E price \in [Funds -> Prices] : Mark(price)

Spec == Init /\ [][Next]_vars
-----------------------------------------------------------------------------
(* Properties *)

(* Cash and holdings are what the acknowledged reports add up to, for the  *)
(* whole history and however fills, refusals, valuations and deliveries    *)
(* fall between them: while nobody has sold more than was held.  This is   *)
(* process_execution_report run over a history; a request that overlaps    *)
(* another replaces what the other has stored.                             *)
BooksBalance ==
    serial /\ stored # None =>
        /\ stored.cash = books.cash
        /\ ~books.short => stored.shares = books.shares

(* A delivery never meets an open order of an earlier one, so that no fund *)
(* is ordered again while the broker still works on it: as long as all     *)
(* reports of the fund that come in meanwhile are about that order.  Any   *)
(* other report of the fund, of the other side too, is taken off what is   *)
(* pending (process_execution_report looks at the fund alone), and the     *)
(* flag that keeps a second delivery back can fall while an order is open. *)
NoSecondOrder ==
    [][serial /\ books'.deliveries # books.deliveries =>
        \A f \in Funds : orders[f] # None => f \in strayed]_vars

(* The trigger engine and the proposer agree on what drift is: when a      *)
(* tradable fund, or categories without a frozen fund, have drifted, there *)
(* is a trade to propose, provided that the thresholds are as far apart    *)
(* as the funds of a category are many.                                    *)
DriftHasTrades ==
    /\ stored # None
    /\ MinTrade <= FundLimit /\ FundLimit > 0 /\ CategoryLimit > 0
    /\ MinTrade * Cardinality(Funds) <= CategoryLimit
    => \A frozen \in SUBSET Funds, classes \in {{S, Funds \ S} : S \in SUBSET Funds} :
            LET eligible == [f \in Funds |-> IF f \in frozen THEN "NOT_TRADABLE"
                                             ELSE "FULLY_ELIGIBLE"]
                tradable == {funds \in classes : funds \cap frozen = {}}
            IN  Drifted(stored, frozen, tradable) => Moves(stored, eligible) # {}

=============================================================================
