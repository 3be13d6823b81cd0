------------------------ MODULE LivePortfolio_proofs ------------------------
(***************************************************************************)
(* Proofs about LivePortfolio, for any funds, threads, prices, targets and *)
(* thresholds: the books balance, no fund is ordered twice while reports   *)
(* of it are about its order, and drift leaves something to trade.         *)
(***************************************************************************)
EXTENDS LivePortfolio, FiniteSetTheorems, WellFoundedInduction, TLAPS

-----------------------------------------------------------------------------
(* Sums over finite sets                                                   *)

\* What the fold of a sum computes of a set: one of its members, and the rest.
Sums(S, v, sum) ==
    sum = [s \in SUBSET S |-> IF s = {} THEN 0
                              ELSE v[CHOOSE x \in s : TRUE]
                                   + sum[s \ {CHOOSE x \in s : TRUE}]]

\* A nonempty set is one larger than without the member that is chosen.
LEMMA Rest ==
    ASSUME NEW s, IsFiniteSet(s), s # {}
    PROVE  /\ (CHOOSE x \in s : TRUE) \in s
           /\ IsFiniteSet(s \ {CHOOSE x \in s : TRUE})
           /\ Cardinality(s) \in Nat \ {0}
           /\ Cardinality(s \ {CHOOSE x \in s : TRUE}) = Cardinality(s) - 1
<1>1. (CHOOSE x \in s : TRUE) \in s
  OBVIOUS
<1> DEFINE x == CHOOSE x \in s : TRUE
<1> HIDE DEF x
<1>2. x \in s
  BY <1>1 DEF x
<1>3. IsFiniteSet(s \ {x}) /\ Cardinality(s \ {x}) = Cardinality(s) - 1
  BY <1>2, FS_RemoveElement
<1>4. Cardinality(s) \in Nat \ {0}
  BY FS_CardinalityType, FS_EmptySet
<1> QED
  BY <1>2, <1>3, <1>4 DEF x

\* A property of numbers that fails has a least number at which it does.
LEMMA Least ==
    ASSUME NEW N \in SUBSET Nat, N # {}
    PROVE  \E n \in N : \A m \in N : n <= m
<1> DEFINE R == OpToRel(<, Nat)
<1>1. IsWellFoundedOn(R, Nat)
  BY NatLessThanWellFounded
<1>2. \A m, n \in Nat : m < n => <<m, n>> \in R
  BY DEF OpToRel
<1> HIDE DEF R
<1>3. PICK n \in N : \A m \in N : ~(<<m, n>> \in R)
  BY <1>1, WFMin
<1>4. ASSUME NEW m \in N PROVE n <= m
  <2>1. m \in Nat /\ n \in Nat /\ ~(<<m, n>> \in R)
    BY <1>3
  <2>2. ~(m < n)
    BY <1>2, <2>1
  <2> QED
    BY <2>1, <2>2
<1> QED
  BY <1>4

\* There is a function that computes the sum, of every finite set.
LEMMA SumsExist ==
    ASSUME NEW S, IsFiniteSet(S), NEW v \in [S -> Int]
    PROVE  \E sum \in [SUBSET S -> Int] : Sums(S, v, sum)
<1> DEFINE One(sum) == [s \in SUBSET S |-> IF s = {} THEN 0
                              ELSE v[CHOOSE x \in s : TRUE]
                                   + sum[s \ {CHOOSE x \in s : TRUE}]]
           Good(n) == \E sum \in [SUBSET S -> Int] :
                         \A s \in SUBSET S : Cardinality(s) < n => sum[s] = One(sum)[s]
           Bad == {n \in Nat : ~Good(n)}
<1>1. \A s \in SUBSET S : IsFiniteSet(s) /\ Cardinality(s) \in Nat
                          /\ Cardinality(s) <= Cardinality(S)
  BY FS_Subset, FS_CardinalityType
<1>2. ASSUME NEW sum \in [SUBSET S -> Int], NEW s \in SUBSET S
      PROVE  One(sum)[s] \in Int
  BY Rest
<1>3. Good(0)
  <2>1. [s \in SUBSET S |-> 0] \in [SUBSET S -> Int]
    OBVIOUS
  <2>2. \A s \in SUBSET S : ~(Cardinality(s) < 0)
    BY <1>1
  <2> QED
    BY <2>1, <2>2
<1>4. ASSUME NEW n \in Nat, Good(n) PROVE Good(n + 1)
  <2>1. PICK sum \in [SUBSET S -> Int] :
           \A s \in SUBSET S : Cardinality(s) < n => sum[s] = One(sum)[s]
    BY <1>4
  <2> DEFINE more == [s \in SUBSET S |-> IF Cardinality(s) < n THEN sum[s] ELSE One(sum)[s]]
  <2>2. more \in [SUBSET S -> Int]
    BY <1>2
  <2>3. \A s \in SUBSET S : Cardinality(s) <= n => more[s] = One(sum)[s]
    BY <1>1, <2>1
  <2>4. ASSUME NEW s \in SUBSET S, Cardinality(s) <= n
        PROVE  One(more)[s] = One(sum)[s]
    <3>1. CASE s = {}
      BY <3>1
    <3>2. CASE s # {}
      <4> DEFINE r == s \ {CHOOSE x \in s : TRUE}
      <4>1. r \in SUBSET S /\ Cardinality(r) < n
        BY <1>1, <2>4, <3>2, Rest
      <4>2. more[r] = sum[r]
        BY <4>1
      <4> QED
        BY <3>2, <4>2
    <3> QED
      BY <3>1, <3>2
  <2>5. \A s \in SUBSET S : Cardinality(s) < n + 1 => more[s] = One(more)[s]
    <3>1. \A k, m \in Nat : k < m + 1 <=> k <= m
      OBVIOUS
    <3> HIDE DEF more, One
    <3> QED
      BY <1>1, <2>3, <2>4, <3>1
  <2> QED
    BY <2>2, <2>5
<1> HIDE DEF Good
<1>5. Good(Cardinality(S) + 1)
  <2>0. Cardinality(S) + 1 \in Nat
    BY <1>1
  <2>1. CASE Bad = {}
    BY <2>0, <2>1
  <2>2. CASE Bad # {}
    <3>1. PICK n \in Bad : \A m \in Bad : n <= m
      BY <2>2, Least
    <3>2. n \in Nat /\ n # 0 /\ ~Good(n)
      BY <1>3, <3>1
    <3>3. n - 1 \in Nat /\ n - 1 \notin Bad /\ (n - 1) + 1 = n
      BY <3>1, <3>2
    <3> QED
      BY <1>4, <3>2, <3>3
  <2> QED
    BY <2>1, <2>2
<1>6. PICK sum \in [SUBSET S -> Int] :
         \A s \in SUBSET S : Cardinality(s) < Cardinality(S) + 1 => sum[s] = One(sum)[s]
  BY <1>5 DEF Good
<1>7. ASSUME NEW s \in SUBSET S PROVE sum[s] = One(sum)[s]
  <2>1. Cardinality(s) < Cardinality(S) + 1
    BY <1>1
  <2> QED
    BY <1>6, <2>1
<1>8. sum = One(sum)
  BY <1>7
<1> QED
  BY <1>8 DEF Sums

\* It is a number, of size at most that of the set when no value is larger than b.
LEMMA SumsBound ==
    ASSUME NEW S, IsFiniteSet(S), NEW v \in [S -> Int], NEW sum, Sums(S, v, sum),
           NEW b \in Nat
    PROVE  /\ sum[S] \in Int
           /\ (\A x \in S : -b <= v[x] /\ v[x] <= b) =>
                -(Cardinality(S) * b) <= sum[S] /\ sum[S] <= Cardinality(S) * b
<1> DEFINE Small == \A x \in S : -b <= v[x] /\ v[x] <= b
           Fits(s) == /\ sum[s] \in Int
                      /\ Small => /\ -(Cardinality(s) * b) <= sum[s]
                                  /\ sum[s] <= Cardinality(s) * b
           Bad == {Cardinality(s) : s \in {t \in SUBSET S : ~Fits(t)}}
<1>1. \A s \in SUBSET S : IsFiniteSet(s) /\ Cardinality(s) \in Nat
  BY FS_Subset, FS_CardinalityType
<1>2. ASSUME Bad # {} PROVE FALSE
  <2>1. PICK n \in Bad : \A m \in Bad : n <= m
    BY <1>1, <1>2, Least
  <2>2. PICK s \in SUBSET S : ~Fits(s) /\ n = Cardinality(s)
    BY <2>1
  <2>3. CASE s = {}
    BY <2>2, <2>3, FS_EmptySet DEF Sums
  <2>4. CASE s # {}
    <3> DEFINE x == CHOOSE y \in s : TRUE
               r == s \ {x}
    <3>1. /\ x \in s /\ r \in SUBSET S /\ Cardinality(s) \in Nat
          /\ Cardinality(r) = Cardinality(s) - 1
      BY <1>1, <2>4, Rest
    <3>2. sum[s] = v[x] + sum[r]
      BY <2>4 DEF Sums
    <3> HIDE DEF x, r
    <3>3. Fits(r)
      <4>1. Cardinality(r) < n
        BY <1>1, <2>2, <3>1
      <4>2. Cardinality(r) \notin Bad
        <5> HIDE DEF Bad
        <5> QED
          BY <1>1, <2>1, <2>2, <3>1, <4>1
      <4> QED
        BY <3>1, <4>2
    <3>4. v[x] \in Int /\ (Small => -b <= v[x] /\ v[x] <= b)
      BY <3>1
    <3> HIDE DEF Small
    <3>5. Cardinality(s) * b = Cardinality(r) * b + b
      <4>1. \A m, k \in Nat : m = k - 1 => k * b = m * b + b
        BY SMT
      <4> QED
        BY <1>1, <3>1, <4>1
    <3>6. Cardinality(r) * b \in Nat
      BY <1>1, <3>1
    <3> QED
      BY <2>2, <3>2, <3>3, <3>4, <3>5, <3>6
  <2> QED
    BY <2>3, <2>4
<1>3. Fits(S)
  <2>1. Cardinality(S) \notin Bad
    BY <1>2
  <2> QED
    BY <2>1
<1> QED
  BY <1>3

\* So is the sum that MapThenSumSet makes of a fund's value or gap.
LEMMA GapSum ==
    ASSUME NEW s, NEW S, IsFiniteSet(S), \A f \in S : Gap(s, f) \in Int, NEW b \in Nat
    PROVE  /\ CategoryGap(s, S) \in Int
           /\ (\A f \in S : -b <= Gap(s, f) /\ Gap(s, f) <= b) =>
                /\ -(Cardinality(S) * b) <= CategoryGap(s, S)
                /\ CategoryGap(s, S) <= Cardinality(S) * b
<1> DEFINE v == [f \in S |-> Gap(s, f)]
           Rule(g) == g = [t \in SUBSET S |-> IF t = {} THEN 0
                              ELSE Gap(s, CHOOSE x \in t : TRUE)
                                   + g[t \ {CHOOSE x \in t : TRUE}]]
           sum == CHOOSE g : Rule(g)
<1> HIDE DEF Gap
<1>1. \A t \in SUBSET S : t # {} => (CHOOSE x \in t : TRUE) \in S
  OBVIOUS
<1>2. ASSUME NEW g PROVE Rule(g) <=> Sums(S, v, g)
  <2>1. \A t \in SUBSET S : t # {} => v[CHOOSE x \in t : TRUE] = Gap(s, CHOOSE x \in t : TRUE)
    BY <1>1
  <2> QED
    BY <2>1 DEF Sums
<1>3. v \in [S -> Int] /\ \A f \in S : v[f] = Gap(s, f)
  OBVIOUS
<1> HIDE DEF v, Rule
<1>4. \E g : Sums(S, v, g)
  BY <1>3, SumsExist
<1>5. Sums(S, v, sum)
  BY <1>2, <1>4
<1>6. CategoryGap(s, S) = sum[S]
  BY DEF CategoryGap, MapThenSumSet, MapThenFoldSet, Rule
<1> HIDE DEF sum
<1> QED
  BY <1>3, <1>5, <1>6, SumsBound

Worth(s) == Total(LAMBDA f : ValueOf(s, f))

LEMMA ValueSum ==
    ASSUME NEW s, \A f \in Funds : ValueOf(s, f) \in Int
    PROVE  Worth(s) \in Int
<1> DEFINE v == [f \in Funds |-> ValueOf(s, f)]
           Rule(g) == g = [t \in SUBSET Funds |-> IF t = {} THEN 0
                              ELSE ValueOf(s, CHOOSE x \in t : TRUE)
                                   + g[t \ {CHOOSE x \in t : TRUE}]]
           sum == CHOOSE g : Rule(g)
<1> HIDE DEF ValueOf
<1>1. \A t \in SUBSET Funds : t # {} => (CHOOSE x \in t : TRUE) \in Funds
  OBVIOUS
<1>2. ASSUME NEW g PROVE Rule(g) <=> Sums(Funds, v, g)
  <2>1. \A t \in SUBSET Funds :
          t # {} => v[CHOOSE x \in t : TRUE] = ValueOf(s, CHOOSE x \in t : TRUE)
    BY <1>1
  <2> QED
    BY <2>1 DEF Sums
<1>3. v \in [Funds -> Int] /\ 0 \in Nat
  OBVIOUS
<1> HIDE DEF v, Rule
<1>4. \E g : Sums(Funds, v, g)
  BY <1>3, SumsExist, FundsAssumption
<1>5. Sums(Funds, v, sum)
  BY <1>2, <1>4
<1>6. Worth(s) = sum[Funds]
  BY DEF Worth, Total, MapThenSumSet, MapThenFoldSet, Rule
<1> HIDE DEF sum
<1> QED
  BY <1>3, <1>5, <1>6, SumsBound, FundsAssumption

-----------------------------------------------------------------------------
(* The invariant                                                           *)

Event == [day : Days, scope : 0..4, outcome : Outcomes]
Books == [cash : Int, shares : [Funds -> Int], short : BOOLEAN,
          reports : Nat, deliveries : Nat]

TypeInv ==
    /\ stored \in Snapshot \cup {None}
    /\ request \in [Clients -> Request \cup {None}]
    /\ events \in Seq(Event)
    /\ filed \in [Days -> (SUBSET Funds) \cup {None}]
    /\ orders \in [Funds -> Orders \cup {None}]
    /\ strayed \in SUBSET Funds
    /\ books \in Books
    /\ fresh \in SUBSET Clients
    /\ serial \in BOOLEAN

\* A fresh thread has read what is stored, and the flag of the stored snapshot
\* is up while an order of it is pending.
ReadInv ==
    /\ \A c \in fresh : request[c] # None /\ request[c].base = stored
    /\ stored # None => (stored.waiting <=> \E f \in Funds : stored.pending[f] > 0)

\* Before the first snapshot nothing has been reported.
BookInv ==
    serial => IF stored = None THEN books.cash = Capital
                                    /\ books.shares = [f \in Funds |-> 0]
              ELSE /\ stored.cash = books.cash
                   /\ ~books.short => stored.shares = books.shares

\* What the broker still has to do is pending, also when a report that a fresh
\* thread has in hand is processed: for a fund of which no stray report came in.
Covers(pending, r, left) ==
    \/ r.status = "SUBMITTED"
    \/ r.status = "PARTIALLY_FILLED" /\ pending - r.shares >= left
OrderInv ==
    serial => \A f \in Funds : orders[f] # None /\ f \notin strayed =>
        /\ stored # None
        /\ stored.pending[f] >= orders[f].left
        /\ \A c \in fresh :
             request[c].op.kind = "report" /\ request[c].op.fund = f =>
                 Covers(stored.pending[f], request[c].op, orders[f].left)

IInv == TypeInv /\ ReadInv /\ BookInv /\ OrderInv

-----------------------------------------------------------------------------
(* The operations on a snapshot                                            *)

LEMMA MoneyTypes ==
    /\ \A p \in Prices \cup {0} : p \in Nat
    /\ Fee \in Nat /\ MinTrade \in Nat /\ FundLimit \in Nat /\ CategoryLimit \in Nat
<1>1. \A p \in Prices \cup {0} : p \in Nat
  BY MoneyAssumption
<1> QED
  BY <1>1, LimitAssumption

LEMMA ValuedType ==
    ASSUME NEW s \in Snapshot
    PROVE  /\ Valued(s) \in Snapshot
           /\ Valued(s).cash = s.cash /\ Valued(s).shares = s.shares
           /\ Valued(s).pending = s.pending /\ Valued(s).waiting = s.waiting
<1>1. ASSUME NEW f \in Funds PROVE ValueOf(s, f) \in Int
  <2>1. s.shares[f] \in Int /\ s.price[f] \in Int
    BY MoneyTypes DEF Snapshot
  <2> QED
    BY <2>1 DEF ValueOf
<1>2. Worth(s) \in Int
  BY <1>1, ValueSum
<1>3. Valued(s) = [s EXCEPT !.equity = s.cash + Worth(s)]
  BY DEF Valued, Worth
<1>4. s.cash + Worth(s) \in Int
  BY <1>2 DEF Snapshot
<1> QED
  BY <1>3, <1>4 DEF Snapshot

LEMMA FlaggedType ==
    ASSUME NEW s \in Snapshot
    PROVE  /\ Flagged(s) \in Snapshot
           /\ Flagged(s).cash = s.cash /\ Flagged(s).shares = s.shares
           /\ Flagged(s).pending = s.pending
           /\ Flagged(s).waiting <=> \E f \in Funds : s.pending[f] > 0
  BY DEF Flagged, Snapshot

\* What an executed report does to cash and shares, and any report to what is pending.
LEMMA ProcessType ==
    ASSUME NEW s \in Snapshot, NEW r \in Reports
    PROVE  /\ Process(s, r) \in Snapshot
           /\ Process(s, r).cash =
                IF r.status \notin Fills THEN s.cash
                ELSE IF r.side = "BUY" THEN s.cash - r.shares * r.price - Fee
                ELSE s.cash + r.shares * r.price - Fee
           /\ Process(s, r).shares =
                IF r.status \notin Fills THEN s.shares
                ELSE [s.shares EXCEPT ![r.fund] =
                        IF r.side = "BUY" THEN @ + r.shares ELSE Larger(0, @ - r.shares)]
           /\ Process(s, r).pending =
                [s.pending EXCEPT ![r.fund] =
                    CASE r.status \in {"FILLED"} \cup Dead -> 0
                      [] r.status = "PARTIALLY_FILLED" -> Larger(0, @ - r.shares)
                      [] OTHER -> @]
           /\ Process(s, r).waiting <=> \E f \in Funds : Process(s, r).pending[f] > 0
<1> DEFINE filled == IF r.status \in Fills THEN Fill(s, r) ELSE s
           settled == Settle(filled, r)
<1>0. /\ r.fund \in Funds /\ r.shares \in Nat /\ r.price \in Nat
      /\ r.price \in Prices \cup {0} /\ Fee \in Nat /\ r.shares * r.price \in Nat
      /\ r.status \in Fills \cup Dead \cup {"SUBMITTED"} /\ r.side \in Sides
      /\ r.status \in Fills => r.shares > 0
  <2>1. /\ r.fund \in Funds /\ r.side \in Sides
        /\ r.shares \in Nat /\ r.price \in Prices \cup {0}
        /\ r.status \in Fills \cup Dead \cup {"SUBMITTED"}
        /\ r.status \in Fills => r.shares > 0
    BY DEF Reports, Dead, Fills, Sides
  <2>2. r.price \in Nat /\ Fee \in Nat
    BY <2>1, MoneyTypes
  <2>3. \A m, n \in Nat : m * n \in Nat
    OBVIOUS
  <2> QED
    BY <2>1, <2>2, <2>3
<1>1. /\ filled \in Snapshot
      /\ filled.pending = s.pending
      /\ filled.cash =
           IF r.status \notin Fills THEN s.cash
           ELSE IF r.side = "BUY" THEN s.cash - r.shares * r.price - Fee
           ELSE s.cash + r.shares * r.price - Fee
      /\ filled.shares =
           IF r.status \notin Fills THEN s.shares
           ELSE [s.shares EXCEPT ![r.fund] =
                   IF r.side = "BUY" THEN @ + r.shares ELSE Larger(0, @ - r.shares)]
  <2> DEFINE amount == r.shares * r.price
             left == IF r.side = "BUY" THEN s.shares[r.fund] + r.shares
                     ELSE Larger(0, s.shares[r.fund] - r.shares)
  <2>1. amount \in Nat /\ left \in Nat
    BY <1>0 DEF Snapshot, Larger
  <2>2. Fill(s, r) = [s EXCEPT !.cash = IF r.side = "BUY" THEN @ - (amount + Fee)
                                        ELSE @ + (amount - Fee),
                               !.shares[r.fund] = left,
                               !.price[r.fund] = IF left = 0 THEN 0 ELSE r.price]
    BY DEF Fill
  <2> HIDE DEF amount
  <2>3. CASE r.status \in Fills
    <3>1. s.cash \in Int /\ s.shares \in [Funds -> Nat]
      BY DEF Snapshot
    <3>2. /\ filled.shares = [s.shares EXCEPT ![r.fund] = left]
          /\ filled.pending = s.pending
          /\ filled.cash = IF r.side = "BUY" THEN s.cash - (amount + Fee)
                           ELSE s.cash + (amount - Fee)
      BY <2>2, <2>3 DEF Snapshot
    <3>3. filled \in Snapshot
      <4> HIDE DEF left
      <4> QED
        <5>1. (IF left = 0 THEN 0 ELSE r.price) \in Prices \cup {0}
          BY <1>0
        <5>2. (IF r.side = "BUY" THEN s.cash - (amount + Fee) ELSE s.cash + (amount - Fee)) \in Int
          BY <1>0, <2>1, <3>1
        <5> DEFINE cash == IF r.side = "BUY" THEN s.cash - (amount + Fee)
                           ELSE s.cash + (amount - Fee)
                   price == IF left = 0 THEN 0 ELSE r.price
        <5>3. filled = [s EXCEPT !.cash = cash, !.shares = [s.shares EXCEPT ![r.fund] = left],
                                 !.price = [s.price EXCEPT ![r.fund] = price]]
          BY <2>2, <2>3 DEF Snapshot
        <5>4. cash \in Int /\ price \in Prices \cup {0}
          BY <5>1, <5>2
        <5> HIDE DEF cash, price
        <5>5. /\ [s.shares EXCEPT ![r.fund] = left] \in [Funds -> Nat]
              /\ [s.price EXCEPT ![r.fund] = price] \in [Funds -> Prices \cup {0}]
          BY <1>0, <2>1, <5>4 DEF Snapshot
        <5> QED
          BY <5>3, <5>4, <5>5 DEF Snapshot
    <3>4. filled.cash = IF r.side = "BUY" THEN s.cash - amount - Fee
                        ELSE s.cash + amount - Fee
      BY <1>0, <2>1, <3>1, <3>2
    <3> QED
      BY <2>3, <3>2, <3>3, <3>4 DEF amount
  <2>4. CASE r.status \notin Fills
    BY <2>4
  <2> QED
    BY <2>3, <2>4
<1> HIDE DEF filled
<1>2. /\ settled \in Snapshot
      /\ settled.cash = filled.cash /\ settled.shares = filled.shares
      /\ settled.pending =
                [s.pending EXCEPT ![r.fund] =
                    CASE r.status \in {"FILLED"} \cup Dead -> 0
                      [] r.status = "PARTIALLY_FILLED" -> Larger(0, @ - r.shares)
                      [] OTHER -> @]
  BY <1>0, <1>1 DEF Settle, Snapshot, Larger, Fills, Dead
<1>3. Process(s, r) = Flagged(Valued(settled))
  BY DEF Process, filled
<1> HIDE DEF settled
<1> QED
  BY <1>1, <1>2, <1>3, ValuedType, FlaggedType

LEMMA MarkType ==
    ASSUME NEW s \in Snapshot, NEW price \in [Funds -> Prices]
    PROVE  /\ MarkToMarket(s, price) \in Snapshot
           /\ MarkToMarket(s, price).cash = s.cash
           /\ MarkToMarket(s, price).shares = s.shares
           /\ MarkToMarket(s, price).pending = s.pending
           /\ MarkToMarket(s, price).waiting = s.waiting
<1> DEFINE priced == [s EXCEPT !.price = [f \in Funds |-> IF s.shares[f] = 0 THEN 0
                                                       ELSE price[f]]]
<1>1. /\ priced \in Snapshot
      /\ priced.cash = s.cash /\ priced.shares = s.shares
      /\ priced.pending = s.pending /\ priced.waiting = s.waiting
  BY DEF Snapshot
<1>2. MarkToMarket(s, price) = Valued(priced)
  BY DEF MarkToMarket
<1> HIDE DEF priced
<1> QED
  BY <1>1, <1>2, ValuedType

LEMMA OpeningType == Opening \in Snapshot
  BY MoneyAssumption DEF Opening, Snapshot

-----------------------------------------------------------------------------
(* The inductive step, action by action                                    *)

\* What a thread has in hand.
LEMMA InHand ==
    ASSUME TypeInv, NEW c \in Clients, request[c] # None
    PROVE  /\ request[c] \in Request
           /\ request[c].base = None \/ request[c].base \in Snapshot
  BY DEF TypeInv, Request

LEMMA InitIInv == Init => IInv
<1> SUFFICES ASSUME Init PROVE IInv
  OBVIOUS
<1>0. [f \in Funds |-> 0] \in [Funds -> Int] /\ Capital \in Int
  BY MoneyAssumption
<1>1. TypeInv
  <2>1. books \in Books
    BY <1>0 DEF Init, Books
  <2>2. events \in Seq(Event)
    BY DEF Init
  <2>3. /\ filed \in [Days -> (SUBSET Funds) \cup {None}]
        /\ orders \in [Funds -> Orders \cup {None}]
    <3>1. None \in (SUBSET Funds) \cup {None} /\ None \in Orders \cup {None}
      OBVIOUS
    <3> QED
      BY <3>1, Zenon DEF Init
  <2>4. /\ request \in [Clients -> Request \cup {None}] /\ fresh \in SUBSET Clients
        /\ stored \in Snapshot \cup {None} /\ serial \in BOOLEAN /\ strayed \in SUBSET Funds
    BY DEF Init
  <2> QED
    BY <2>1, <2>2, <2>3, <2>4 DEF TypeInv
<1>2. ReadInv /\ BookInv /\ OrderInv
  BY DEF Init, ReadInv, BookInv, OrderInv
<1> QED
  BY <1>1, <1>2 DEF IInv

LEMMA LookKeeps ==
    ASSUME IInv, NEW c \in Clients, NEW op \in Reports \cup Evaluations \cup Gets, Look(c, op)
    PROVE  IInv'
<1> DEFINE r == [op |-> op, base |-> stored]
<1>0. /\ IInv /\ request[c] = None
      /\ request' = [request EXCEPT ![c] = r]
      /\ r \in Request /\ r # None
      /\ r.op = op /\ r.base = stored
      /\ fresh' = fresh \cup {c}
      /\ UNCHANGED <<stored, events, filed, serial>>
  BY NoneAssumption DEF Look, IInv, TypeInv, Request
<1> HIDE DEF r
<1>1. /\ request'[c] = r
      /\ \A d \in Clients \ {c} : request'[d] = request[d]
  BY <1>0 DEF IInv, TypeInv
<1>2. /\ books' \in Books /\ books'.cash = books.cash
      /\ books'.shares = books.shares /\ books'.short = books.short
  BY <1>0 DEF Look, IInv, TypeInv, Books
<1>3. op.kind = "report" => op \in Reports
  BY DEF Evaluations, Gets
<1> DEFINE About == op.kind = "report" /\ Concerns(op) /\ orders'[op.fund] = Reported(op)
<1>4. \/ /\ About /\ strayed' = IF Reported(op) = None THEN strayed \ {op.fund} ELSE strayed
         /\ \A f \in Funds \ {op.fund} : orders'[f] = orders[f]
      \/ /\ op.kind = "report" /\ orders' = orders
         /\ strayed' = IF orders[op.fund] = None \/ op.status = "SUBMITTED" THEN strayed
                       ELSE strayed \cup {op.fund}
      \/ op.kind # "report" /\ orders' = orders /\ strayed' = strayed
  BY <1>3 DEF Look, Arrives, IInv, TypeInv, Reports
<1>5. ASSUME About
      PROVE  /\ op.fund \in Funds /\ orders[op.fund] # None
             /\ orders[op.fund] \in Orders
             /\ Reported(op) # None =>
                  /\ Reported(op) \in Orders
                  /\ \/ op.status = "SUBMITTED" /\ Reported(op) = orders[op.fund]
                     \/ /\ op.status = "PARTIALLY_FILLED"
                        /\ Reported(op).left = orders[op.fund].left - op.shares
  <2>1. op \in Reports /\ op.fund \in Funds
    BY <1>3, <1>5 DEF Reports
  <2>3. Concerns(op) /\ orders[op.fund] # None
    BY <1>5 DEF Concerns
  <2>2. orders[op.fund] \in Orders
    BY <1>0, <2>1, <2>3 DEF IInv, TypeInv
  <2>4. orders[op.fund].left \in 1..MaxShares /\ op.shares \in Nat
    BY <2>1, <2>2 DEF Orders, Reports
  <2>5. CASE op.status = "PARTIALLY_FILLED"
    <3>1. op.shares < orders[op.fund].left /\ op.shares > 0
      BY <2>1, <2>3, <2>5 DEF Concerns, Reports, Dead
    <3>2. orders[op.fund].left - op.shares \in 1..MaxShares
      BY <2>4, <3>1, BoundsAssumption
    <3>3. Reported(op) = [orders[op.fund] EXCEPT !.left = @ - op.shares]
      BY <2>5 DEF Reported, Dead
    <3> QED
      BY <2>1, <2>2, <2>3, <2>5, <3>2, <3>3 DEF Orders
  <2>6. CASE op.status # "PARTIALLY_FILLED"
    <3>1. Reported(op) = None \/ op.status = "SUBMITTED"
      BY <2>1, <2>6 DEF Reported, Reports, Fills, Dead
    <3> QED
      BY <2>1, <2>2, <2>3, <2>6, <3>1 DEF Reported
  <2> QED
    BY <2>1, <2>2, <2>3, <2>5, <2>6
<1>6. orders' \in [Funds -> Orders \cup {None}] /\ strayed' \in SUBSET Funds
  <2>0. op.kind = "report" => op.fund \in Funds
    BY <1>3 DEF Reports
  <2>1. \A f \in Funds : orders'[f] \in Orders \cup {None}
    BY <1>0, <1>4, <1>5 DEF IInv, TypeInv
  <2>2. orders' = [f \in Funds |-> orders'[f]]
    BY <1>0 DEF Look, Arrives, IInv, TypeInv
  <2> QED
    BY <1>0, <1>4, <2>0, <2>1, <2>2 DEF IInv, TypeInv
<1>7. TypeInv'
  BY <1>0, <1>2, <1>6 DEF IInv, TypeInv
<1>8. ReadInv'
  BY <1>0, <1>1 DEF IInv, TypeInv, ReadInv
<1>9. BookInv'
  BY <1>0, <1>2 DEF IInv, BookInv
<1>10. OrderInv'
  <2> SUFFICES ASSUME serial, NEW f \in Funds, orders'[f] # None, f \notin strayed'
               PROVE  /\ stored # None
                      /\ stored.pending[f] >= orders'[f].left
                      /\ \A d \in fresh' :
                           request'[d].op.kind = "report" /\ request'[d].op.fund = f =>
                             Covers(stored.pending[f], request'[d].op, orders'[f].left)
    BY <1>0 DEF OrderInv
  <2>1. /\ orders[f] # None /\ f \notin strayed
        /\ op.kind = "report" /\ f = op.fund => About \/ op.status = "SUBMITTED"
        /\ ~(About /\ f = op.fund) => orders'[f] = orders[f]
    BY <1>4, <1>5
  <2>2. /\ stored # None /\ stored \in Snapshot
        /\ stored.pending[f] >= orders[f].left
        /\ \A d \in fresh : request[d].op.kind = "report" /\ request[d].op.fund = f =>
             Covers(stored.pending[f], request[d].op, orders[f].left)
        /\ stored.pending[f] \in Nat /\ orders[f].left \in Nat /\ orders[f] \in Orders
    BY <1>0, <2>1 DEF IInv, OrderInv, TypeInv, Orders, Snapshot
  <2>3. orders'[f].left \in Nat /\ orders'[f].left <= orders[f].left
    <3>1. CASE About /\ f = op.fund
      <4>1. op.shares \in Nat
        BY <1>3, <3>1 DEF Reports
      <4>2. orders'[f] \in Orders
        BY <1>6
      <4> QED
        BY <1>5, <2>1, <2>2, <3>1, <4>1, <4>2 DEF Orders
    <3>2. CASE ~(About /\ f = op.fund)
      BY <2>1, <2>2, <3>2
    <3> QED
      BY <3>1, <3>2
  <2>4. ASSUME NEW d \in fresh' \ {c}, request'[d].op.kind = "report", request'[d].op.fund = f
        PROVE  Covers(stored.pending[f], request'[d].op, orders'[f].left)
    <3>1. d \in fresh /\ request'[d] = request[d] /\ d \in Clients
      BY <1>0, <1>1, <2>4 DEF IInv, TypeInv
    <3>2. Covers(stored.pending[f], request[d].op, orders[f].left)
      BY <2>2, <2>4, <3>1
    <3>3. request[d].op \in Reports
      <4>1. request[d].op \in Reports \cup Evaluations \cup Gets \cup Files
        BY <1>0, <3>1, InHand DEF IInv, ReadInv, Request
      <4> QED
        BY <2>4, <3>1, <4>1 DEF Evaluations, Gets, Files
    <3> QED
      BY <2>2, <2>3, <3>1, <3>2, <3>3 DEF Covers, Reports
  <2>5. ASSUME op.kind = "report", op.fund = f
        PROVE  Covers(stored.pending[f], op, orders'[f].left)
    <3>1. op.shares \in Nat
      BY <1>3, <2>5 DEF Reports
    <3> QED
      BY <1>5, <2>1, <2>2, <2>5, <3>1 DEF Covers
  <2> QED
    BY <1>0, <1>1, <2>2, <2>3, <2>4, <2>5
<1> QED
  BY <1>7, <1>8, <1>9, <1>10 DEF IInv

LEMMA CreateKeeps ==
    ASSUME IInv, NEW c \in Clients, Create(c)
    PROVE  IInv'
<1>0. /\ IInv /\ request[c] \in Request /\ request[c].base = None
      /\ request' = [request EXCEPT ![c] = [request[c] EXCEPT !.base = Opening]]
      /\ stored' = Opening /\ fresh' = {c}
      /\ serial' = (serial /\ c \in fresh)
      /\ UNCHANGED <<events, filed, orders, strayed, books>>
  BY InHand DEF Create, IInv, TypeInv
<1>1. /\ request'[c] \in Request /\ request'[c] # None
      /\ request'[c].base = Opening /\ request'[c].op = request[c].op
      /\ \A d \in Clients \ {c} : request'[d] = request[d]
  BY <1>0, OpeningType, NoneAssumption DEF IInv, TypeInv, Request
<1>2. Opening \in Snapshot /\ Opening # None
  BY OpeningType, NoneAssumption
<1>3. TypeInv'
  BY <1>0, <1>1, <1>2 DEF IInv, TypeInv
<1>4. ReadInv'
  BY <1>0, <1>1 DEF ReadInv, Opening
<1>5. serial' => serial /\ stored = None
  BY <1>0 DEF IInv, ReadInv
<1>6. BookInv'
  BY <1>0, <1>2, <1>5 DEF IInv, BookInv, Opening
<1>7. OrderInv'
  BY <1>0, <1>5 DEF IInv, OrderInv
<1> QED
  BY <1>3, <1>4, <1>6, <1>7 DEF IInv

\* A thread that ends, or goes on to file its trades, having stored no snapshot.
LEMMA LeaveKeeps ==
    ASSUME IInv, NEW c \in Clients, NEW d \in Days,
           \/ request'[c] = None /\ fresh' = fresh \ {c}
           \/ /\ request[c] # None /\ fresh' = fresh
              /\ request'[c] = [request[c] EXCEPT !.op = [kind |-> "file", day |-> d]],
           request' = [request EXCEPT ![c] = request'[c]],
           UNCHANGED <<stored, orders, strayed, books, serial>>,
           events' \in Seq(Event), filed' \in [Days -> (SUBSET Funds) \cup {None}]
    PROVE  IInv'
<1>0. IInv /\ \A e \in Clients \ {c} : request'[e] = request[e]
  BY DEF IInv, TypeInv
<1>1. ASSUME request'[c] # None
      PROVE  /\ request'[c] \in Request /\ request'[c].base = request[c].base
             /\ request'[c].op = [kind |-> "file", day |-> d]
             /\ request[c] # None /\ fresh' = fresh
  BY <1>0, <1>1, InHand DEF IInv, Request, Files
<1>2. TypeInv'
  BY <1>0, <1>1 DEF IInv, TypeInv
<1>6. \A e \in fresh' :
        /\ e \in fresh /\ e \in Clients
        /\ request'[e] # None /\ request'[e].base = request[e].base
        /\ request'[e] = request[e] \/ request'[e].op = [kind |-> "file", day |-> d]
  <2>1. CASE request'[c] = None /\ fresh' = fresh \ {c}
    BY <1>0, <2>1 DEF IInv, TypeInv, ReadInv
  <2>2. CASE request'[c] # None
    BY <1>0, <1>1, <2>2 DEF IInv, TypeInv, ReadInv
  <2> QED
    BY <1>0, <2>1, <2>2, InHand, NoneAssumption DEF IInv, Request, Files
<1>3. ReadInv'
  BY <1>0, <1>6 DEF IInv, ReadInv
<1>4. BookInv'
  BY <1>0 DEF IInv, BookInv
<1>5. OrderInv'
  <2>1. \A e \in fresh' : request'[e].op.kind = "report" => request'[e] = request[e]
    BY <1>6
  <2> QED
    BY <1>0, <1>6, <2>1 DEF IInv, OrderInv
<1> QED
  BY <1>2, <1>3, <1>4, <1>5 DEF IInv

LEMMA GetKeeps ==
    ASSUME IInv, NEW c \in Clients, Get(c)
    PROVE  IInv'
<1>1. /\ request[c] # None /\ request[c].op.kind = "get"
      /\ request' = [request EXCEPT ![c] = None] /\ fresh' = fresh \ {c}
      /\ UNCHANGED <<stored, events, filed, orders, strayed, books, serial>>
      /\ request'[c] = None /\ \A e \in Clients \ {c} : request'[e] = request[e]
      /\ 0 \in Days
  BY BoundsAssumption DEF Get, At, Answer, IInv, TypeInv, Days
<1> QED
  BY <1>1, LeaveKeeps DEF IInv, TypeInv

LEMMA ScopeType ==
    ASSUME NEW triggers \in SUBSET (1..4)
    PROVE  Scope(triggers) \in 0..4
<1>1. ASSUME triggers # {}
      PROVE  \E x \in triggers : \A y \in triggers : y <= x
  <2>0. \A y \in triggers : y \in {1, 2, 3, 4}
    OBVIOUS
  <2>1. CASE 4 \in triggers
    BY <2>0, <2>1
  <2>2. CASE 4 \notin triggers /\ 3 \in triggers
    BY <2>0, <2>2
  <2>3. CASE 4 \notin triggers /\ 3 \notin triggers /\ 2 \in triggers
    BY <2>0, <2>3
  <2>4. CASE triggers = {1}
    BY <2>4
  <2> QED
    BY <1>1, <2>0, <2>1, <2>2, <2>3, <2>4
<1>2. ASSUME triggers # {} PROVE Max(triggers) \in triggers
  BY <1>1, <1>2 DEF Max
<1>3. CASE triggers = {}
  BY <1>3 DEF Scope
<1>4. CASE triggers # {}
  <2>1. Scope(triggers) = Max(triggers)
    BY <1>4 DEF Scope
  <2>2. Max(triggers) \in 1..4
    BY <1>2, <1>4
  <2> HIDE DEF Scope
  <2>3. \A n \in 1..4 : n \in 0..4
    OBVIOUS
  <2> QED
    BY <2>1, <2>2, <2>3
<1> QED
  BY <1>3, <1>4

LEMMA RecordKeeps ==
    ASSUME IInv, NEW c \in Clients, Record(c)
    PROVE  IInv'
<1> DEFINE s == request[c].base
           day == request[c].op.day
           event == [day |-> day,
                     scope |-> Scope(Triggers(s, day, AllEligible, FALSE)),
                     outcome |-> Outcome(s, request[c].op.gain, AllEligible)]
<1>0. /\ request[c] # None /\ request[c].op \in Evaluations
      /\ events' = Append(events, event)
      /\ request' = [request EXCEPT ![c] = [request[c] EXCEPT !.op = [kind |-> "file", day |-> day]]]
      /\ UNCHANGED <<stored, filed, orders, strayed, books, fresh, serial>>
  <2>1. /\ request[c] # None /\ request[c].op.kind = "evaluate"
        /\ request[c].op \in Reports \cup Evaluations \cup Gets \cup Files
    BY InHand DEF Record, At, IInv, Request
  <2>2. request[c].op \in Evaluations
    BY <2>1 DEF Reports, Gets, Files
  <2> QED
    BY <2>1, <2>2 DEF Record, IInv, TypeInv
<1>1. day \in Days
  BY <1>0 DEF Evaluations
<1>2. event \in Event
  <2>1. Triggers(s, day, AllEligible, FALSE) \in SUBSET (1..4)
    BY DEF Triggers
  <2>2. Scope(Triggers(s, day, AllEligible, FALSE)) \in 0..4
    BY <2>1, ScopeType
  <2>3. Outcome(s, request[c].op.gain, AllEligible) \in Outcomes
    BY DEF Outcome, Outcomes
  <2> QED
    BY <1>1, <2>2, <2>3 DEF Event
<1> HIDE DEF event
<1>3. events' \in Seq(Event)
  <2>1. events \in Seq(Event)
    BY DEF IInv, TypeInv
  <2> HIDE DEF Event
  <2> QED
    BY <1>0, <1>2, <2>1
<1>4. /\ request'[c] = [request[c] EXCEPT !.op = [kind |-> "file", day |-> day]]
      /\ \A e \in Clients \ {c} : request'[e] = request[e]
      /\ request'[c] # None /\ request'[c].op = [kind |-> "file", day |-> day]
  <2> DEFINE new == [request[c] EXCEPT !.op = [kind |-> "file", day |-> day]]
  <2>1. request[c] \in Request
    BY <1>0, InHand DEF IInv
  <2>2. /\ new \in Request /\ new.op = [kind |-> "file", day |-> day]
        /\ new # None
    BY <1>1, <2>1, NoneAssumption DEF Request, Files
  <2> HIDE DEF new
  <2>3. request' = [request EXCEPT ![c] = new] /\ request = [e \in Clients |-> request[e]]
    BY <1>0 DEF IInv, TypeInv, new
  <2>4. request'[c] = new /\ \A e \in Clients \ {c} : request'[e] = request[e]
    BY <2>3
  <2> QED
    BY <2>2, <2>4 DEF new
<1> QED
  BY <1>0, <1>1, <1>3, <1>4, LeaveKeeps DEF IInv, TypeInv

LEMMA FileKeeps ==
    ASSUME IInv, NEW c \in Clients, File(c)
    PROVE  IInv'
<1> DEFINE day == request[c].op.day
           moves == Moves(request[c].base, AllEligible)
<1>1. /\ request[c] # None /\ day \in Days
      /\ filed' = [filed EXCEPT ![day] = moves]
      /\ request' = [request EXCEPT ![c] = None] /\ fresh' = fresh \ {c}
      /\ UNCHANGED <<stored, events, orders, strayed, books, serial>>
  <2>1. /\ request[c] # None /\ request[c].op.kind = "file"
        /\ request[c].op \in Reports \cup Evaluations \cup Gets \cup Files
    BY InHand DEF File, At, IInv, Request
  <2>2. day \in Days
    BY <2>1 DEF Reports, Evaluations, Gets, Files
  <2> QED
    BY <2>1, <2>2 DEF File, Answer
<1>2. moves \in SUBSET Funds /\ moves # None
  <2>1. moves \in SUBSET Funds
    BY DEF Moves, Trades
  <2> QED
    BY <2>1, NoneAssumption
<1> HIDE DEF moves
<1>3. /\ filed' \in [Days -> (SUBSET Funds) \cup {None}]
      /\ filed'[day] # None
      /\ \A d \in Days \ {day} : filed'[d] = filed[d]
      /\ request'[c] = None /\ \A e \in Clients \ {c} : request'[e] = request[e]
  BY <1>1, <1>2 DEF IInv, TypeInv
<1> QED
  BY <1>1, <1>3, LeaveKeeps DEF IInv, TypeInv

\* A report by a thread that is not fresh ends the serial history; by one that is,
\* it is processed on what is stored.
LEMMA ReportKeeps ==
    ASSUME IInv, NEW c \in Clients, Report(c)
    PROVE  IInv'
<1> DEFINE s == request[c].base
           r == request[c].op
<1>0. /\ request[c] # None /\ s \in Snapshot /\ r \in Reports
      /\ request[c].base = s /\ request[c].op = r
      /\ stored' = Process(s, r) /\ books' = Booked(r)
      /\ serial' = (serial /\ c \in fresh)
      /\ request' = [request EXCEPT ![c] = None] /\ fresh' = {}
      /\ UNCHANGED <<events, filed, orders, strayed>>
  <2>1. /\ request[c] # None /\ s # None /\ r.kind = "report"
        /\ r \in Reports \cup Evaluations \cup Gets \cup Files
        /\ s = None \/ s \in Snapshot
    BY InHand DEF Report, At, IInv, Request
  <2>2. r \in Reports
    BY <2>1 DEF Evaluations, Gets, Files
  <2> QED
    BY <2>1, <2>2 DEF Report
<1> HIDE DEF s, r
<1>p. /\ stored' \in Snapshot
      /\ stored'.cash = IF r.status \notin Fills THEN s.cash
                        ELSE IF r.side = "BUY" THEN s.cash - r.shares * r.price - Fee
                        ELSE s.cash + r.shares * r.price - Fee
      /\ stored'.shares = IF r.status \notin Fills THEN s.shares
                          ELSE [s.shares EXCEPT ![r.fund] =
                                  IF r.side = "BUY" THEN @ + r.shares ELSE Larger(0, @ - r.shares)]
      /\ stored'.pending = [s.pending EXCEPT ![r.fund] =
                              CASE r.status \in {"FILLED"} \cup Dead -> 0
                                [] r.status = "PARTIALLY_FILLED" -> Larger(0, @ - r.shares)
                                [] OTHER -> @]
      /\ stored'.waiting <=> \E f \in Funds : stored'.pending[f] > 0
  BY <1>0, ProcessType
<1>1. stored' # None
  BY <1>p, NoneAssumption
<1>2. /\ r.fund \in Funds /\ r.shares \in Nat /\ r.price \in Nat /\ Fee \in Nat
      /\ r.shares * r.price \in Nat /\ r.side \in Sides
      /\ r.status \in Fills \cup Dead \cup {"SUBMITTED"}
  <2>1. /\ r.fund \in Funds /\ r.shares \in Nat /\ r.price \in Prices \cup {0}
        /\ r.side \in Sides /\ r.status \in Fills \cup Dead \cup {"SUBMITTED"}
    BY <1>0 DEF Reports, Sides
  <2>2. r.price \in Nat /\ Fee \in Nat
    BY <2>1, MoneyTypes
  <2>3. \A m, n \in Nat : m * n \in Nat
    OBVIOUS
  <2> QED
    BY <2>1, <2>2, <2>3
<1>3. /\ books' \in Books
      /\ r.status \notin Fills => books' = books
      /\ r.status \in Fills =>
           /\ books'.cash = IF r.side = "BUY" THEN books.cash - r.shares * r.price - Fee
                            ELSE books.cash + r.shares * r.price - Fee
           /\ books'.shares = [books.shares EXCEPT ![r.fund] =
                                IF r.side = "BUY" THEN @ + r.shares ELSE @ - r.shares]
           /\ ~books'.short => ~books.short /\ books'.shares[r.fund] >= 0
  <2>1. CASE r.status \notin Fills
    BY <1>0, <2>1 DEF Booked, IInv, TypeInv
  <2>2. CASE r.status \in Fills
    <3> DEFINE sign == IF r.side = "BUY" THEN 1 ELSE -1
               amount == r.shares * r.price
    <3>1. sign * r.shares * r.price = IF r.side = "BUY" THEN amount ELSE -amount
      <4>1. \A m, n \in Nat : 1 * m * n = m * n /\ (-1) * m * n = -(m * n)
        BY SMT
      <4> QED
        BY <1>2, <4>1
    <3>2. sign * r.shares = IF r.side = "BUY" THEN r.shares ELSE -r.shares
      BY <1>2
    <3>3. /\ books.cash \in Int /\ books.shares \in [Funds -> Int]
          /\ books.short \in BOOLEAN /\ books \in Books
      BY DEF IInv, TypeInv, Books
    <3>4. books' = [books EXCEPT !.cash = @ - sign * r.shares * r.price - Fee,
                                 !.shares[r.fund] = @ + sign * r.shares,
                                 !.short = @ \/ books.shares[r.fund] + sign * r.shares < 0]
      BY <1>0, <2>2 DEF Booked
    <3> HIDE DEF sign, amount
    <3>5. /\ books'.cash = books.cash - sign * r.shares * r.price - Fee
          /\ books'.shares = [books.shares EXCEPT ![r.fund] = @ + sign * r.shares]
          /\ books'.short = (books.short \/ books.shares[r.fund] + sign * r.shares < 0)
      BY <3>3, <3>4 DEF Books
    <3>6. amount \in Nat
      BY <1>2 DEF amount
    <3>7. /\ books.cash - sign * r.shares * r.price - Fee \in Int
          /\ books.shares[r.fund] + sign * r.shares \in Int
      BY <1>2, <3>1, <3>2, <3>3, <3>6
    <3>8. books' \in Books
      BY <1>2, <3>3, <3>4, <3>7 DEF Books
    <3>9. books'.cash = IF r.side = "BUY" THEN books.cash - amount - Fee
                        ELSE books.cash + amount - Fee
      BY <1>2, <3>1, <3>3, <3>5, <3>6
    <3>10. books'.shares = [books.shares EXCEPT ![r.fund] =
                              IF r.side = "BUY" THEN @ + r.shares ELSE @ - r.shares]
      BY <1>2, <3>2, <3>3, <3>5
    <3>11. ~books'.short => ~books.short /\ books'.shares[r.fund] >= 0
      <4>1. r.fund \in Funds /\ books'.shares[r.fund] = books.shares[r.fund] + sign * r.shares
        BY <1>2, <3>3, <3>5
      <4>2. ~books'.short => ~books.short /\ ~(books.shares[r.fund] + sign * r.shares < 0)
        BY <3>5, Zenon
      <4> QED
        BY <3>7, <4>1, <4>2
    <3> QED
      BY <2>2, <3>8, <3>9, <3>10, <3>11 DEF amount
  <2> QED
    BY <2>1, <2>2
<1>4. TypeInv'
  BY <1>0, <1>1, <1>3, <1>p DEF IInv, TypeInv
<1>5. ReadInv'
  BY <1>0, <1>p DEF ReadInv
<1>6. serial' => serial /\ stored = s /\ stored # None
  BY <1>0, NoneAssumption DEF IInv, ReadInv
<1>7. BookInv'
  <2> SUFFICES ASSUME serial'
               PROVE  /\ stored'.cash = books'.cash
                      /\ ~books'.short => stored'.shares = books'.shares
    BY <1>1 DEF BookInv
  <2>1. s.cash = books.cash /\ (~books.short => s.shares = books.shares)
    BY <1>6 DEF IInv, BookInv
  <2>2. CASE r.status \notin Fills
    BY <1>0, <1>3, <2>1, <2>2, <1>p
  <2>3. CASE r.status \in Fills
    <3>1. stored'.cash = books'.cash
      BY <1>0, <1>3, <2>1, <2>3, <1>p
    <3>2. ASSUME ~books'.short PROVE stored'.shares = books'.shares
      <4>1. s.shares = books.shares /\ books'.shares[r.fund] >= 0
        BY <1>3, <2>1, <2>3, <3>2
      <4>2. s.shares \in [Funds -> Nat]
        BY <1>0 DEF Snapshot
      <4>3. r.side # "BUY" => Larger(0, s.shares[r.fund] - r.shares) = s.shares[r.fund] - r.shares
        BY <1>2, <1>3, <2>3, <4>1, <4>2 DEF Larger
      <4> QED
        BY <1>0, <1>2, <1>3, <2>3, <4>1, <4>2, <4>3, <1>p
    <3> QED
      BY <3>1, <3>2
  <2> QED
    BY <2>2, <2>3
<1>8. OrderInv'
  <2> SUFFICES ASSUME serial', NEW f \in Funds, orders[f] # None, f \notin strayed
               PROVE  stored'.pending[f] >= orders[f].left
    BY <1>0, <1>1 DEF OrderInv
  <2>1. /\ s.pending[f] >= orders[f].left
        /\ r.kind = "report" /\ (r.fund = f => Covers(s.pending[f], r, orders[f].left))
        /\ s.pending \in [Funds -> Nat] /\ orders[f].left \in Nat
    <3>1. orders[f] \in Orders
      BY DEF IInv, TypeInv
    <3>2. c \in fresh
      BY <1>0
    <3> QED
      BY <1>0, <1>6, <3>1, <3>2 DEF IInv, OrderInv, Orders, Snapshot, Reports
  <2>2. CASE f # r.fund
    BY <1>0, <1>2, <2>1, <2>2, <1>p
  <2>3. CASE f = r.fund
    <3>1. r.status = "SUBMITTED" \/ (r.status = "PARTIALLY_FILLED"
                                      /\ s.pending[f] - r.shares >= orders[f].left)
      BY <2>1, <2>3 DEF Covers
    <3>2. stored'.pending[f] = IF r.status = "PARTIALLY_FILLED"
                               THEN Larger(0, s.pending[f] - r.shares) ELSE s.pending[f]
      BY <1>0, <1>2, <2>1, <2>3, <3>1, <1>p DEF Dead
    <3> QED
      BY <1>2, <2>1, <3>1, <3>2 DEF Larger
  <2> QED
    BY <2>2, <2>3
<1> QED
  BY <1>4, <1>5, <1>7, <1>8 DEF IInv

LEMMA DeliverKeeps ==
    ASSUME IInv, NEW trades \in TradeLists, NEW day \in Days, Deliver(trades, day)
    PROVE  /\ IInv'
           /\ serial => \A f \in Funds : orders[f] # None => f \in strayed
<1> DEFINE next == [stored EXCEPT
               !.pending = [f \in Funds |-> IF f \in DOMAIN trades THEN trades[f].left
                                            ELSE stored.pending[f]],
               !.last = day]
<1>0. /\ stored \in Snapshot /\ ~stored.waiting
      /\ stored' = Flagged(next)
      /\ orders' = [f \in Funds |-> IF f \in DOMAIN trades THEN trades[f] ELSE orders[f]]
      /\ strayed' = strayed \ DOMAIN trades
      /\ books' = [books EXCEPT !.deliveries = @ + 1]
      /\ fresh' = {}
      /\ UNCHANGED <<request, events, filed, serial>>
  BY DEF Deliver, IInv, TypeInv
<1>1. \A f \in DOMAIN trades : trades[f] \in Orders /\ trades[f].left \in Nat
  BY DEF TradeLists, Orders
<1>2. /\ next \in Snapshot /\ next.cash = stored.cash /\ next.shares = stored.shares
      /\ \A f \in Funds : next.pending[f] = IF f \in DOMAIN trades THEN trades[f].left
                                            ELSE stored.pending[f]
  <2>1. [f \in Funds |-> IF f \in DOMAIN trades THEN trades[f].left
                         ELSE stored.pending[f]] \in [Funds -> Nat]
    BY <1>0, <1>1 DEF Snapshot
  <2> QED
    BY <1>0, <2>1 DEF Snapshot
<1> HIDE DEF next
<1>3. /\ stored' \in Snapshot /\ stored' # None
      /\ stored'.cash = stored.cash /\ stored'.shares = stored.shares
      /\ stored'.pending = next.pending
      /\ stored'.waiting <=> \E f \in Funds : stored'.pending[f] > 0
  BY <1>0, <1>2, FlaggedType, NoneAssumption
<1>4. books' \in Books /\ books'.cash = books.cash /\ books'.shares = books.shares
      /\ books'.short = books.short
  <2>1. books \in Books /\ books' = [books EXCEPT !.deliveries = books.deliveries + 1]
    BY <1>0 DEF IInv, TypeInv
  <2> QED
    BY <2>1 DEF Books
<1>5. orders' \in [Funds -> Orders \cup {None}]
  BY <1>0, <1>1 DEF IInv, TypeInv
<1>6. TypeInv'
  BY <1>0, <1>3, <1>4, <1>5 DEF IInv, TypeInv
<1>7. ReadInv' /\ BookInv'
  BY <1>0, <1>3, <1>4, NoneAssumption DEF IInv, ReadInv, BookInv
<1>8. ASSUME serial, NEW f \in Funds \ strayed PROVE orders[f] = None
  <2>1. ~(stored.pending[f] > 0) /\ stored.pending[f] \in Nat
    BY <1>0, NoneAssumption DEF IInv, ReadInv, Snapshot
  <2>2. orders[f] # None => stored.pending[f] >= orders[f].left /\ orders[f].left \in 1..MaxShares
    BY <1>8 DEF IInv, TypeInv, OrderInv, Orders
  <2> QED
    BY <2>1, <2>2
<1>9. OrderInv'
  <2> SUFFICES ASSUME serial, NEW f \in Funds, orders'[f] # None, f \notin strayed'
               PROVE  stored'.pending[f] >= orders'[f].left
    BY <1>0, <1>3 DEF OrderInv
  <2>1. f \in DOMAIN trades
    BY <1>0, <1>8
  <2> QED
    BY <1>0, <1>1, <1>2, <1>3, <2>1
<1> QED
  BY <1>6, <1>7, <1>8, <1>9 DEF IInv

LEMMA MarkKeeps ==
    ASSUME IInv, NEW price \in [Funds -> Prices], Mark(price)
    PROVE  IInv'
<1>0. /\ stored \in Snapshot /\ stored # None
      /\ stored' = MarkToMarket(stored, price) /\ fresh' = {}
      /\ UNCHANGED <<request, events, filed, orders, strayed, books, serial>>
  BY DEF Mark, IInv, TypeInv
<1>1. /\ stored' \in Snapshot /\ stored' # None
      /\ stored'.cash = stored.cash /\ stored'.shares = stored.shares
      /\ stored'.pending = stored.pending /\ stored'.waiting = stored.waiting
  BY <1>0, MarkType, NoneAssumption
<1>2. TypeInv'
  BY <1>0, <1>1 DEF IInv, TypeInv
<1>3. ReadInv' /\ BookInv' /\ OrderInv'
  BY <1>0, <1>1 DEF IInv, ReadInv, BookInv, OrderInv
<1> QED
  BY <1>2, <1>3 DEF IInv

LEMMA NextIInv == IInv /\ [Next]_vars => IInv'
<1> SUFFICES ASSUME IInv, [Next]_vars PROVE IInv'
  OBVIOUS
<1>1. ASSUME NEW c \in Clients, NEW op \in Reports \cup Evaluations \cup Gets, Look(c, op)
      PROVE  IInv'
  BY <1>1, LookKeeps
<1>2. ASSUME NEW c \in Clients, Create(c) \/ Get(c) \/ Report(c) \/ Record(c) \/ File(c)
      PROVE  IInv'
  BY <1>2, CreateKeeps, GetKeeps, ReportKeeps, RecordKeeps, FileKeeps
<1>3. ASSUME NEW trades \in TradeLists, NEW day \in Days, Deliver(trades, day)
      PROVE  IInv'
  BY <1>3, DeliverKeeps
<1>4. ASSUME NEW price \in [Funds -> Prices], Mark(price)
      PROVE  IInv'
  BY <1>4, MarkKeeps
<1>5. CASE UNCHANGED vars
  BY <1>5 DEF vars, IInv, TypeInv, ReadInv, BookInv, OrderInv
<1> QED
  BY <1>1, <1>2, <1>3, <1>4, <1>5 DEF Next

-----------------------------------------------------------------------------
(* Drift                                                                   *)

LEMMA GapType ==
    ASSUME NEW s \in Snapshot
    PROVE  /\ Scale(s) \in Nat \ {0}
           /\ \A f \in Funds : Gap(s, f) \in Int
<1>1. Scale(s) \in Nat \ {0}
  BY DEF Scale, Snapshot
<1>2. ASSUME NEW f \in Funds PROVE Gap(s, f) \in Int
  <2>1. s.shares[f] \in Nat /\ s.price[f] \in Nat
    BY MoneyTypes DEF Snapshot
  <2>2. ValueOf(s, f) \in Nat
    <3>1. \A m, n \in Nat : m * n \in Nat
      OBVIOUS
    <3> QED
      BY <2>1, <3>1 DEF ValueOf
  <2>3. Weight(s, f) \in Nat
    <3> HIDE DEF ValueOf
    <3> QED
      BY <2>2 DEF Weight
  <2>4. Target[f] * Scale(s) \in Nat
    <3>1. Target[f] \in Nat
      BY WeightAssumption
    <3>2. \A m, n \in Nat : m * n \in Nat
      OBVIOUS
    <3> QED
      BY <1>1, <3>1, <3>2
  <2> QED
    BY <2>3, <2>4 DEF Gap
<1> QED
  BY <1>1, <1>2

\* Products that the thresholds are compared by.
LEMMA Products ==
    /\ \A m, n, k \in Nat : m <= n => m * k <= n * k /\ m * k \in Nat /\ n * k \in Nat
    /\ \A m, n \in Nat \ {0} : m * n \in Nat \ {0}
<1>1. \A m, n, k \in Nat : m <= n => m * k <= n * k
  BY SMT
<1>2. \A m, n \in Nat : m * n \in Nat
  OBVIOUS
<1>3. \A m, n \in Nat \ {0} : m * n # 0
  BY SMT
<1> QED
  BY <1>1, <1>2, <1>3

\* The sum over c funds of gaps below a threshold of t * e stays below c * t * e.
LEMMA Thinly ==
    ASSUME NEW c \in Nat, NEW n \in Nat, c <= n, NEW t \in Nat \ {0}, NEW limit \in Nat \ {0},
           t * n <= limit, NEW e \in Nat \ {0}
    PROVE  t * e - 1 \in Nat /\ c * (t * e - 1) < limit * e
<1>1. t * e \in Nat \ {0} /\ limit * e \in Nat \ {0}
  BY Products
<1>2. CASE c = 0
  BY <1>1, <1>2
<1>3. CASE c # 0
  <2>1. c * t <= n * t /\ c * t \in Nat /\ n * t \in Nat
    BY Products
  <2>2. n * t = t * n
    BY SMT
  <2>3. (c * t) * e <= limit * e
    BY <2>1, <2>2, Products
  <2>4. c * (t * e) = (c * t) * e
    BY SMT
  <2>5. \A k \in Nat : c * (k - 1) = c * k - c
    BY SMT
  <2> DEFINE total == c * (t * e)
  <2>6. total \in Nat
    BY <1>1
  <2>7. c * (t * e - 1) = total - c
    BY <1>1, <2>5
  <2> HIDE DEF total
  <2> QED
    BY <1>1, <1>3, <2>3, <2>4, <2>6, <2>7 DEF total
<1> QED
  BY <1>2, <1>3

\* A tradable fund whose gap reaches the smallest trade moves.
LEMMA WideGapMoves ==
    ASSUME NEW s \in Snapshot, NEW frozen \in SUBSET Funds, NEW f \in Funds \ frozen,
           Gap(s, f) # 0, Magnitude(Gap(s, f)) >= MinTrade * Scale(s)
    PROVE  f \in Moves(s, [g \in Funds |-> IF g \in frozen THEN "NOT_TRADABLE"
                                           ELSE "FULLY_ELIGIBLE"])
<1>1. Magnitude(Gap(s, f)) \in Int /\ MinTrade * Scale(s) \in Nat
  <2>1. MinTrade \in Nat /\ Scale(s) \in Nat
    BY GapType, MoneyTypes
  <2>2. \A m, n \in Nat : m * n \in Nat
    OBVIOUS
  <2>3. Gap(s, f) \in Int
    BY GapType
  <2> HIDE DEF Gap, Scale
  <2> QED
    BY <2>1, <2>2, <2>3 DEF Magnitude, Larger
<1>2. ~(Magnitude(Gap(s, f)) < MinTrade * Scale(s))
  <2> HIDE DEF Magnitude, Gap, Scale
  <2> QED
    BY <1>1
<1> QED
  BY <1>2 DEF Moves, Trades, Filtered

\* The trigger engine and the proposer agree on what drift is, on every snapshot.
LEMMA DriftMoves ==
    ASSUME NEW s \in Snapshot, MinTrade <= FundLimit, FundLimit > 0, CategoryLimit > 0,
           MinTrade * Cardinality(Funds) <= CategoryLimit,
           NEW frozen \in SUBSET Funds, NEW tradable \in SUBSET SUBSET (Funds \ frozen),
           Drifted(s, frozen, tradable)
    PROVE  \E f \in Funds \ frozen :
              Gap(s, f) # 0 /\ Magnitude(Gap(s, f)) >= MinTrade * Scale(s)
<1> DEFINE e == Scale(s)
<1>1. /\ e \in Nat \ {0} /\ MinTrade \in Nat /\ FundLimit \in Nat \ {0}
      /\ CategoryLimit \in Nat \ {0}
      /\ \A f \in Funds : Gap(s, f) \in Int
  BY GapType, MoneyTypes
<1>2. /\ MinTrade * e \in Nat /\ MinTrade * e <= FundLimit * e
      /\ FundLimit * e \in Nat \ {0} /\ CategoryLimit * e \in Nat \ {0}
  BY <1>1, Products
<1>3. FundDrift(s, frozen) \/ CategoryDrift(s, tradable)
  BY <1>1 DEF Drifted
<1>4. CASE FundDrift(s, frozen)
  <2>1. PICK f \in Funds \ frozen : Magnitude(Gap(s, f)) >= FundLimit * e
    BY <1>4 DEF FundDrift
  <2> DEFINE gap == Gap(s, f)
  <2>2. gap \in Int
    BY <1>1
  <2> HIDE DEF gap, e
  <2>3. gap # 0 /\ Magnitude(gap) >= MinTrade * e
    BY <1>2, <2>1, <2>2 DEF Magnitude, Larger, gap
  <2> QED
    BY <2>3 DEF gap, e
<1>5. CASE CategoryDrift(s, tradable)
  <2>1. PICK S \in tradable : Magnitude(CategoryGap(s, S)) >= CategoryLimit * e
    BY <1>5 DEF CategoryDrift
  <2>2. /\ S \subseteq Funds \ frozen /\ IsFiniteSet(S)
        /\ Cardinality(S) \in Nat /\ Cardinality(Funds) \in Nat
        /\ Cardinality(S) <= Cardinality(Funds)
    BY FundsAssumption, FS_Subset, FS_CardinalityType
  <2> DEFINE b == IF MinTrade = 0 THEN 0 ELSE MinTrade * e - 1
             Narrow == \A f \in S : -b <= Gap(s, f) /\ Gap(s, f) <= b
             sum == CategoryGap(s, S)
             bound == Cardinality(S) * b
  <2>3. b \in Nat /\ bound < CategoryLimit * e /\ bound \in Nat
    <3>1. CASE MinTrade = 0
      <4>1. \A n \in Nat : n * 0 = 0
        BY SMT
      <4> QED
        BY <1>2, <2>2, <3>1, <4>1
    <3>2. CASE MinTrade # 0
      <4>1. MinTrade * e - 1 \in Nat /\ Cardinality(S) * (MinTrade * e - 1) < CategoryLimit * e
        BY <1>1, <2>2, <3>2, Thinly
      <4>2. \A m, n \in Nat : m * n \in Nat
        OBVIOUS
      <4> QED
        BY <2>2, <3>2, <4>1, <4>2
    <3> QED
      BY <3>1, <3>2
  <2>4. sum \in Int /\ (Narrow => -bound <= sum /\ sum <= bound)
    <3>1. \A f \in S : Gap(s, f) \in Int
      BY <1>1, <2>2
    <3> HIDE DEF b
    <3> QED
      BY <2>2, <2>3, <3>1, GapSum
  <2> HIDE DEF sum, bound, Narrow, e
  <2>5. ~Narrow
    BY <1>2, <2>1, <2>3, <2>4 DEF Magnitude, Larger, sum
  <2>6. PICK f \in S : ~(-b <= Gap(s, f) /\ Gap(s, f) <= b)
    BY <2>5 DEF Narrow
  <2> DEFINE gap == Gap(s, f)
  <2>7. gap \in Int /\ ~(-b <= gap /\ gap <= b)
    BY <1>1, <2>2, <2>6
  <2>8. gap # 0 /\ Magnitude(gap) >= MinTrade * e
    <3>1. MinTrade = 0 => MinTrade * e = 0
      BY <1>1 DEF e
    <3> HIDE DEF gap
    <3> QED
      BY <1>1, <1>2, <2>3, <2>7, <3>1 DEF Magnitude, Larger
  <2> QED
    BY <2>2, <2>8 DEF e
<1> QED
  BY <1>3, <1>4, <1>5

-----------------------------------------------------------------------------
(* The theorems                                                            *)

\* In every reachable state the books balance and what is open is pending.
THEOREM PortfolioInvariant == Spec => []IInv
<1> QED
  BY InitIInv, NextIInv, PTL DEF Spec

\* Cash and holdings are what the acknowledged reports add up to, while no
\* thread has stored a snapshot over one it had not read (process_execution_report
\* over a whole history).
THEOREM BooksAlwaysBalance == Spec => []BooksBalance
<1>1. IInv => BooksBalance
  BY DEF IInv, BookInv, BooksBalance
<1> QED
  BY <1>1, PortfolioInvariant, PTL

\* No fund is ordered again while the broker works on it, as long as every report
\* of the fund that comes in meanwhile is about that order: the pending shares of
\* process_execution_report then cover what is open, through partial fills, and
\* keep up the flag that guards the delivery.
THEOREM NoSecondOrderEver == Spec => NoSecondOrder
<1> DEFINE Free == serial /\ books'.deliveries # books.deliveries =>
                      \A f \in Funds : orders[f] # None => f \in strayed
<1>1. ASSUME IInv, Next PROVE Free
  <2>0. books \in Books
    BY <1>1 DEF IInv, TypeInv
  <2>1. ASSUME NEW c \in Clients, NEW op \in Reports \cup Evaluations \cup Gets, Look(c, op)
        PROVE  books'.deliveries = books.deliveries
    BY <2>0, <2>1 DEF Look, Books
  <2>2. ASSUME NEW c \in Clients, Create(c) \/ Get(c) \/ Report(c) \/ Record(c) \/ File(c)
        PROVE  books'.deliveries = books.deliveries
    BY <2>0, <2>2 DEF Create, Get, Report, Record, File, Booked, Books
  <2>3. ASSUME NEW trades \in TradeLists, NEW day \in Days, Deliver(trades, day)
        PROVE  Free
    BY <1>1, <2>3, DeliverKeeps
  <2>4. ASSUME NEW price \in [Funds -> Prices], Mark(price)
        PROVE  books'.deliveries = books.deliveries
    BY <2>4 DEF Mark
  <2> QED
    BY <1>1, <2>1, <2>2, <2>3, <2>4 DEF Next
<1>2. ASSUME IInv, [Next]_vars PROVE [Free]_vars
  BY <1>1, <1>2
<1> QED
  BY <1>2, PortfolioInvariant, PTL DEF Spec, NoSecondOrder

\* Where the trigger engine sees drift among tradable funds, the proposer has a
\* trade: for any number of funds and any thresholds that are far enough apart.
THEOREM DriftAlwaysHasTrades == Spec => []DriftHasTrades
<1>1. ASSUME TypeInv PROVE DriftHasTrades
  <2> SUFFICES ASSUME stored # None, MinTrade <= FundLimit, FundLimit > 0, CategoryLimit > 0,
                      MinTrade * Cardinality(Funds) <= CategoryLimit,
                      NEW frozen \in SUBSET Funds,
                      NEW classes \in {{S, Funds \ S} : S \in SUBSET Funds},
                      Drifted(stored, frozen, {funds \in classes : funds \cap frozen = {}})
               PROVE  Moves(stored, [f \in Funds |-> IF f \in frozen THEN "NOT_TRADABLE"
                                                     ELSE "FULLY_ELIGIBLE"]) # {}
    BY DEF DriftHasTrades
  <2> DEFINE tradable == {funds \in classes : funds \cap frozen = {}}
  <2>1. stored \in Snapshot
    BY <1>1 DEF TypeInv
  <2>2. tradable \in SUBSET SUBSET (Funds \ frozen)
    OBVIOUS
  <2> HIDE DEF tradable
  <2>3. PICK f \in Funds \ frozen :
           Gap(stored, f) # 0 /\ Magnitude(Gap(stored, f)) >= MinTrade * Scale(stored)
    BY <2>1, <2>2, DriftMoves DEF tradable
  <2> QED
    BY <2>1, <2>3, WideGapMoves
<1>2. IInv => DriftHasTrades
  BY <1>1 DEF IInv
<1> QED
  BY <1>2, PortfolioInvariant, PTL
=============================================================================
