---------------------------- MODULE PeerScoring ----------------------------
(***************************************************************************)
(* How a peer group is scored, ranked, tiered and selected: the pure       *)
(* functions of src/src/fip/strategy_library/{normalization, scoring,      *)
(* ranking, tier, universe}.py and what services/fund_service passes them. *)
(* Three weighted metrics stand for those of a profile: the tracking error *)
(* (F-REL-005), the ratio that qualifies it (the information ratio or the  *)
(* Sharpe ratio, in tenths) and the expense ratio.  Funds are their        *)
(* share_class_ids.                                                        *)
(***************************************************************************)
EXTENDS Integers, FiniteSets, FiniteSetsExt

CONSTANTS
  None,               \* an absent value
  Profile,            \* the profile whose tracking error rule applies
  Weight,             \* configured_weight of each metric
  MinimumSample,      \* minimum_peer_group_size
  MinimumFactors,     \* minimum_scoring_factors
  MinimumCompleteness,\* minimum_data_completeness, in percent
  EligibleTiers       \* the tiers a universe admits

Metrics == {"TE", "RATIO", "EXPENSE"}
FactorMetrics == {"TE", "RATIO"}

\* 100 points; divisible by twice n - 1 for groups of at most seven funds.
FullMark == 1200
\* Divisible by the weight of each set of metrics, so that means are integers.
Whole == 60

TotalWeight(S) == MapThenSumSet(LAMBDA m : Weight[m], S)

ASSUME ScoringAssumption ==
  /\ Profile \in {"active_equity", "hybrid", "passive_equity", "bond"}
  /\ Weight \in [Metrics -> Nat \ {0}]
  /\ \A S \in (SUBSET Metrics) \ {{}} : Whole % TotalWeight(S) = 0
  /\ MinimumSample \in Nat \ {0, 1}
  /\ MinimumFactors \in Nat \ {0} /\ MinimumCompleteness \in 0..100
  /\ EligibleTiers \subseteq {"A", "B", "C", "D"}

ASSUME AbsenceAssumption == None \notin Int /\ None \notin {"A", "B", "C", "D"}

-----------------------------------------------------------------------------
(* Average ranks, doubled: best first, and equal values share the mean of  *)
(* the places they fill.  x maps funds to their values, absent ones left   *)
(* out.                                                                    *)

Known(x) == [f \in {g \in DOMAIN x : x[g] # None} |-> x[f]]
Better(x, f) == {g \in DOMAIN x : x[g] > x[f]}
Equal(x, f) == {g \in DOMAIN x : x[g] = x[f]}

\* Mutant of DoubledRank: a fund's place in the sorted list, ties by id.
PlaceInList(x, f) ==
  2 * (Cardinality(Better(x, f)) + Cardinality({g \in Equal(x, f) : g <= f}))

DoubledRank(x, f) == 2 * Cardinality(Better(x, f)) + Cardinality(Equal(x, f)) + 1

Negated(x) == [f \in DOMAIN x |-> IF x[f] = None THEN None ELSE -x[f]]

\* normalize_factor, HIGHER_IS_BETTER: percentile points among those with a
\* value, nothing if they are too few.
Normalized(x) ==
  LET known == Known(x)
      n == Cardinality(DOMAIN known)
  IN [f \in DOMAIN x |->
        IF n < MinimumSample \/ x[f] = None THEN None
        ELSE (FullMark \div (2 * (n - 1))) * (2 * n - DoubledRank(known, f))]

-----------------------------------------------------------------------------
(* calculate_tracking_error_scores.  Square roots are left out where only  *)
(* the order counts.                                                       *)

\* The ratio above which tracking error is rewarded (0.5, or 1.0 of Sharpe).
Reward == IF Profile = "active_equity" THEN 5 ELSE 10

\* active_equity has a band of ratios in which tracking error counts neither way.
IsNeutral(te, ratio) ==
  Profile = "active_equity" /\ te # None /\ ratio # None /\ ratio \in 1..Reward

Composite(te, ratio) ==
  IF te = None \/ ratio = None \/ IsNeutral(te, ratio) THEN None
  ELSE IF ratio > Reward THEN te * ratio ELSE -te

\* The hard limit of a bond fund's tracking error (1.5 %).
BondLimit == 1

\* interaction_value of each fund, from its raw tracking error and ratio.
Interactions(te, ratio) ==
  LET plain == Normalized(Negated(te))
      composites == Normalized([f \in DOMAIN te |-> Composite(te[f], ratio[f])])
  IN [f \in DOMAIN te |->
        CASE Profile = "passive_equity" -> plain[f]
          [] Profile = "bond" ->
               IF te[f] # None /\ te[f] > BondLimit THEN 0 ELSE plain[f]
          [] OTHER ->
               IF IsNeutral(te[f], ratio[f]) THEN FullMark \div 2 ELSE composites[f]]

-----------------------------------------------------------------------------
(* calculate_score.                                                        *)

\* ScoringItem.scoring_value: the interaction if there is one, else the
\* normalized value.
ScoringValue(interaction, normalized) ==
  IF interaction # None THEN interaction ELSE normalized

\* The scoring values of each metric for each fund, from raw data: a function
\* of metrics to functions of funds.
ScoringValues(te, ratio, expense) ==
  LET interaction == Interactions(te, ratio)
      plain == Normalized(Negated(te))
  IN [TE |-> [f \in DOMAIN te |-> ScoringValue(interaction[f], plain[f])],
      RATIO |-> Normalized(ratio),
      EXPENSE |-> Normalized(Negated(expense))]

\* Fixed weights over the metrics that are valid out of sample and have a value.
Usable(values, verdict, f) ==
  {m \in Metrics : verdict[m] = "VALID" /\ values[m][f] # None}

Score(values, verdict, f) ==
  LET usable == Usable(values, verdict, f)
      available == {m \in Metrics : values[m][f] # None}
  IN IF \/ \E m \in Metrics : verdict[m] = "VALIDATION_PENDING"
        \/ Cardinality(usable) < MinimumFactors
        \/ 100 * Cardinality(available) < MinimumCompleteness * Cardinality(Metrics)
     THEN None
     ELSE MapThenSumSet(LAMBDA m : values[m][f] * Weight[m], usable)
            * (Whole \div TotalWeight(usable))

-----------------------------------------------------------------------------
(* rank_peer_group, classify_tier, evaluate_candidate.                     *)

\* Nobody has a rank if too few have a score.
Ranks(scores) ==
  LET known == Known(scores)
  IN [f \in DOMAIN scores |->
        IF Cardinality(DOMAIN known) < MinimumSample \/ scores[f] = None THEN None
        ELSE DoubledRank(known, f)]

Tier(rank, n) ==
  IF rank = None \/ n < MinimumSample THEN None
  ELSE IF 10 * rank <= 2 * 2 * n THEN "A"
  ELSE IF 10 * rank <= 5 * 2 * n THEN "B"
  ELSE IF 10 * rank <= 8 * 2 * n THEN "C"
  ELSE "D"

\* n_effective counts the funds with a rank.
Tiers(ranks) ==
  LET n == Cardinality({f \in DOMAIN ranks : ranks[f] # None})
  IN [f \in DOMAIN ranks |-> Tier(ranks[f], n)]

Selected(tiers) == {f \in DOMAIN tiers : tiers[f] \in EligibleTiers}
=============================================================================
