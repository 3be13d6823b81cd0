------------------------- MODULE ClassificationRules -------------------------
(***************************************************************************)
(* How a product is classified from what data sets say of it (data_service *)
(* classification/rules.py, strategy.py, policy.py).                       *)
(*                                                                         *)
(* A report holds what one data set says: the hints of a name, a formal    *)
(* type, the clauses of the disclosed strategy (none when only a scope or  *)
(* other text is disclosed), the target that is tracked, membership in a   *)
(* list of index funds.  How words are found in a text is left out: a name *)
(* is its hints, a clause one statement and its context.                   *)
(***************************************************************************)
EXTENDS Integers, FiniteSets

CONSTANTS
    FormalTypes,    \* the types that data sets use
    AssetOf,        \* the policy's asset class of each type
    NonIndexTypes,  \* the types that may confirm active management
    Declares,       \* strategies that a type's own words declare
    Targets,        \* the targets that data sets name
    IndexAsset,     \* the policy's asset class of some targets
    None            \* nothing said

Assets ==
    {"EQUITY", "BOND", "MIXED", "MONEY_MARKET", "FOF", "REIT", "COMMODITY", "OTHER"}
Strategies ==
    {"ACTIVE", "PASSIVE_INDEX", "ENHANCED_INDEX", "TARGET_DATE", "TARGET_RISK"}
Tags == {"QUANTITATIVE"}
Contexts == {"POSITIVE", "NEGATIVE", "IGNORED"}

(* What load_policy accepts. *)
ValidPolicy ==
    /\ AssetOf \in [FormalTypes -> Assets \cup {"UNKNOWN"}]
    /\ NonIndexTypes \subseteq {t \in FormalTypes : AssetOf[t] # "UNKNOWN"}
    /\ DOMAIN IndexAsset \subseteq Targets
    /\ \A x \in DOMAIN IndexAsset : IndexAsset[x] \in Assets

ASSUME PolicyAssumption ==
    /\ ValidPolicy
    /\ Declares \in [FormalTypes -> SUBSET {"TARGET_DATE", "TARGET_RISK"}]
    /\ None \notin FormalTypes \cup Targets \cup Assets \cup Strategies

(* The lists of index funds, of which only valid positive rows count. *)
Memberships == {"PASSIVE_INDEX", "ENHANCED_INDEX"}

(* A clause of a disclosed strategy adopts, refuses or only mentions.      *)
Clauses == [says : Strategies \cup Tags, context : Contexts]

(* A report lacks the fields that were empty; evidence has a name without  *)
(* hints in the place of none.                                             *)
Reports ==
    [name : {None} \cup SUBSET (Assets \cup Strategies \cup Tags),
     formal_type : FormalTypes \cup {None},
     investment_strategy : {None} \cup SUBSET Clauses,
     tracking_target : Targets \cup {None},
     index_membership : Memberships \cup {None}]

NoReport ==
    [name |-> None, formal_type |-> None, investment_strategy |-> None,
     tracking_target |-> None, index_membership |-> None]
NoEvidence == [NoReport EXCEPT !.name = {}]

(* What the data sets of the evidence say in a field. *)
Said(evidence, field) == {evidence[d][field] : d \in DOMAIN evidence} \ {None}
Hints(evidence) == UNION Said(evidence, "name")
Disclosed(evidence, context) ==
    {c.says : c \in {c \in UNION Said(evidence, "investment_strategy") : c.context = context}}

-----------------------------------------------------------------------------
(* Dimensions                                                              *)

(* Statements that differ are a conflict, which no priority settles; hints *)
(* of names make a candidate, where there is no statement.                 *)
Result(values, hints) ==
    CASE Cardinality(values) > 1 -> [status |-> "CONFLICT", value |-> "UNKNOWN"]
      [] Cardinality(values) = 1 ->
            [status |-> "CONFIRMED", value |-> CHOOSE v \in values : TRUE]
      [] values = {} /\ hints # {} -> [status |-> "CANDIDATE", value |-> "UNKNOWN"]
      [] OTHER -> [status |-> "UNKNOWN", value |-> "UNKNOWN"]

AssetClass(evidence) ==
    LET types == {AssetOf[t] : t \in Said(evidence, "formal_type")}
        targets == {IndexAsset[x] :
                       x \in Said(evidence, "tracking_target") \cap DOMAIN IndexAsset}
    IN  Result((types \cup targets) \ {"UNKNOWN"}, Hints(evidence) \cap Assets)

Unrecognized(evidence) ==
    \/ \E t \in Said(evidence, "formal_type") : AssetOf[t] = "UNKNOWN"
    \/ \E x \in Said(evidence, "tracking_target") : x \notin DOMAIN IndexAsset

(* Active management needs a type that is not an index fund's. *)
Active(evidence) ==
    /\ "ACTIVE" \in Disclosed(evidence, "POSITIVE")
    /\ Said(evidence, "formal_type") \cap NonIndexTypes # {}

Strategy(evidence) ==
    LET adopted == Disclosed(evidence, "POSITIVE") \cap (Strategies \ {"ACTIVE"})
        active == IF Active(evidence) THEN {"ACTIVE"} ELSE {}
        declared == UNION {Declares[t] : t \in Said(evidence, "formal_type")}
        lists == Said(evidence, "index_membership")
    IN  Result(adopted \cup active \cup declared \cup lists, Hints(evidence) \cap Strategies)

(* A method that is both adopted and refused is a conflict. *)
Quantitative(evidence) ==
    LET adopted == "QUANTITATIVE" \in Disclosed(evidence, "POSITIVE")
        refused == "QUANTITATIVE" \in Disclosed(evidence, "NEGATIVE")
    IN  CASE adopted /\ refused -> "CONFLICT"
          [] adopted /\ ~refused -> "CONFIRMED"
          [] ~adopted /\ "QUANTITATIVE" \in Hints(evidence) -> "CANDIDATE"
          [] OTHER -> "UNKNOWN"

(* The snapshot's review items, of which each becomes a case. *)
ReviewItems(evidence) ==
    {<<"asset_class", s>> : s \in {AssetClass(evidence).status} \ {"CONFIRMED"}}
    \cup (IF Unrecognized(evidence) THEN {<<"asset_class", "UNRECOGNIZED">>} ELSE {})
    \cup {<<"strategy", s>> : s \in {Strategy(evidence).status} \ {"CONFIRMED"}}
    \cup {<<"strategy_tags", s>> : s \in {Quantitative(evidence)} \cap {"CONFLICT", "CANDIDATE"}}

-----------------------------------------------------------------------------
(* Evidence from one classification to the next                            *)

ContextFields ==
    {"formal_type", "investment_strategy", "tracking_target", "index_membership"}

\* Mutant of Retained: a text that declares no strategy is not cited.
RetainedIfDeclared(report) ==
    [report EXCEPT
        !.name = IF @ \cap (Assets \cup Strategies) = {} THEN {} ELSE @,
        !.investment_strategy =
            IF @ = None THEN None
            ELSE IF {c.says : c \in @} \cap Strategies = {} THEN None ELSE @]

(* Kept is what a dimension's result cites: every disclosure, whether it   *)
(* decided or not, and a name that hints at an asset class or a strategy.  *)
(* What only tags cite is not kept.                                        *)
Retained(report) ==
    [report EXCEPT !.name = IF @ \cap (Assets \cup Strategies) = {} THEN {} ELSE @]

\* Mutant of Merge: a field replaces that field of all data sets.
MergeByField(evidence, dataset, report) ==
    [d \in DOMAIN evidence |->
        [f \in DOMAIN report |->
            IF report[f] = None THEN Retained(evidence[d])[f]
            ELSE IF d = dataset THEN report[f] ELSE NoEvidence[f]]]

(* The evidence in force on the day of a report, and the report: a field   *)
(* replaces that field of the same data set.                               *)
Merge(evidence, dataset, report) ==
    [d \in DOMAIN evidence |->
        [f \in DOMAIN report |->
            IF d = dataset /\ report[f] # None THEN report[f]
            ELSE Retained(evidence[d])[f]]]
=============================================================================
