--------------------------- MODULE MCFundCatalogue ---------------------------
(***************************************************************************)
(* The catalogue on a small instance: two codes, of which the second list  *)
(* renames the first and gives it a type of another class.  An overview    *)
(* says nothing, agrees, disagrees or is about another kind of fund.       *)
(***************************************************************************)
EXTENDS FundCatalogue, TLC
CONSTANTS c1, c2, a, b

MCAssetOf == [mixed |-> "MIXED", index |-> "EQUITY", other |-> "UNKNOWN"]
MCDeclares == [mixed |-> {}, index |-> {}, other |-> {"TARGET_DATE"}]
MCIndexAsset == [csi |-> "EQUITY"]

Say(says, context) == [says |-> says, context |-> context]
Typed(type) == [NoReport EXCEPT !.formal_type = type]

MCLists == {<<[code |-> c1, class |-> a, report |-> [Typed("mixed") EXCEPT !.name = {"QUANTITATIVE"}]],
              [code |-> c2, class |-> b, report |-> [Typed("other") EXCEPT !.name = {"MIXED"}]]>>,
            <<[code |-> c1, class |-> b, report |-> [Typed("index") EXCEPT !.name = {"PASSIVE_INDEX"}]]>>}
MCOverviews ==
    {NoReport,
     [Typed("mixed") EXCEPT !.investment_strategy =
        {Say("ACTIVE", "POSITIVE"), Say("QUANTITATIVE", "POSITIVE")}],
     [Typed("index") EXCEPT !.tracking_target = "csi",
        !.investment_strategy = {Say("QUANTITATIVE", "POSITIVE"), Say("QUANTITATIVE", "NEGATIVE")}]}
MCJobs == {<<c1>>, <<Legacy, c1>>, <<Legacy>>}
MCOrder == <<Legacy, c1, c2>>

(* What the steps and properties tell apart.  Revisions are only numbered: *)
(* of the numbers, what matters is whether the case is about the latest.   *)
(* Answers are only counted: of the counts, whether they agree, of a       *)
(* transaction those of its subject.  A job's day is that of its overview. *)
Numbered(r) ==
    IF r = None THEN None
    ELSE [r EXCEPT !.revision = IF @ = 0 THEN 0 ELSE 1,
                   !.grouping = IF @ = 0 THEN 0 ELSE IF @ = r.revision THEN 1 ELSE 2]
Counted(t) ==
    IF t = None THEN None
    ELSE [t EXCEPT !.product = [p \in Products |-> Numbered(@[p])],
                   !.raw = 0, !.answered = @ - t.raw,
                   !.day = IF t.program = "ingest-funds" \/ t.stage = "refresh" THEN @ ELSE 0]
Seen == <<[p \in Products |-> Numbered(product[p])], [w \in Workers |-> Counted(tx[w])],
          identity, today, begun, clock, answered - raw, told>>
Symmetry == Permutations(Workers) \cup Permutations(Names)
=============================================================================
