-------------------------- MODULE MCFundEvaluation --------------------------
(***************************************************************************)
(* Evaluations of a small group, by two callers for two decisions.         *)
(***************************************************************************)
EXTENDS FundEvaluation, TLC

MCWeight == [TE |-> 1, RATIO |-> 2, EXPENSE |-> 1]

Kind(te, ratio, expense) == [te |-> te, ratio |-> ratio, expense |-> expense]

\* A fund whose tracking error pays, one whose does not, one in the neutral
\* band, and one without an expense ratio.
MCKinds ==
  <<Kind(2, 10, 1), Kind(1, 10, 2), Kind(1, 0, 1), Kind(2, 5, 2), Kind(1, 10, None)>>
MCData == {MCKinds[i] : i \in DOMAIN MCKinds}

MCSound == [m \in FactorMetrics |-> [full |-> "SOUND", recent |-> "SOUND"]]
MCEvidence ==
  {MCSound, [MCSound EXCEPT !.RATIO.recent = "FAILED"],
   [MCSound EXCEPT !.TE.recent = "SHORT"]}

\* Funds that differ in nothing but their number are interchangeable: the kinds
\* are taken in order.  At first all are in one
\* group, and all metrics are sound.
MCInit ==
  /\ \E k \in [Funds -> DOMAIN MCKinds] :
       /\ \A f, h \in Funds : f < h => k[f] <= k[h]
       /\ data = [f \in Funds |-> MCKinds[k[f]]]
  /\ \E g \in Groups : group = [f \in Funds |-> g]
  /\ evidence = MCSound
  /\ Init

MCSpec == MCInit /\ [][Next]_vars

\* Callers, decisions and groups are interchangeable.
Symmetry ==
  Permutations(Callers) \cup Permutations(Decisions) \cup Permutations(Groups)
=============================================================================
