------------------------- MODULE MCEstimationInputs -------------------------
(* Two funds and two indexes, all values known, one mapping for the class. *)
EXTENDS EstimationWorlds, TLC

CONSTANTS s1, s2, i1, i2, single, composite, price, equity

MCComponents == single :> {i1} @@ composite :> {i1, i2} @@ price :> {i2}
MCValidFor == single :> {equity} @@ composite :> {equity} @@ price :> {}

Complete == [d \in Days |-> "AVAILABLE"]
MCFirstWorld ==
    [nav |-> [s \in Shares |-> Complete],
     class |-> [s \in Shares |-> equity],
     mappings |-> <<[share |-> None, class |-> equity, benchmark |-> single,
                     from |-> 1, to |-> None, at |-> 1]>>,
     index |-> [i \in Indexes |-> Complete]]

(* The funds are interchangeable. *)
Symmetry == Permutations(Shares)
=============================================================================
