--------------------------- MODULE MCEstimationRun ---------------------------
(* A small instance of EstimationRun: one fund, three days of returns, and *)
(* worlds that lead to each outcome.                                       *)
EXTENDS EstimationRun, TLC

CONSTANTS c1, c2, c3, p1, p2, s1, i1, b1, equity, good, bad

MCComponents == b1 :> {i1}
MCValidFor == b1 :> {equity}
MCSetting ==
    c1 :> [mode |-> "BACKTEST", provisional |-> TRUE, allows |-> TRUE, policy |-> p1] @@
    c2 :> [mode |-> "BACKTEST", provisional |-> TRUE, allows |-> FALSE, policy |-> p1] @@
    c3 :> [mode |-> "LIVE", provisional |-> FALSE, allows |-> FALSE, policy |-> p2]

Mapped(from, to) == [share |-> None, class |-> equity, benchmark |-> b1,
                     from |-> from, to |-> to, at |-> 1]
Base == [nav |-> s1 :> [d \in Days |-> "AVAILABLE"],
         class |-> s1 :> equity,
         mappings |-> <<Mapped(1, None)>>,
         index |-> i1 :> [d \in Days |-> "AVAILABLE"]]
Kind(data, absolute, excess, raises) ==
    [data |-> data, ABSOLUTE |-> absolute, EXCESS |-> excess, raises |-> raises]

MCWorlds ==
    {[raises |-> kind.raises,
      inputs |-> [basis \in Bases |-> Input(kind.data, basis, kind[basis])]] :
        kind \in
            {Kind(Base, "fine", "fine", FALSE),
             Kind([Base EXCEPT !.mappings = <<Mapped(1, 2), Mapped(2, None)>>],
                  "fine", "singular", FALSE),
             Kind([Base EXCEPT !.nav[s1] = [d \in Days \ {1} |-> "AVAILABLE"]],
                  "ill", "ill", FALSE),
             Kind([Base EXCEPT !.mappings = <<>>], "fine", "fine", FALSE),
             Kind(Base, "fine", "fine", TRUE)}}
=============================================================================
