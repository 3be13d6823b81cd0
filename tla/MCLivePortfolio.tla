-------------------------- MODULE MCLivePortfolio --------------------------
(* Small instances of LivePortfolio *)
EXTENDS LivePortfolio, TLC

MCTarget == [f \in Funds |-> 50]
Symmetry == Permutations(Clients) \cup Permutations(Funds)

\* What was recorded and filed is never read again and no property looks at it,
\* nor at the snapshot from which it is made: states that differ only in these are
\* explored as one.
Seen ==
    <<stored, Len(events), orders, strayed, books, fresh, serial,
      [c \in Clients |->
        IF request[c] = None \/ request[c].op.kind = "report" THEN request[c]
        ELSE [op |-> request[c].op, base |-> request[c].base = None]]>>
=============================================================================
