--------------------------- MODULE MCTurnoverFeed ---------------------------
EXTENDS TurnoverFeed, TLC

CONSTANTS c1, c2

MCProps == {1, 2}

\* The cleaning of property 1 and the inspection of property 2 are blocked.
MCBoard ==
  1 :> <<"done", "blocked", "waiting", "waiting">>
    @@ 2 :> <<"done", "done", "blocked", "waiting">>

MCAssigned == [p \in MCProps |-> 2]

Symmetry == Permutations(Callers)
===========================================================================
