------------------------------ MODULE MCStrActs ------------------------------
(***************************************************************************)
(* StrActs for TLC: a property whose fee needs approval and one that was   *)
(* charged right, two bodies of one cache key and a third, and requests.    *)
(***************************************************************************)
EXTENDS StrActs, TLC

CONSTANTS prop, fair, body1, body2, body3

MCFee == [p \in {prop} |-> 840]
MCPrice == [s \in {"price", "aeo"} |-> IF s = "price" THEN 25 ELSE 100]
MCKeyOf == [b \in Bodies |-> IF b = body3 THEN "event" ELSE "season"]

Ask(route, of) ==
  [door |-> "str", route |-> route, of |-> of, token |-> TRUE, live |-> FALSE, fresh |-> FALSE]
Live(c) == [c EXCEPT !.live = TRUE]
Fresh(c) == [c EXCEPT !.live = TRUE, !.fresh = TRUE]
Unpaid(c) == [c EXCEPT !.token = FALSE]
Mounted(c) == [c EXCEPT !.door = "mpp"]

\* Money: the fee, live and not, the batch and the two ways to a card.
MoneyCalls ==
  {Live(Ask("act1", prop)), Fresh(Ask("act1", prop)), Live(Ask("act1", fair)), Ask("payouts", prop),
   Ask("checkout", prop), Ask("assign", prop)}

\* Sales at both doors.
SalesCalls ==
  {Live(Ask("price", body1)), Live(Unpaid(Ask("price", body2))), Fresh(Ask("price", body3)),
   Live(Ask("aeo", body1)), Unpaid(Ask("aeo", body1)), Mounted(Ask("aeo", body2))}

AllCalls == MoneyCalls \cup SalesCalls

Symmetry == Permutations(Threads)
=============================================================================
