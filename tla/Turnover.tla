----------------------------- MODULE Turnover -----------------------------
(***************************************************************************)
(* What acts/property_mgmt_agent.py derives from the turnover board: the   *)
(* blocked handoffs, and a free cleaner for a blocked cleaning.            *)
(* Properties and cleaners are numbered in the order of their ids; a board *)
(* gives the status of each stage of each property.                        *)
(***************************************************************************)
EXTENDS Naturals

\* checkout, clean, inspect, ready: each hands over to the next.
TurnoverStages == 1..4
Clean == 2

StageStatuses == {"done", "in_progress", "waiting", "blocked"}

Boards(props) == [props -> [TurnoverStages -> StageStatuses]]

\* detect_stalls: the role that hands over and the stage that is stuck.
Stalls(board) ==
  {[prop |-> h[1], from |-> IF h[2] = 1 THEN 1 ELSE h[2] - 1, stage |-> h[2]] :
     h \in {h \in (DOMAIN board) \X TurnoverStages :
              board[h[1]][h[2]] = "blocked"}}

\* clean_stalls: the first free cleaner who is not the one assigned.
Suggested(assigned, free) ==
  LET others == free \ {assigned}
  IN  {k \in others : \A j \in others : k <= j}

===========================================================================
