------------------------- MODULE TamperEvidentLog -------------------------
(***************************************************************************)
(* What the hash chain promises to whoever audits the file: the entries    *)
(* that verify form a history that only grows, until the file breaks; from *)
(* then on the verified history is final.  A break may take the newest     *)
(* entry with it, when it falls on that entry's own line.                  *)
(***************************************************************************)
EXTENDS Sequences, Naturals

CONSTANT Hashes   \* the entry hashes

VARIABLES
  history,  \* the verified entries, oldest first
  broken    \* verify_chain rejects the file

Init == history = <<>> /\ broken = FALSE

\* One more entry verifies, chained to the newest one.
Extend(h) ==
  /\ ~broken
  /\ \A i \in 1..Len(history) : history[i] # h
  /\ history' = Append(history, h)
  /\ UNCHANGED broken

Break ==
  /\ ~broken
  /\ broken' = TRUE
  /\ \/ UNCHANGED history
     \/ /\ history # <<>>
        /\ history' = SubSeq(history, 1, Len(history) - 1)

Next == Break \/ \E h \in Hashes : Extend(h)

Spec == Init /\ [][Next]_<<history, broken>>
===========================================================================
