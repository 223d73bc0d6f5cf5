----------------------------- MODULE StableSort -----------------------------
(***************************************************************************)
(* What Python's sorted and list.sort do: the places I of a sequence in    *)
(* the order of their keys, places of one key in the order they had; and   *)
(* what a comprehension does that filters a sequence.                      *)
(***************************************************************************)
EXTENDS Integers, FiniteSets, Sequences

\* The places of I that come before place i.
Before(key, I, i) == {j \in I : key[j] < key[i] \/ (key[j] = key[i] /\ j < i)}

SortedPlaces(key, I) ==
  [k \in 1..Cardinality(I) |->
     CHOOSE i \in I : Cardinality(Before(key, I, i)) = k - 1]

\* What a filtering comprehension keeps of s: the entries at the places I.
Picked(s, I) ==
  LET kept[n \in 0..Len(s)] ==
        IF n = 0 THEN <<>>
        ELSE IF n \in I THEN Append(kept[n-1], s[n])
        ELSE kept[n-1]
  IN  kept[Len(s)]
=============================================================================
