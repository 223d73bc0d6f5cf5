----------------------------- MODULE GatedSpend -----------------------------
(***************************************************************************)
(* What the invoice pipeline promises about money: an invoice is charged   *)
(* only when policy and guardrail admit it, over the threshold only when a *)
(* human allowed its spend key, and under its idempotency key at most      *)
(* once.  A backend that is given no key may be asked again.               *)
(***************************************************************************)
EXTENDS Naturals

CONSTANTS
  Invoices,
  KeyOf,     \* invoice -> the spend key a human allows
  Free,      \* invoices under the threshold
  Eligible   \* invoices policy and guardrail admit

VARIABLES
  keyed,     \* invoice -> number of charges under its idempotency key
  unkeyed,   \* invoice -> number of charges without one
  allowed    \* spend keys a human allowed

vars == <<keyed, unkeyed, allowed>>

Init ==
  /\ keyed = [i \in Invoices |-> 0]
  /\ unkeyed = [i \in Invoices |-> 0]
  /\ allowed = {}

Allow(i) ==
  /\ allowed' = allowed \cup {KeyOf[i]}
  /\ UNCHANGED <<keyed, unkeyed>>

Spendable(i) == i \in Eligible /\ (i \in Free \/ KeyOf[i] \in allowed)

Charge(i) ==
  /\ Spendable(i)
  /\ keyed[i] = 0
  /\ keyed' = [keyed EXCEPT ![i] = 1]
  /\ UNCHANGED <<unkeyed, allowed>>

ChargeUnkeyed(i) ==
  /\ Spendable(i)
  /\ unkeyed' = [unkeyed EXCEPT ![i] = @ + 1]
  /\ UNCHANGED <<keyed, allowed>>

Next == \E i \in Invoices : Allow(i) \/ Charge(i) \/ ChargeUnkeyed(i)

Spec == Init /\ [][Next]_vars
===========================================================================
