------------------------- MODULE MCInvoicePipeline -------------------------
(***************************************************************************)
(* InvoicePipeline for TLC.  Two invoices over the threshold share a spend *)
(* key, one is flagged against its vendor's history, one holds a denied    *)
(* pattern and no longer fits that history once a twin is paid, one is     *)
(* over the vendor's limit, and one comes from a vendor without history.   *)
(***************************************************************************)
EXTENDS InvoicePipeline, TLC

CONSTANTS twin1, twin2, odd, bad, dear, new, acme, other

MCVendor == [i \in Invoices |-> IF i \in {twin1, twin2, odd, bad} THEN acme ELSE other]
MCAmount == [i \in Invoices |->
  CASE i \in {twin1, twin2} -> 104
    [] i = odd -> 60
    [] i = bad -> 96
    [] i = dear -> 300
    [] OTHER -> 90]
MCLimit == [v \in {acme, other} |-> 200]
MCSeed == [v \in {MCVendor[i] : i \in Invoices} |-> IF v = acme THEN <<100, 110>> ELSE <<>>]

Symmetry == Permutations(Workers)
===========================================================================
