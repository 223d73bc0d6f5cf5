--------------------------- MODULE MCAnalysisLoop ---------------------------
(***************************************************************************)
(* AnalysisLoop for TLC.  The days lie in two neighbouring months; the     *)
(* amounts make a base line with some spread and spikes above it.          *)
(***************************************************************************)
EXTENDS AnalysisLoop

MCEmpty == {<<>>}

\* Two rows of the older month make the base line of every vendor.
MCStatements ==
  {[i \in 1..2 |-> [vendor |-> v, amount |-> 90 + 10 * i, date |-> 1,
                    category |-> c, number |-> i]] : v \in Vendors, c \in Categories}
===========================================================================
