------------------------- MODULE MCRequireApproval -------------------------
\* RequireApproval for TLC: the callers are interchangeable.
EXTENDS RequireApproval, TLC

Symmetry == Permutations(Callers)
===========================================================================
