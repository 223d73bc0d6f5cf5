--------------------------- MODULE MCAuditChain ---------------------------
\* AuditChain for TLC: the writers are interchangeable.
EXTENDS AuditChain, TLC

Symmetry == Permutations(Writers)
===========================================================================
