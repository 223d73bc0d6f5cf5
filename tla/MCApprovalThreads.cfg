SPECIFICATION Spec
CONSTANTS
  Callers = {c1, c2, c3}
  Spends = {s1}
  Small = {t1}
  DiskFaults = TRUE
  Escalations = TRUE
  MaxTime = 3
  MaxCalls = 4
SYMMETRY Symmetry
INVARIANTS GrantNeedsApproval NoSplitDecision
PROPERTIES PoisonedForever
\* No call is obliged to come: the gate may be left idle.
CHECK_DEADLOCK FALSE
