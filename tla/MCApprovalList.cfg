SPECIFICATION Spec
CONSTANTS
  Callers = {c1, c2}
  Spends = {s1}
  Small = {}
  DiskFaults = FALSE
  Escalations = FALSE
  MaxTime = 0
  MaxCalls = 3
SYMMETRY Symmetry
INVARIANT ListAnswers
\* No call is obliged to come: the gate may be left idle.
CHECK_DEADLOCK FALSE
