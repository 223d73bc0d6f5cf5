SPECIFICATION FairSpec
CONSTANTS
  dear = dear
  cheap = cheap
  Spends = {dear, cheap}
  Dear = {dear}
  DearEvents = {dear}
  Calls <- MCCalls
  Script <- MCScript
  Planners = {"model", "script"}
  MaxSteps = 3
  MaxRuns = 2
INVARIANTS NeverTwiceInARow PaidBehindGate StopsAtEscalation ScriptCompletes
PROPERTY Returns
\* The last run may return with no request to decide.
CHECK_DEADLOCK FALSE
