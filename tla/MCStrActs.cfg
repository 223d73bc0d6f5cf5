SPECIFICATION Spec
CONSTANTS
  prop = prop
  fair = fair
  body1 = body1
  body2 = body2
  body3 = body3
  Threads = {t1, t2}
  Properties = {prop, fair}
  Fee <- MCFee
  Threshold = 500
  Owners = {o1}
  CrewSize = 2
  Bodies = {body1, body2, body3}
  KeyOf <- MCKeyOf
  Price <- MCPrice
  Calls <- AllCalls
  DemoModes = {TRUE, FALSE}
  Faults = {"audit", "stripe", "crash"}
  MaxCalls = 3
  MaxMishaps = 2
SYMMETRY Symmetry
INVARIANTS EnvelopeFirst BooksMatch BatchInOrder MetricsMatchEvents CachedWasSold
PROPERTY PaidOnApproval
\* Requests may end.
CHECK_DEADLOCK FALSE
