SPECIFICATION Spec
CONSTANTS
  twin1 = twin1
  twin2 = twin2
  odd = odd
  bad = bad
  dear = dear
  new = new
  acme = acme
  other = other
  Invoices = {twin1, twin2, bad, dear}
  Workers = {w1, w2}
  Vendor <- MCVendor
  Amount <- MCAmount
  Limit <- MCLimit
  Seed <- MCSeed
  Threshold = 100
  Unsafe = {bad}
  Backends = {"mcp", "sdk"}
  Faults = {"mcp", "sdk", "audit", "sandbox", "crash"}
  MaxCalls = 4
SYMMETRY Symmetry
INVARIANTS AnswerOnRecord BooksBalance
PROPERTY ImplementsGatedSpend
\* Deliveries may end, and nobody need decide a request.
CHECK_DEADLOCK FALSE
