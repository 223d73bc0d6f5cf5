SPECIFICATION Spec
CONSTANTS
  twin1 = twin1
  twin2 = twin2
  odd = odd
  bad = bad
  dear = dear
  new = new
  acme = acme
  other = other
  Invoices = {new}
  Workers = {w1}
  Vendor <- MCVendor
  Amount <- MCAmount
  Limit <- MCLimit
  Seed <- MCSeed
  Threshold = 100
  Unsafe = {bad}
  Backends = {"mcp", "sdk"}
  Faults = {"mcp"}
  MaxCalls = 1
INVARIANT ChargedOnce
\* Deliveries may end, and nobody need decide a request.
CHECK_DEADLOCK FALSE
