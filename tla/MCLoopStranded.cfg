SPECIFICATION Spec
CONSTANTS
  Vendors = {acme}
  Amounts = {100}
  Dates = {1}
  Categories = {bills}
  Modes = {"weekly", "monthly"}
  Connector = "plaid"
  Faults = {}
  OnFile <- MCEmpty
  MaxRows = 1
  MaxBank = 1
  MaxPages = 1
  MaxMishaps = 0
PROPERTY FetchedReachAnalysis
