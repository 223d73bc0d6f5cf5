SPECIFICATION Spec
CONSTANTS
  Vendors = {acme}
  Amounts = {100, 110, 300}
  Dates = {1, 32}
  Categories = {bills}
  Modes = {"weekly", "monthly"}
  Connector = "manual_folder"
  Faults = {}
  OnFile <- MCEmpty
  MaxRows = 4
  MaxBank = 0
  MaxPages = 2
  MaxMishaps = 0
INVARIANT NeverRefires
