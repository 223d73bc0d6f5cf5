SPECIFICATION Spec
CONSTANTS
  Vendors = {acme}
  Amounts = {100}
  Dates = {1, 32}
  Categories = {bills, rent}
  Modes = {"monthly"}
  Connector = "manual_folder"
  Faults = {}
  OnFile <- MCEmpty
  MaxRows = 2
  MaxBank = 0
  MaxPages = 2
  MaxMishaps = 0
INVARIANT NeverRefires
