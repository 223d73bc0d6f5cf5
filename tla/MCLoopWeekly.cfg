SPECIFICATION FairSpec
CONSTANTS
  Vendors = {acme}
  Amounts = {100, 110, 300}
  Dates = {1, 32}
  Categories = {bills}
  Modes = {"weekly"}
  Connector = "manual_folder"
  Faults = {"crash"}
  OnFile <- MCStatements
  MaxRows = 4
  MaxBank = 0
  MaxPages = 2
  MaxMishaps = 1
PROPERTY EverySpikeEscalated
