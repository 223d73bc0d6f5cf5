SPECIFICATION FairSpec
CONSTANTS
  Vendors = {acme}
  Amounts = {100, 110, 300}
  Dates = {1, 32}
  Categories = {bills}
  Modes = {"weekly", "monthly"}
  Connector = "plaid"
  Faults = {"connector", "escalate", "load", "save", "crash"}
  OnFile <- MCStatements
  MaxRows = 4
  MaxBank = 1
  MaxPages = 1
  MaxMishaps = 1
INVARIANTS KnownWereEscalated RepeatsHaveCause CursorCovered
PROPERTY SpikesEscalated
