SPECIFICATION MCSpec
CONSTANTS
  Vendors = {v1, v2}
  Amounts <- MCAmounts
  MaxDate = 2
  MaxInvoices = 4
  MaxEdits = 3
  Markets <- MCMarkets
  FirstRates <- MCFirstRates
  MaxRate = 60000
  Configs <- MCConfigs
  Runs = {r1, r2}
  MaxData = 2
  MaxText = 2
  MaxReconfigs = 1
INVARIANTS ScanAgrees OutsideIsFlagged RepeatsAreUsual PerfectIsClean AdoptedIsConsistent RatesSettle FinanceStaysLocal FilesAgree
\* The bounds on invoices, edits, rates and runs end every behaviour.
CHECK_DEADLOCK FALSE
