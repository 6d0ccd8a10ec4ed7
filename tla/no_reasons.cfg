\* An approval nobody has a reason for.
SPECIFICATION Spec
CONSTANTS
  Null = Null
  Unit = 500
  Applicants <- Grid
  Amounts <- AmountGrid
  Approves <- EngineApproves
  minAmount = 20
  tolerance = 2
  Thousand = 2
  MinRevenue = 1000
  MaxRevenue = 1000000000
  MinAmount = 10000
  MaxAmount = 1000000000
  MaxTenure = 84
  MaxName = 120
  ColumnMax = 2000000000
INVARIANTS EveryDecisionHasReasons
CHECK_DEADLOCK FALSE
