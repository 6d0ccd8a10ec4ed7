\* Every applicant of the grid asks for every amount.
SPECIFICATION Spec
CONSTANTS
  Null = Null
  Unit = 500
  Applicants <- Grid
  Amounts <- AmountGrid
  Approves <- EngineApproves
  minAmount = 20
  tolerance = 2
  Thousand = 2
  MinRevenue = 1000
  MaxRevenue = 1000000000
  MinAmount = 10000
  MaxAmount = 1000000000
  MaxTenure = 84
  MaxName = 120
  ColumnMax = 2000000000
INVARIANTS TypeOK Bracket OfferApproved OfferMaximal ScoreMonotone ApprovalIsAffordable HeadlineReasons ClientNeverRefused ReportsEachField ScreenAgrees
PROPERTIES SearchEnds
CHECK_DEADLOCK FALSE
