\* Two applications, two workers, one of which may die; a1 never gets its reasons.
SPECIFICATION FairSpec
CONSTANTS
  a1 = a1  a2 = a2  b1 = b1  p1 = p1  p2 = p2
  Apps = {a1, a2}
  Businesses = {b1}
  BusinessOf <- OneBusiness
  Profiles = {p1}
  Requests = {r1, r2}
  Workers = {w1, w2}
  Lanes = {l1}
  None = None
  Reasonless <- NoReasonForA1
  Faults <- NoFaults
  MaxAttempts = 2
  MaxStalledCount = 1
  MaxCrashes = 1
  MaxLockLosses = 0
  MaxEvictions = 0
INVARIANTS NoDoubleEvaluation DecisionMeansDecided
PROPERTIES StatusAdvances JobsSettle JobsDecide
CHECK_DEADLOCK FALSE
