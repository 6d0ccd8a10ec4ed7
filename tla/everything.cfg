\* One application, every kind of trouble.
SPECIFICATION Spec
CONSTANTS
  a1 = a1  a2 = a2  b1 = b1  p1 = p1  p2 = p2
  Apps = {a1}
  Businesses = {b1}
  BusinessOf <- OneBusiness
  Profiles = {p1, p2}
  Requests = {r1, r2}
  Workers = {w1}
  Lanes = {l1, l2}
  None = None
  Reasonless <- NoneReasonless
  Faults <- EveryFault
  MaxAttempts = 2
  MaxStalledCount = 1
  MaxCrashes = 1
  MaxLockLosses = 1
  MaxEvictions = 1
SYMMETRY Symmetry
INVARIANTS TypeOK DecidedHasDecision AnswersAgree CompletedJobHasDecision OneCompletion FailedIsExhausted ReasonOnlyWhenFailed
PROPERTIES DecisionKept MeetsContract
CHECK_DEADLOCK FALSE
