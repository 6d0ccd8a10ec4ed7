\* One request, two worker crashes.
SPECIFICATION FairSpec
CONSTANTS
  a1 = a1  a2 = a2  b1 = b1  p1 = p1  p2 = p2
  Apps = {a1}
  Businesses = {b1}
  BusinessOf <- OneBusiness
  Profiles = {p1}
  Requests = {r1}
  Workers = {w1}
  Lanes = {l1, l2}
  None = None
  Reasonless <- NoneReasonless
  Faults <- NoFaults
  MaxAttempts = 3
  MaxStalledCount = 1
  MaxCrashes = 2
  MaxLockLosses = 0
  MaxEvictions = 0
PROPERTIES DeadJobReported
CHECK_DEADLOCK FALSE
