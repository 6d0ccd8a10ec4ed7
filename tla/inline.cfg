\* Two racing requests, three profiles of which one gives no reasons, every fault.
SPECIFICATION Spec
CONSTANTS
  Apps = {a1}
  Requests = {r1, r2}
  Profiles = {p1, p2, p3}
  Reasonless = {p3}
  None = None
INVARIANTS TypeOK AcceptedIsDecided TrailIsTrue ShadowedByRace StuckIsReported
PROPERTIES MeetsContract
CHECK_DEADLOCK FALSE
