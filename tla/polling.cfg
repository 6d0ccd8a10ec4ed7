\* Two applications after one another, up to two fetches under way for each.
SPECIFICATION Spec
CONSTANTS
  Apps = {a1, a2}
  PollTimeout = 2
  None = None
INVARIANTS TypeOK ShowsOwnApplication SettledIsTrue StoppedForAReason
PROPERTIES PollingEnds
CHECK_DEADLOCK FALSE
