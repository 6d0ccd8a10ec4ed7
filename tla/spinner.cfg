\* One application, two fetches under way.
SPECIFICATION Spec
CONSTANTS
  Apps = {a1}
  PollTimeout = 2
  None = None
PROPERTIES SpinnerEnds
CHECK_DEADLOCK FALSE
