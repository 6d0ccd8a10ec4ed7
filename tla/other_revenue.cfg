\* One borrower submits twice.
SPECIFICATION Spec
CONSTANTS
  Submissions = {c1, c2}
  Edits = {}
  Pans = {p1}
  None = None
INVARIANTS ScoredAsSubmitted
CHECK_DEADLOCK FALSE
