\* Three submissions and one other client's PUT, over two PANs.
SPECIFICATION Spec
CONSTANTS
  Submissions = {c1, c2, c3}
  Edits = {e1}
  Pans = {p1, p2}
  None = None
INVARIANTS TypeOK OnePerPan FiledForBorrower NothingLeftOver
CHECK_DEADLOCK FALSE
