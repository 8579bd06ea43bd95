CONSTANTS
  s1 = s1
  n1 = n1
  n2 = n2
  x1 = x1
  Screenings = {s1}
  Reviewers = {n1, n2}
  Sessions = {x1}
  Overlapping = {}
  MayCrash = FALSE
  MaxScreenings = 1
  MaxRevisions = 2
  None = None
SPECIFICATION Spec
SYMMETRY Symmetry
PROPERTY TiesAsked
CHECK_DEADLOCK FALSE
