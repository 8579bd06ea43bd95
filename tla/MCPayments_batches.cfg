CONSTANTS
  w1 = w1
  w2 = w2
  i1 = i1
  i2 = i2
  i3 = i3
  b1 = b1
  b2 = b2
  o1 = o1
  o2 = o2
  s1 = s1
  s2 = s2
  Works = {w1, w2}
  Items = {i1, i2, i3}
  Batches = {b1, b2}
  Operators = {o1, o2}
  Sessions = {s1, s2}
  Calls = {"submit", "review", "resolve", "correct", "batch", "send", "approve", "export"}
  Overlapping <- SafePairs
  MayCrash = TRUE
  Quantities = {1}
  MaxRevisions = 1
  None = None
SYMMETRY Symmetry
SPECIFICATION Spec
INVARIANTS PaidOnce SignedOff TotalsMatch ExplainedFirst FilesRecorded
CHECK_DEADLOCK FALSE
