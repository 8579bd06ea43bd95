CONSTANTS
  x1 = x1
  Requests = {x1}
  Together = {}
  ByHand = FALSE
  MayDie = FALSE
  MaxDays = 2
SPECIFICATION Spec
INVARIANT SubmissionMoves
CHECK_DEADLOCK FALSE
