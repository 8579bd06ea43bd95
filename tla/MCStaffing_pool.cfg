CONSTANTS
  e1 = e1
  e2 = e2
  s1 = s1
  s2 = s2
  Experts = {e1, e2}
  Sessions = {s1, s2}
  Calls = {"propose", "confirm", "release", "withdraw", "edit", "invite", "answer"}
  Overlapping <- AllPairs
  MayCrash = TRUE
  MaxSeats = 2
  MaxWithdrawals = 1
  NoSession = NoSession
  NoExpert = NoExpert
SYMMETRY Symmetry
SPECIFICATION Spec
INVARIANTS TypeOK FilledCoversTaken
PROPERTIES WithdrawalOnce ImplementsPool
CHECK_DEADLOCK FALSE
