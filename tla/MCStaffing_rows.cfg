CONSTANTS
  e1 = e1
  e2 = e2
  s1 = s1
  s2 = s2
  Experts = {e1, e2}
  Sessions = {s1, s2}
  Calls = {"propose", "confirm", "release", "withdraw", "complete", "status", "activate", "invite", "reinvite", "answer"}
  Overlapping <- SafePairs
  MayCrash = TRUE
  MaxSeats = 2
  MaxWithdrawals = 2
  NoSession = NoSession
  NoExpert = NoExpert
VIEW ButStartJobs
SYMMETRY Symmetry
SPECIFICATION Spec
INVARIANTS CapacityHeld RowsAgree
CHECK_DEADLOCK FALSE
