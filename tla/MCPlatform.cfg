CONSTANTS
  Fast = Fast
  Slow = Slow
  w1 = w1
  w2 = w2
  Ticking = {w1, w2}
  Schedules = {Fast, Slow}
  STALE_AFTER = 1
  PRUNE_AFTER = 1
  Limit = 3
  Broken = {Fast}
  MaxClock = 2
  MaxCrashes = 1
  MaxDeaths = 1
  MaxFaults = 1
  MaxEdits = 1
  Experts = {1, 2}
  Seats = 1
  RunLimit = 2
  ProposalLimit = 1
  Workers = {w1}
  Profile <- MCProfile
  Brief <- MCBrief
  MaxWithdrawals = 2
  m1 = m1
  m2 = m2
  m3 = m3
  Messages = {m1, m2, m3}
  Batch = 2
  MaxFailures = 1
  Kinds = {"support", "attention", "payment_item", "payment_batch", "outreach", "work", "offboarding", "job", "project", "campaign", "opportunity", "rubric", "expert", "screening", "candidate"}
  MaxBehind = 1
SPECIFICATION PlatformSpec
INVARIANTS FiguresSound ReplacementsHold ConsoleHolds
PROPERTIES Punctual DueFires SeatsAnswered OnlyDeclaredMoves
CHECK_DEADLOCK FALSE
