CONSTANTS
  g1 = g1
  Experts = {e1}
  Workers = {w1, w2}
  Guests = {g1}
  TtlHours = 2
  RemindAfterHours = 1
  MinHoursRemaining = 0
  MaxTime = 2
  MaxOpenings = 2
  MaxCrashes = 1
  NoExpert = NoExpert
  k1 = k1
  w1 = w1
  w2 = w2
  Keys = {k1}
  Sweepers = {w1, w2}
  Limit = 1
  MaxDismissals = 1
  MaxDeaths = 1
  MaxChanges = 3
  s1 = s1
  s2 = s2
  Sessions = {s1, s2}
  MaxReplies = 1
  e1 = e1
  c1 = c1
  c2 = c2
  o1 = o1
  o2 = o2
  Staff = {e1}
  Checklist = {c1, c2}
  Operators = {o1, o2}
  MaxRuns = 3
  Unowned = Unowned
  u1 = u1
  l1 = l1
  l2 = l2
  p1 = p1
  p2 = p2
  r1 = r1
  r2 = r2
  Accounts = {u1}
  Logins = {l1, l2}
  Links = {p1, p2}
  CandidateLinks = {p2}
  Redeemers = {r1, r2}
  EMAIL_ATTEMPT_LIMIT = 1
  IP_ATTEMPT_LIMIT = 2
  MaxAttempts = 3
  MaxRotations = 1
SPECIFICATION Spec
INVARIANTS InvitationsHold Answered AccessHolds
PROPERTIES DecisionsStand NothingForgotten Follows
CHECK_DEADLOCK FALSE
