CONSTANTS
  x1 = x1
  x2 = x2
  Sessions = {x1, x2}
  s1 = s1
  s2 = s2
  n1 = n1
  n2 = n2
  Screenings = {s1, s2}
  Reviewers = {n1, n2}
  MaxRevisions = 2
  None = None
  c1 = c1
  c2 = c2
  c3 = c3
  a1 = a1
  a2 = a2
  Records = {c1, c2, c3}
  Applicants = {c1}
  Applications = {a1, a2}
  MaxCut = 1
  MaxDays = 3
  p1 = p1
  Projects = {p1}
  MaxVersion = 3
  MaxEditions = 3
  b1 = b1
  Subjects = {b1}
  LastDay = 5
  MaxReopenings = 1
  o1 = o1
  o2 = o2
  r1 = r1
  r2 = r2
  Operators = {o1, o2}
  Recipients = {r1, r2}
  SELF_APPROVAL_LIMIT = 1
  MaxFaults = 1
  Nobody = Nobody
SPECIFICATION Spec
SYMMETRY Symmetry
INVARIANTS ScreeningSound FunnelHolds OnboardingSound RemindersHold BatchHonest
PROPERTIES RubricsHold DecisionsFinal
CHECK_DEADLOCK FALSE
