------------------------------ MODULE Matching ------------------------------
(***************************************************************************)
(* The scoring engine (matching-engine.ts, timezone.ts): who may not be    *)
(* ranked for a brief, how many points the others get, and in which order  *)
(* they are shown.                                                         *)
(*                                                                         *)
(* The engine is pure, so this module has operators only.  Its fractions   *)
(* are exact here: parts are counted in hundredths of a point and rounded  *)
(* as round2 and Math.round do, half up; the code's floats may round an    *)
(* exact half the other way.  A candidate is a record                      *)
(*   [id, status, reachable, years, rate, offset, capacity, skill,         *)
(*    open, assigned, declined, seats]                                     *)
(* where skill gives a proficiency per slug, 0 for a skill not listed,     *)
(* offset the hours of the time zone, declined the days since the latest   *)
(* decline or Never.  A brief is a record                                  *)
(*   [minYears, maxRate, offset, hours, asks], maxRate 0 for none, with    *)
(*   asks[slug] = [required, min, weight], weight 0 for a skill the brief  *)
(*   does not name.                                                        *)
(***************************************************************************)
EXTENDS Integers, FiniteSets, FiniteSetsExt

Never == -1

DECLINE_COOLOFF_DAYS == 14

DEFAULT_WEIGHTS == [required |-> 35, optional |-> 20, seniority |-> 15,
                    rate |-> 12, availability |-> 10, standing |-> 8]

totalWeight(w) == w.required + w.optional + w.seniority + w.rate + w.availability + w.standing

\* Hundredths of the standing of a status.
STANDING_BY_STATUS ==
  [VERIFIED |-> 100, PENDING_VERIFICATION |-> 75, ONBOARDING |-> 50,
   PROSPECT |-> 35, REJECTED |-> 0, ARCHIVED |-> 0]

\* Mutant of Hours: only the same day is compared.
HoursSameDay(a, b) == {b - a}

\* The shifts of one working day against another, in hours.
Hours(a, b) == {b - a + shift : shift \in {-24, 0, 24}}

\* Working days of eight hours that start at the same local time.
workingHoursOverlap(a, b) ==
  Max({0} \cup {IF d > 0 THEN 8 - d ELSE 8 + d : d \in Hours(a, b)})

-----------------------------------------------------------------------------

Asked(brief, required) ==
  {s \in DOMAIN brief.asks : brief.asks[s].weight > 0 /\ brief.asks[s].required = required}

\* Required skills the candidate does not have as deep as the brief asks.
Missing(c, brief) == {s \in Asked(brief, TRUE) : c.skill[s] < brief.asks[s].min}

\* evaluateExclusion.
Excluded(c, brief) ==
  \/ c.status \in {"ARCHIVED", "REJECTED"}
  \/ ~c.reachable
  \/ c.assigned
  \/ c.open
  \/ Missing(c, brief) # {}
  \/ /\ \A s \in DOMAIN c.skill : c.skill[s] = 0
     /\ \E s \in DOMAIN brief.asks : brief.asks[s].weight > 0
  \/ c.years < brief.minYears
  \/ c.declined # Never /\ c.declined < DECLINE_COOLOFF_DAYS

-----------------------------------------------------------------------------
(***************************************************************************)
(* scoreCandidate: each part is points * numerator / denominator, in       *)
(* hundredths, numerators held between zero and the denominator.           *)
(***************************************************************************)

Clamp(n, d) == IF n < 0 THEN 0 ELSE IF n > d THEN d ELSE n

Rounded(n, d) == (2 * n + d) \div (2 * d)

Part(points, n, d) == Rounded(100 * points * Clamp(n, d), d)

\* Twelfths of the way from the asked proficiency to 5.
Depth(c, brief, s) ==
  LET min == brief.asks[s].min
  IN  IF min >= 5 THEN 12 ELSE Clamp(12 * (c.skill[s] - min), 12 * (5 - min)) \div (5 - min)

\* 240ths a skill earns: most of it by being there.
Earned(c, brief, s) ==
  CASE c.skill[s] = 0 -> 0
    [] c.skill[s] > 0 /\ brief.asks[s].required -> 168 + 6 * Depth(c, brief, s)
    [] c.skill[s] > 0 /\ ~brief.asks[s].required /\ c.skill[s] < brief.asks[s].min -> 96
    [] OTHER -> 180 + 5 * Depth(c, brief, s)

Skills(c, brief, required, points) ==
  LET asked == Asked(brief, required)
      possible == MapThenSumSet(LAMBDA s : brief.asks[s].weight, asked)
      earned == MapThenSumSet(LAMBDA s : brief.asks[s].weight * Earned(c, brief, s), asked)
  IN  IF asked = {} THEN Part(points, 1, 1) ELSE Part(points, earned, 240 * possible)

\* Mutant of Seniority: more years than twice the minimum keep adding up.
SeniorityUncapped(c, brief, points) ==
  LET years == IF brief.minYears < 1 THEN 1 ELSE brief.minYears
  IN  Rounded(100 * points * c.years, 2 * years)

Seniority(c, brief, points) ==
  LET years == IF brief.minYears < 1 THEN 1 ELSE brief.minYears
  IN  Part(points, c.years, 2 * years)

\* Full marks up to the ceiling, none from a quarter above.
Rate(c, brief, points) ==
  IF brief.maxRate = 0 \/ c.rate <= brief.maxRate THEN Part(points, 1, 1)
  ELSE Part(points, 5 * brief.maxRate - 4 * c.rate, brief.maxRate)

\* Three fifths overlap of working hours, six hours being enough; the rest capacity.
Availability(c, brief, points) ==
  LET overlap == Clamp(workingHoursOverlap(c.offset, brief.offset), 6)
      capacity == Clamp(c.capacity, brief.hours)
  IN  IF brief.hours = 0 THEN Part(points, overlap + 4, 10)
      ELSE Part(points, overlap * brief.hours + 4 * capacity, 10 * brief.hours)

Standing(c, points) ==
  LET busy == IF c.seats >= 2 THEN 60 ELSE IF c.seats = 1 THEN 85 ELSE 100
  IN  Part(points, STANDING_BY_STATUS[c.status] * busy, 10000)

Raw(c, brief, w) ==
  Skills(c, brief, TRUE, w.required) + Skills(c, brief, FALSE, w.optional)
    + Seniority(c, brief, w.seniority) + Rate(c, brief, w.rate)
    + Availability(c, brief, w.availability) + Standing(c, w.standing)

\* Out of one hundred; totalWeight(w) is not zero.
scoreCandidate(c, brief, w) == Clamp(Rounded(Raw(c, brief, w), totalWeight(w)), 100)

Score(c, brief) == scoreCandidate(c, brief, DEFAULT_WEIGHTS)

\* Mutant of Before: ties keep the order the database returned.
BeforeByScore(c, d, brief) ==
  IF Excluded(c, brief) # Excluded(d, brief) THEN ~Excluded(c, brief)
  ELSE Score(c, brief) > Score(d, brief)

\* rankCandidates: whoever may be ranked first, by score, ties by id.
Before(c, d, brief) ==
  IF Excluded(c, brief) # Excluded(d, brief) THEN ~Excluded(c, brief)
  ELSE \/ Score(c, brief) > Score(d, brief)
       \/ Score(c, brief) = Score(d, brief) /\ c.id < d.id

-----------------------------------------------------------------------------
(***************************************************************************)
(* What must hold of two candidates and a brief.                           *)
(***************************************************************************)

\* c is at least as good as d in every respect the engine looks at.
AtLeastAsGood(c, d, brief) ==
  /\ \A s \in DOMAIN c.skill : c.skill[s] >= d.skill[s]
  /\ c.years >= d.years /\ c.rate <= d.rate /\ c.capacity >= d.capacity
  /\ workingHoursOverlap(c.offset, brief.offset) >= workingHoursOverlap(d.offset, brief.offset)
  /\ STANDING_BY_STATUS[c.status] >= STANDING_BY_STATUS[d.status] /\ c.seats <= d.seats
  /\ (c.reachable \/ ~d.reachable) /\ (d.open \/ ~c.open) /\ (d.assigned \/ ~c.assigned)
  /\ c.declined = Never \/ (d.declined # Never /\ c.declined >= d.declined)

\* Hours two people share: eight less the distance of their noons on the clock.
SharedHours(a, b) ==
  LET d == (a - b) % 24 IN Max({0, 8 - d, 8 - (24 - d)})

\* Being better never costs a place (scoreCandidate, evaluateExclusion): of two
\* candidates one of whom is at least as good in every respect, that one may be
\* ranked if the other may, and has no fewer points.
Rewarding(c, d, brief) ==
  AtLeastAsGood(c, d, brief) /\ ~Excluded(d, brief) =>
    ~Excluded(c, brief) /\ Score(c, brief) >= Score(d, brief)

\* Two runs over the same people show the same order (rankCandidates): of two
\* different candidates exactly one comes first.
Decided(c, d, brief) == c.id # d.id => (Before(c, d, brief) <=> ~Before(d, c, brief))

\* No part outgrows its weight (clamp01): the points of everyone fit the
\* hundred without the last clamp, and the hours shared are counted the same
\* from both sides, also across the date line (workingHoursOverlap).
Weighted(c, d, brief) ==
  /\ Raw(c, brief, DEFAULT_WEIGHTS) <= 100 * totalWeight(DEFAULT_WEIGHTS)
  /\ workingHoursOverlap(c.offset, d.offset) = SharedHours(c.offset, d.offset)
  /\ workingHoursOverlap(c.offset, d.offset) = workingHoursOverlap(d.offset, c.offset)

RankingSound(c, d, brief) == Rewarding(c, d, brief) /\ Decided(c, d, brief) /\ Weighted(c, d, brief)
=============================================================================
