----------------------------- MODULE Onboarding -----------------------------
(***************************************************************************)
(* The onboarding case of one expert who accepted an invitation or was     *)
(* qualified: onboarding.ts, setExpertStatus of experts.ts and the jobs    *)
(* onboarding.start, onboarding.nudge, qualification.apply and             *)
(* readiness.recheck.                                                      *)
(*                                                                         *)
(* Requests commit statement by statement and keep what they read; a run   *)
(* of a job commits as a whole.  setExpertStatus' read and write are one   *)
(* step, so are ensureOnboardingCase's (the expert is unique in the        *)
(* table).  The required items of the checklist are one item.              *)
(***************************************************************************)
EXTENDS Integers, FiniteSets

CONSTANTS
  Requests,   \* sessions and workers
  Together,   \* {c, d} is in it if a call of c may overlap with one of d
  ByHand,     \* whether operators set the expert's status themselves
  MayDie,     \* whether sessions may die
  MaxDays     \* bound: days that pass; a nudge may be repeated after one

Kinds == {"start", "save", "submit", "approve", "return", "nudge"}

\* What the constants must be; the runs assume it.
OnboardingAssumption ==
  /\ Together \subseteq SUBSET Kinds
  /\ ByHand \in BOOLEAN /\ MayDie \in BOOLEAN
  /\ MaxDays \in Nat \ {0}

ExpertStatus == {"PROSPECT", "ONBOARDING", "PENDING_VERIFICATION", "VERIFIED", "REJECTED", "ARCHIVED"}
OnboardingStatus == {"NONE", "NOT_STARTED", "IN_PROGRESS", "SUBMITTED", "VERIFIED", "REJECTED"}

VARIABLES
  expert,   \* Expert.status
  case,     \* the OnboardingCase row; nudgedAt is a day, 0 for null
  item,     \* the required item is complete
  recheck,  \* a job to recheck the expert's readiness is queued
  shown,    \* what the last recheck put in the attention queue
  day,
  request,  \* what each session is doing
  astray,   \* history: a call was cut short, or the status moved without the case
  nudges    \* history: letters since the case was last submitted, by day

tables == <<expert, case, item, recheck, shown>>
vars == <<tables, day, request, astray, nudges>>

EXPERT_TRANSITIONS ==
  [PROSPECT             |-> {"ONBOARDING", "ARCHIVED"},
   ONBOARDING           |-> {"PENDING_VERIFICATION", "PROSPECT", "ARCHIVED"},
   PENDING_VERIFICATION |-> {"VERIFIED", "REJECTED", "ONBOARDING", "ARCHIVED"},
   VERIFIED             |-> {"ARCHIVED", "ONBOARDING"},
   REJECTED             |-> {"ONBOARDING", "ARCHIVED"},
   ARCHIVED             |-> {"PROSPECT"}]

ONBOARDING_TRANSITIONS ==
  [NOT_STARTED |-> {"IN_PROGRESS"}, IN_PROGRESS |-> {"SUBMITTED"},
   SUBMITTED |-> {"VERIFIED", "REJECTED"}, REJECTED |-> {"IN_PROGRESS"}, VERIFIED |-> {}]

NoCase == [status |-> "NONE", nudgedAt |-> 0]
Resting == [at |-> "idle", does |-> "none", expert |-> "none", case |-> NoCase, day |-> 0]

\* What a call keeps of what it read.
Kept(does) ==
  IF does = "nudge" THEN [Resting EXCEPT !.case = case, !.day = day]
  ELSE IF does \in {"approve", "return"} THEN Resting
  ELSE [Resting EXCEPT !.expert = expert, !.case.status = case.status]

TypeOK ==
  /\ expert \in ExpertStatus
  /\ case \in [status : OnboardingStatus, nudgedAt : 0 .. MaxDays]
  /\ {item, recheck, astray} \subseteq BOOLEAN
  /\ shown \in {"nothing", "blocked", "ready"}
  /\ day \in 1 .. MaxDays
  /\ nudges \in [1 .. MaxDays -> 0 .. 2]
  /\ \A x \in Requests : request[x].does \in Kinds \cup {"none"}

Init ==
  /\ expert = "PROSPECT" /\ case = NoCase /\ item = FALSE
  /\ recheck = FALSE /\ shown = "nothing" /\ day = 1
  /\ request = [x \in Requests |-> Resting]
  /\ astray = FALSE
  /\ nudges = [d \in 1 .. MaxDays |-> 0]

-----------------------------------------------------------------------------
Active(x) == request[x].at # "idle"

\* A call begins, with what it reads, when those under way may overlap with it.
Begins(x, does, at) ==
  /\ ~Active(x)
  /\ \A y \in Requests \ {x} : Active(y) => {does, request[y].does} \in Together
  /\ request' = [request EXCEPT ![x] = [Kept(does) EXCEPT !.at = at, !.does = does]]

Is(x, does, at) == request[x].does = does /\ request[x].at = at
Continues(x, at) == request' = [request EXCEPT ![x].at = at]
Finishes(x) == request' = [request EXCEPT ![x] = Resting]

\* The session dies; a job's run leaves nothing behind.
Die(x) ==
  /\ MayDie /\ Active(x)
  /\ astray' = (astray \/ request[x].does # "nudge")
  /\ Finishes(x)
  /\ UNCHANGED <<tables, day, nudges>>

MayMove(to) == to = expert \/ to \in EXPERT_TRANSITIONS[expert]

\* setExpertStatus within a call, which ends there when the move is refused.
SetExpertStatus(x, to, next) ==
  /\ IF MayMove(to)
     THEN /\ expert' = to /\ UNCHANGED astray
          /\ IF next = "idle" THEN Finishes(x) ELSE Continues(x, next)
     ELSE /\ astray' = TRUE /\ Finishes(x) /\ UNCHANGED expert
  /\ UNCHANGED <<case, item, recheck, shown, day, nudges>>

-----------------------------------------------------------------------------
(***************************************************************************)
(* The expert's calls.                                                     *)
(***************************************************************************)

Ensured == IF case.status = "NONE" THEN [case EXCEPT !.status = "NOT_STARTED"] ELSE case

\* onboarding.start and qualification.apply make sure there is a case, no more.
EnsureCase ==
  /\ expert # "ARCHIVED" /\ case.status = "NONE"
  /\ case' = Ensured
  /\ UNCHANGED <<expert, item, recheck, shown, day, request, astray, nudges>>

\* startOnboarding, when an invitation is accepted: the case,
StartRead(x) ==
  /\ Begins(x, "start", IF expert \in {"PROSPECT", "REJECTED"} THEN "expert" ELSE "case")
  /\ case' = Ensured
  /\ UNCHANGED <<expert, item, recheck, shown, day, astray, nudges>>

\* the expert,
StartExpert(x) == Is(x, "start", "expert") /\ SetExpertStatus(x, "ONBOARDING", "case")

Reopens == {"NONE", "NOT_STARTED", "REJECTED"}

\* and a case that, as read, is new or was returned is opened, by id.
StartCase(x) ==
  /\ Is(x, "start", "case")
  /\ case' = IF request[x].case.status \in Reopens
             THEN [case EXCEPT !.status = "IN_PROGRESS"] ELSE case
  /\ Finishes(x)
  /\ UNCHANGED <<expert, item, recheck, shown, day, astray, nudges>>

\* Mutant of Editable: a submitted checklist may still be edited.
EditableAlways == case.status # "NONE"

\* saveChecklistAnswers refuses when the case awaits its decision or has passed.
Editable == case.status \notin {"NONE", "SUBMITTED", "VERIFIED"}

SaveRead(x) ==
  /\ Editable
  /\ Begins(x, "save", IF case.status \in Reopens THEN "case" ELSE "item")
  /\ UNCHANGED <<tables, day, astray, nudges>>

\* Editing reopens a returned case, by id; a new one of somebody who never
\* accepted an invitation goes on without the expert.
SaveCase(x) ==
  /\ Is(x, "save", "case")
  /\ case' = [case EXCEPT !.status = "IN_PROGRESS"]
  /\ astray' = (astray \/ request[x].expert = "PROSPECT")
  /\ Continues(x, IF request[x].expert = "REJECTED" THEN "expert" ELSE "item")
  /\ UNCHANGED <<expert, item, recheck, shown, day, nudges>>

SaveExpert(x) == Is(x, "save", "expert") /\ SetExpertStatus(x, "ONBOARDING", "item")

\* The answers, which may also take one back.
SaveItem(x) ==
  /\ Is(x, "save", "item")
  /\ item' \in BOOLEAN
  /\ Finishes(x)
  /\ UNCHANGED <<expert, case, recheck, shown, day, astray, nudges>>

\* submitOnboarding: open and nothing outstanding,
SubmitRead(x) ==
  /\ case.status # "NONE" /\ "SUBMITTED" \in ONBOARDING_TRANSITIONS[case.status]
  /\ item
  /\ Begins(x, "submit", "case")
  /\ UNCHANGED <<tables, day, astray, nudges>>

\* the case by id,
SubmitCase(x) ==
  /\ Is(x, "submit", "case")
  /\ case' = [status |-> "SUBMITTED", nudgedAt |-> 0]
  /\ nudges' = [d \in 1 .. MaxDays |-> 0]
  /\ IF request[x].expert = "ONBOARDING" THEN Continues(x, "expert") ELSE Finishes(x)
  /\ UNCHANGED <<expert, item, recheck, shown, day, astray>>

\* and an expert who, as read, is being onboarded.
SubmitExpert(x) == Is(x, "submit", "expert") /\ SetExpertStatus(x, "PENDING_VERIFICATION", "idle")

-----------------------------------------------------------------------------
(***************************************************************************)
(* The operator's decision.                                                *)
(***************************************************************************)

Verdict(x) == IF request[x].does = "approve" THEN "VERIFIED" ELSE "REJECTED"

\* decideVerification: the case awaits it,
DecideRead(x, does) ==
  /\ does \in {"approve", "return"} /\ case.status = "SUBMITTED"
  /\ Begins(x, does, "claim")
  /\ UNCHANGED <<tables, day, astray, nudges>>

\* Mutant of ClaimsCase: the case was read.
ClaimsCaseAsRead(x) == request[x].does # "none"

ClaimsCase(x) == case.status = "SUBMITTED"

\* is claimed,
DecideClaim(x) ==
  /\ request[x].at = "claim" /\ request[x].does \in {"approve", "return"}
  /\ IF ClaimsCase(x)
     THEN case' = [case EXCEPT !.status = Verdict(x)] /\ Continues(x, "expert")
     ELSE Finishes(x) /\ UNCHANGED case
  /\ UNCHANGED <<expert, item, recheck, shown, day, astray, nudges>>

\* the expert follows,
DecideExpert(x) ==
  /\ request[x].does \in {"approve", "return"} /\ request[x].at = "expert"
  /\ SetExpertStatus(x, Verdict(x), "enqueue")

\* and readiness is to be rechecked.
DecideEnqueue(x) ==
  /\ request[x].at = "enqueue"
  /\ recheck' = TRUE
  /\ Finishes(x)
  /\ UNCHANGED <<expert, case, item, shown, day, astray, nudges>>

\* Mutant of ReadinessRecheck: only good news is passed on.
ReadinessRecheckOnce ==
  /\ recheck /\ recheck' = FALSE
  /\ shown' = IF shown = "nothing" THEN IF expert = "VERIFIED" THEN "ready" ELSE "blocked" ELSE shown
  /\ UNCHANGED <<expert, case, item, day, request, astray, nudges>>

\* readiness.recheck reads the live status: an expert who accepted a project is
\* ready for a seat or blocked.
ReadinessRecheck ==
  /\ recheck /\ recheck' = FALSE
  /\ shown' = IF expert = "VERIFIED" THEN "ready" ELSE "blocked"
  /\ UNCHANGED <<expert, case, item, day, request, astray, nudges>>

\* The status route: any move of the table, whatever the case says.
SetByHand(to) ==
  /\ ByHand /\ to # expert /\ MayMove(to)
  /\ expert' = to /\ astray' = TRUE
  /\ UNCHANGED <<case, item, recheck, shown, day, request, nudges>>

-----------------------------------------------------------------------------
(***************************************************************************)
(* Nudges.                                                                 *)
(***************************************************************************)

\* findStalledOnboarding and reminderAllowed: open, not a day old, not nudged
\* for a day.
Stalled == /\ case.status \in {"NOT_STARTED", "IN_PROGRESS"} /\ expert # "ARCHIVED"
           /\ day > 1 /\ case.nudgedAt < day

NudgeRead(x) ==
  /\ Stalled
  /\ Begins(x, "nudge", "claim")
  /\ UNCHANGED <<tables, day, astray, nudges>>

\* Mutant of ClaimsNudge: only the status is compared.
ClaimsAnyNudge(x) == case.status \in {"NOT_STARTED", "IN_PROGRESS"}

\* The claim, on the status and on the nudge that was read.
ClaimsNudge(x) ==
  case.status \in {"NOT_STARTED", "IN_PROGRESS"} /\ case.nudgedAt = request[x].case.nudgedAt

NudgeClaim(x) ==
  /\ Is(x, "nudge", "claim")
  /\ IF ClaimsNudge(x)
     THEN /\ case' = [case EXCEPT !.nudgedAt = request[x].day]
          /\ nudges' = [nudges EXCEPT ![request[x].day] = @ + 1]
     ELSE UNCHANGED <<case, nudges>>
  /\ Finishes(x)
  /\ UNCHANGED <<expert, item, recheck, shown, day, astray>>

NextDay ==
  /\ day < MaxDays /\ day' = day + 1
  /\ UNCHANGED <<tables, request, astray, nudges>>

-----------------------------------------------------------------------------
RequestStep(x) ==
  \/ StartRead(x) \/ StartExpert(x) \/ StartCase(x)
  \/ SaveRead(x) \/ SaveCase(x) \/ SaveExpert(x) \/ SaveItem(x)
  \/ SubmitRead(x) \/ SubmitCase(x) \/ SubmitExpert(x)
  \/ \E does \in Kinds : DecideRead(x, does)
  \/ DecideClaim(x) \/ DecideExpert(x) \/ DecideEnqueue(x)
  \/ NudgeRead(x) \/ NudgeClaim(x)

Next ==
  \/ \E x \in Requests : RequestStep(x) \/ Die(x)
  \/ EnsureCase \/ ReadinessRecheck \/ NextDay
  \/ \E to \in ExpertStatus : SetByHand(to)

Spec == Init /\ [][Next]_vars

-----------------------------------------------------------------------------
(***************************************************************************)
(* What must hold.                                                         *)
(***************************************************************************)

AtRest == \A x \in Requests : ~Active(x)

\* What operators decide on, and what they verified, has nothing outstanding
\* (submitOnboarding, saveChecklistAnswers): later edits cannot empty it.
SubmittedComplete == case.status \in {"SUBMITTED", "VERIFIED"} => item

\* Between calls the expert's status is the one the case calls for
\* (startOnboarding, submitOnboarding, decideVerification write one after the
\* other), when nothing led astray: no call cut short, no status set by hand, no
\* checklist filled in by somebody who accepted no invitation.
ExpertFollows ==
  AtRest /\ ~astray =>
    expert \in CASE case.status = "SUBMITTED" -> {"PENDING_VERIFICATION"}
                 [] case.status = "IN_PROGRESS" -> {"ONBOARDING"}
                 [] case.status \in {"VERIFIED", "REJECTED"} -> {case.status}
                 [] OTHER -> {"PROSPECT"}

\* A decision reaches the attention queue: once the rechecks it asked for have
\* run, the expert is shown as what the case says (decideVerification,
\* readiness.recheck).
DecisionShown ==
  AtRest /\ ~astray /\ ~recheck =>
    /\ case.status = "VERIFIED" => shown = "ready"
    /\ case.status = "REJECTED" => shown = "blocked"

\* Nobody is nudged twice in a day about one checklist, by whichever worker
\* ("The claiming update is what stops two workers nudging the same person").
NudgedOnce == \A d \in 1 .. MaxDays : nudges[d] <= 1

OnboardingSound == SubmittedComplete /\ ExpertFollows /\ DecisionShown /\ NudgedOnce

\* A verified case stays verified (ONBOARDING_TRANSITIONS), though two calls
\* reopen a case by id.
VerifiedStays == [][case.status = "VERIFIED" => case'.status = "VERIFIED"]_vars

\* "This moves the expert to PENDING_VERIFICATION" (submitOnboarding).
SubmissionMoves ==
  AtRest /\ case.status = "SUBMITTED" => expert = "PENDING_VERIFICATION"
=============================================================================
