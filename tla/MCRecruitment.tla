--------------------------- MODULE MCRecruitment ---------------------------
(***************************************************************************)
(* How experts are found and let in, checked in one run: duplicates and    *)
(* applications (Funnel, twice), screenings, rubrics and qualifications,   *)
(* onboarding, reminders and outreach batches.  They share no state: Init  *)
(* chooses which of them moves, the others rest in one of their initial    *)
(* states.                                                                 *)
(***************************************************************************)
EXTENDS Integers, TLC

CONSTANTS
  Sessions,
  Screenings, Reviewers, MaxRevisions, None,
  Records, Applicants, Applications, MaxCut,
  MaxDays,
  Projects, MaxVersion, MaxEditions,
  Subjects, LastDay, MaxReopenings,
  Operators, Recipients, SELF_APPROVAL_LIMIT, MaxFaults, Nobody

VARIABLES
  focus,
  stage, optedOut, screening, submitted, review, dispute, qualified, onboarding,
  jobs, unassigned, call, broken, heard,
  candidate, flag, opportunity, application, thanks, doing, cut,
  expert, case, checklist, recheck, shown, day, visit, astray, nudges,
  rubric, bar, qualification, editor, editions, excused, lost,
  subject, silenced, today, chaser, reopenings, letters,
  status, createdBy, approvedBy, item, projectOpen, open, request, invited,
  reported, events, faults

Pairs(S) == {{c, d} : c, d \in S}

\* The calls that may overlap: all but the pairs the README lists.
ScreeningPairs ==
  Pairs({"start", "submit", "assign", "auto-assign", "review", "revise", "grant", "reject", "expire"})
    \ {{"start"}, {"submit", "expire"}, {"assign", "grant"}, {"assign", "reject"},
       {"auto-assign", "grant"}, {"auto-assign", "reject"}, {"review", "grant"},
       {"revise", "grant"}, {"revise", "reject"}, {"revise", "expire"}, {"assign", "expire"},
       {"auto-assign", "expire"}, {"assign", "revise"}, {"auto-assign", "revise"}}
DuplicatePairs ==
  {{"create"}, {"same"}, {"different"}, {"create", "mark"}}
ApplicationPairs ==
  (Pairs({"register", "apply", "record", "withdraw", "mark"}) \ {{"register"}, {"withdraw", "mark"}})
    \cup {{"apply", "close"}, {"publish", "close"}}
OnboardingPairs ==
  Pairs({"start", "save", "submit", "approve", "return", "nudge"})
    \ {{"start", "return"}, {"save", "submit"}, {"save", "return"}, {"start", "submit"}, {"submit"}}
RubricPairs ==
  Pairs({"draft", "edit", "publish", "require", "revoke", "rereview"})
    \ {{"edit", "publish"}, {"require", "revoke"}, {"revoke", "rereview"}, {"rereview"},
       {"require", "rereview"}}

S == INSTANCE Screening WITH Overlapping <- ScreeningPairs, MayCrash <- TRUE, MaxScreenings <- 1
T == INSTANCE Screening WITH Overlapping <- {}, MayCrash <- FALSE, MaxScreenings <- 2, MaxRevisions <- 1
D == INSTANCE Funnel WITH Overlapping <- DuplicatePairs, People <- Records, Applications <- {},
       MaxCut <- 0
F == INSTANCE Funnel WITH Overlapping <- ApplicationPairs, People <- Applicants
B == INSTANCE Onboarding WITH Requests <- Sessions, Together <- OnboardingPairs,
       ByHand <- TRUE, MayDie <- TRUE, item <- checklist, request <- visit
Q == INSTANCE Rubrics WITH Editors <- Sessions, Alongside <- RubricPairs, EditorsMayDie <- TRUE
R == INSTANCE Reminders WITH Chasers <- Sessions
O == INSTANCE Outreach WITH Requests <- Sessions

ASSUME RecruitmentAssumption ==
  /\ S!ScreeningAssumption /\ T!ScreeningAssumption /\ D!FunnelAssumption /\ F!FunnelAssumption
  /\ B!OnboardingAssumption /\ Q!RubricsAssumption /\ R!RemindersAssumption
  /\ O!OutreachAssumption

screeningVars ==
  <<stage, optedOut, screening, submitted, review, dispute, qualified, onboarding,
    jobs, unassigned, call, broken, heard>>
funnelVars == <<candidate, flag, opportunity, application, thanks, doing, cut>>
onboardingVars == <<expert, case, checklist, recheck, shown, day, visit, astray, nudges>>
rubricVars == <<rubric, bar, qualification, editor, editions, excused, lost>>
reminderVars == <<subject, silenced, today, chaser, reopenings, letters>>
outreachVars == <<status, createdBy, approvedBy, item, projectOpen, open, request,
                  invited, reported, events, faults>>
vars == <<focus, screeningVars, funnelVars, onboardingVars, rubricVars, reminderVars, outreachVars>>

Init ==
  /\ focus \in {"screening", "rescreening", "duplicates", "applications", "onboarding", "rubrics",
                "reminders", "outreach"}
  /\ S!Init /\ (focus # "screening" => ~optedOut)
  /\ IF focus = "duplicates" THEN D!Init ELSE F!Init
  /\ B!Init /\ Q!Init
  /\ R!Init /\ (focus # "reminders" => \A r \in Subjects : subject[r].kind = "review")
  /\ O!Init /\ (focus # "outreach" => open = {})

ScreeningNext ==
  /\ focus = "screening" /\ S!Next
  /\ UNCHANGED <<focus, funnelVars, onboardingVars, rubricVars, reminderVars, outreachVars>>

\* Two screenings of one candidate, one after the other.
RescreeningNext ==
  /\ focus = "rescreening" /\ T!Next
  /\ UNCHANGED <<focus, funnelVars, onboardingVars, rubricVars, reminderVars, outreachVars>>

\* The duplicates of three records, whatever becomes of the opportunity.
DuplicatesNext ==
  /\ focus = "duplicates" /\ D!Next
  /\ UNCHANGED opportunity /\ \A c \in Records : candidate'[c].optedOut = candidate[c].optedOut
  /\ UNCHANGED <<focus, screeningVars, onboardingVars, rubricVars, reminderVars, outreachVars>>

ApplicationsNext ==
  /\ focus = "applications" /\ F!Next
  /\ UNCHANGED <<focus, screeningVars, onboardingVars, rubricVars, reminderVars, outreachVars>>

OnboardingNext ==
  /\ focus = "onboarding" /\ B!Next
  /\ UNCHANGED <<focus, screeningVars, funnelVars, rubricVars, reminderVars, outreachVars>>

RubricsNext ==
  /\ focus = "rubrics" /\ Q!Next
  /\ UNCHANGED <<focus, screeningVars, funnelVars, onboardingVars, reminderVars, outreachVars>>

RemindersNext ==
  /\ focus = "reminders" /\ R!Next
  /\ UNCHANGED <<focus, screeningVars, funnelVars, onboardingVars, rubricVars, outreachVars>>

OutreachNext ==
  /\ focus = "outreach" /\ O!Next
  /\ UNCHANGED <<focus, screeningVars, funnelVars, onboardingVars, rubricVars, reminderVars>>

Next ==
  \/ ScreeningNext \/ RescreeningNext \/ DuplicatesNext \/ ApplicationsNext \/ OnboardingNext
  \/ RubricsNext \/ RemindersNext \/ OutreachNext

Spec == Init /\ [][Next]_vars

Symmetry == Permutations(Reviewers) \cup Permutations(Sessions)

-----------------------------------------------------------------------------
\* submitScreening, grantQualification, screening.assign_reviewer: revisions,
\* qualifications and reviewers agree with the screening they belong to.
ScreeningSound == S!ScreeningSound

\* createCandidate, resolveDuplicate, applyToOpportunity, submitApplication: one
\* person is one candidate with one application, and is not lost.
FunnelHolds == IF focus = "duplicates" THEN D!FunnelHolds ELSE F!FunnelHolds

\* submitOnboarding, decideVerification, onboarding.nudge: case, expert and
\* attention queue agree.
OnboardingSound == B!OnboardingSound

\* createDraftVersion, publishVersion, setProjectQualificationRequirement,
\* revokeQualification: versions and qualifications keep what was decided.
RubricsHold == Q!RubricsHold

\* reminderAllowed and the claims of the reminder jobs: the policy's limits.
RemindersHold == R!RemindersHold

\* dispatchBatch, finaliseBatch, decideBatch: a batch says what it did.
BatchHonest == O!BatchHonest

\* grantQualification, rejectScreening, expireOverdueScreenings and
\* decideVerification: what was decided stays decided.
DecisionsFinal == S!DecisionsFinal /\ B!VerifiedStays
=============================================================================
