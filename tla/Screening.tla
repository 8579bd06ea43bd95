----------------------------- MODULE Screening -----------------------------
(***************************************************************************)
(* The screenings of one candidate, from the invitation through            *)
(* submissions, reviews, disagreements and revisions to the decision:      *)
(* screening.ts, the decisions of qualifications.ts, setCandidateStage     *)
(* of candidates.ts and the jobs about screenings.                         *)
(*                                                                         *)
(* A session is a request or a run of a job.  Requests commit statement by *)
(* statement and keep what they read; a job's run commits as a whole.      *)
(* setCandidateStage's read and write are one step, so are a reviewer's    *)
(* comparison with the others' verdicts and its outcome.  All screenings   *)
(* use one rubric domain; expert, deadlines and letters appear as far as   *)
(* a decision depends on them.                                             *)
(***************************************************************************)
EXTENDS Integers, FiniteSets

CONSTANTS
  Screenings,
  Reviewers,    \* operators who may review
  Sessions,
  Overlapping,  \* {c, d} is in it if a call of c may overlap with one of d
  MayCrash,     \* whether sessions may die; bound: while no call was cut short
  MaxScreenings, \* bound: screenings started
  MaxRevisions,  \* bound: submissions of one screening
  None

Calls == {"start", "submit", "assign", "auto-assign", "review", "revise",
          "grant", "reject", "expire"}

\* What the constants must be; the runs assume it.
ScreeningAssumption ==
  /\ IsFiniteSet(Screenings) /\ IsFiniteSet(Reviewers)
  /\ Overlapping \subseteq SUBSET Calls
  /\ MayCrash \in BOOLEAN
  /\ {MaxScreenings, MaxRevisions} \subseteq Nat
  /\ None \notin Screenings \cup Reviewers

CandidateStage == {"NEW", "DUPLICATE_HOLD", "SCREENING_INVITED", "SCREENING_SUBMITTED",
                   "IN_REVIEW", "REVISION_REQUESTED", "QUALIFIED", "REJECTED", "WITHDRAWN"}
ScreeningStatus == {"NONE", "INVITED", "SUBMITTED", "IN_REVIEW", "REVISION_REQUESTED",
                    "DECIDED", "EXPIRED"}
ReviewDecision == {"APPROVE", "REJECT"}

VARIABLES
  stage,      \* Candidate.stage
  optedOut,   \* Candidate.contactOptOutAt is set; read when a screening starts
  screening,  \* the Screening rows
  submitted,  \* revisions in ScreeningSubmission, by screening
  review,     \* the ScreeningReview rows
  dispute,    \* the ReviewConflict rows; of: the revision when it was resolved
  qualified,  \* screenings with a Qualification
  onboarding, \* the expert has an onboarding case
  jobs,       \* jobs queued: kind, screening, revision
  unassigned, \* screenings with an item "no reviewer available" in the queue
  call,       \* what each session is doing
  broken,     \* history: screenings about which a call was cut short
  heard       \* history: screenings with a verdict since the last submission

rows == <<stage, optedOut, screening, submitted, review, dispute, qualified>>
effects == <<onboarding, jobs, unassigned>>
vars == <<rows, effects, call, broken, heard>>

CANDIDATE_STAGE_TRANSITIONS ==
  [NEW                 |-> {"DUPLICATE_HOLD", "SCREENING_INVITED", "REJECTED", "WITHDRAWN"},
   DUPLICATE_HOLD      |-> {"NEW", "WITHDRAWN", "REJECTED"},
   SCREENING_INVITED   |-> {"SCREENING_SUBMITTED", "REJECTED", "WITHDRAWN"},
   SCREENING_SUBMITTED |-> {"IN_REVIEW", "REVISION_REQUESTED", "QUALIFIED", "REJECTED", "WITHDRAWN"},
   IN_REVIEW           |-> {"QUALIFIED", "REJECTED", "REVISION_REQUESTED", "WITHDRAWN"},
   REVISION_REQUESTED  |-> {"SCREENING_SUBMITTED", "REJECTED", "WITHDRAWN"},
   QUALIFIED           |-> {"WITHDRAWN"},
   REJECTED            |-> {"NEW"},
   WITHDRAWN           |-> {"NEW"}]

Open == {"INVITED", "SUBMITTED", "IN_REVIEW", "REVISION_REQUESTED"}
Accepting == {"INVITED", "REVISION_REQUESTED"}
Reviewable == {"SUBMITTED", "IN_REVIEW"}

NoScreening == [status |-> "NONE", outcome |-> "none", revision |-> 0, overdue |-> FALSE]
NoReview == [state |-> "NONE", of |-> 0, decision |-> "none"]
NoDispute == [status |-> "NONE", of |-> 0]
Idle == [at |-> "idle", does |-> "none", s |-> None, r |-> None, seen |-> 0]

TypeOK ==
  /\ stage \in CandidateStage /\ optedOut \in BOOLEAN
  /\ screening \in [Screenings -> [status : ScreeningStatus,
       outcome : {"none", "APPROVED", "REJECTED"}, revision : 0 .. MaxRevisions, overdue : BOOLEAN]]
  /\ submitted \in [Screenings -> SUBSET (1 .. MaxRevisions)]
  /\ review \in [Screenings -> [Reviewers -> [state : {"NONE", "ASSIGNED", "SUBMITTED"},
       of : 0 .. MaxRevisions, decision : ReviewDecision \cup {"none"}]]]
  /\ dispute \in [Screenings -> [status : {"NONE", "OPEN", "RESOLVED"}, of : 0 .. MaxRevisions]]
  /\ {qualified, unassigned, broken, heard} \subseteq SUBSET Screenings
  /\ onboarding \in BOOLEAN
  /\ jobs \subseteq {"invite", "assign", "apply"} \X Screenings \X (0 .. MaxRevisions)
  /\ \A x \in Sessions : call[x].does \in Calls \cup {"none"}

Init ==
  /\ stage = "NEW" /\ optedOut \in BOOLEAN
  /\ screening = [s \in Screenings |-> NoScreening]
  /\ submitted = [s \in Screenings |-> {}]
  /\ review = [s \in Screenings |-> [r \in Reviewers |-> NoReview]]
  /\ dispute = [s \in Screenings |-> NoDispute]
  /\ qualified = {} /\ onboarding = FALSE
  /\ jobs = {} /\ unassigned = {} /\ broken = {} /\ heard = {}
  /\ call = [x \in Sessions |-> Idle]

-----------------------------------------------------------------------------
(***************************************************************************)
(* Sessions.                                                               *)
(***************************************************************************)

Busy(x) == call[x].at # "idle"
Status(s) == screening[s].status

\* A call begins when those under way may overlap with it.
Arrives(x, c, s, r, at, seen) ==
  /\ ~Busy(x)
  /\ \A y \in Sessions \ {x} : Busy(y) => {c, call[y].does} \in Overlapping
  /\ call' = [call EXCEPT ![x] = [at |-> at, does |-> c, s |-> s, r |-> r, seen |-> seen]]

At(x, c, at) == call[x].does = c /\ call[x].at = at
Goes(x, at) == call' = [call EXCEPT ![x].at = at]
Ends(x) == call' = [call EXCEPT ![x] = Idle]

\* An error or a death leaves what was committed so far.
CutShort(x) == Ends(x) /\ broken' = broken \cup ({call[x].s} \cap Screenings)

Crash(x) ==
  /\ MayCrash /\ broken = {} /\ Busy(x)
  /\ IF call[x].does \in {"auto-assign", "expire"} THEN Ends(x) /\ UNCHANGED broken ELSE CutShort(x)
  /\ UNCHANGED <<rows, effects, heard>>

\* The stage a call gives the candidate.
Stage(c) ==
  CASE c = "start" -> "SCREENING_INVITED"
    [] c = "submit" -> "SCREENING_SUBMITTED"
    [] c = "revise" -> "REVISION_REQUESTED"
    [] c = "grant" -> "QUALIFIED"
    [] c = "reject" -> "REJECTED"
    [] OTHER -> "IN_REVIEW"

MayBecome(to) == stage = to \/ to \in CANDIDATE_STAGE_TRANSITIONS[stage]

\* setCandidateStage, which refuses a move that is not in the table after the
\* call has already written the screening.
SetCandidateStage(x) ==
  /\ call[x].at = "stage"
  /\ IF MayBecome(Stage(call[x].does))
     THEN /\ stage' = Stage(call[x].does)
          /\ IF call[x].does \in {"start", "submit", "grant"} THEN Goes(x, "enqueue") ELSE Ends(x)
          /\ UNCHANGED broken
     ELSE CutShort(x) /\ UNCHANGED stage
  /\ UNCHANGED <<optedOut, screening, submitted, review, dispute, qualified, effects, heard>>

\* The job each of these calls ends with, under a key of the screening and its
\* revision.
Enqueue(x) ==
  /\ call[x].at = "enqueue"
  /\ LET s == call[x].s
         kind == CASE call[x].does = "start" -> "invite"
                   [] call[x].does = "submit" -> "assign"
                   [] OTHER -> "apply"
     IN jobs' = jobs \cup {<<kind, s, IF kind = "assign" THEN call[x].seen + 1 ELSE 0>>}
  /\ Ends(x)
  /\ UNCHANGED <<rows, onboarding, unassigned, broken, heard>>

-----------------------------------------------------------------------------
(***************************************************************************)
(* Invitation and submission.                                              *)
(***************************************************************************)

\* startScreening: the candidate may be contacted and screened, and has no open
\* screening ...
StartRead(x) ==
  /\ ~optedOut
  /\ stage \notin {"DUPLICATE_HOLD", "WITHDRAWN", "REJECTED"}
  /\ \A s \in Screenings : Status(s) \notin Open
  /\ Cardinality({s \in Screenings : Status(s) # "NONE"}) < MaxScreenings
  /\ Arrives(x, "start", None, None, "create", 0)
  /\ UNCHANGED <<rows, effects, broken, heard>>

\* ... as read: no index keeps a second one out.
StartCreate(x) ==
  /\ At(x, "start", "create")
  /\ \E s \in Screenings : Status(s) = "NONE"
  /\ LET s == CHOOSE s \in Screenings : Status(s) = "NONE"
     IN /\ screening' = [screening EXCEPT ![s].status = "INVITED"]
        /\ call' = [call EXCEPT ![x].s = s, ![x].at = "stage"]
  /\ UNCHANGED <<stage, optedOut, submitted, review, dispute, qualified, effects, broken, heard>>

\* submitScreening, while it is accepting and in time ...
SubmitRead(x, s) ==
  /\ Status(s) \in Accepting /\ ~screening[s].overdue
  /\ screening[s].revision < MaxRevisions
  /\ Arrives(x, "submit", s, None, "write", screening[s].revision)
  /\ UNCHANGED <<rows, effects, broken, heard>>

\* Mutant of SubmitWrite: the submission is upserted.
SubmitAgain(x) ==
  /\ At(x, "submit", "write")
  /\ LET s == call[x].s
         n == call[x].seen + 1
     IN /\ submitted' = [submitted EXCEPT ![s] = @ \cup {n}]
        /\ heard' = heard \ {s}
        /\ screening' = [screening EXCEPT ![s].status = "SUBMITTED", ![s].revision = n]
  /\ Goes(x, "stage")
  /\ UNCHANGED <<stage, optedOut, review, dispute, qualified, effects, broken>>

\* ... one transaction: the submission, unless that revision exists, and the
\* screening's status by id.
SubmitWrite(x) ==
  /\ At(x, "submit", "write")
  /\ LET s == call[x].s
         n == call[x].seen + 1
     IN IF n \in submitted[s]
        THEN Ends(x) /\ UNCHANGED <<submitted, screening, heard>>
        ELSE /\ submitted' = [submitted EXCEPT ![s] = @ \cup {n}]
             /\ heard' = heard \ {s}
             /\ screening' = [screening EXCEPT ![s].status = "SUBMITTED", ![s].revision = n]
             /\ Goes(x, "stage")
  /\ UNCHANGED <<stage, optedOut, review, dispute, qualified, effects, broken>>

\* The window closes.
Overdue(s) ==
  /\ Status(s) \in Accepting /\ ~screening[s].overdue
  /\ screening' = [screening EXCEPT ![s].overdue = TRUE]
  /\ UNCHANGED <<stage, optedOut, submitted, review, dispute, qualified, effects, call, broken, heard>>

\* expireOverdueScreenings: overdue when read ...
ExpireRead(x, s) ==
  /\ Status(s) \in Accepting /\ screening[s].overdue
  /\ Arrives(x, "expire", s, None, "claim", 0)
  /\ UNCHANGED <<rows, effects, broken, heard>>

\* ... and claimed while accepting, whatever its deadline is by now.
ExpireClaim(x) ==
  /\ At(x, "expire", "claim")
  /\ IF Status(call[x].s) \in Accepting
     THEN screening' = [screening EXCEPT ![call[x].s].status = "EXPIRED"]
     ELSE UNCHANGED screening
  /\ Ends(x)
  /\ UNCHANGED <<stage, optedOut, submitted, review, dispute, qualified, effects, broken, heard>>

-----------------------------------------------------------------------------
(***************************************************************************)
(* Review.                                                                 *)
(***************************************************************************)

\* The submission a review is assigned to: the latest.
Latest(s) == Cardinality(submitted[s])

\* A reviewer may be assigned: none yet, or one who judged an earlier revision.
Assignable(s, r) == review[s][r].state = "NONE" \/ review[s][r].of # Latest(s)

Assigned(s, r) == [review EXCEPT ![s][r] = [state |-> "ASSIGNED", of |-> Latest(s), decision |-> "none"]]

\* assignReviewer, called by an operator.
AssignRead(x, s, r) ==
  /\ Status(s) \in Reviewable /\ Assignable(s, r)
  /\ Arrives(x, "assign", s, r, "write", 0)
  /\ UNCHANGED <<rows, effects, broken, heard>>

AssignWrite(x) ==
  /\ At(x, "assign", "write")
  /\ review' = Assigned(call[x].s, call[x].r)
  /\ Goes(x, "update")
  /\ UNCHANGED <<stage, optedOut, screening, submitted, dispute, qualified, effects, broken, heard>>

\* The screening's status, by id.
AssignUpdate(x) ==
  /\ At(x, "assign", "update")
  /\ screening' = [screening EXCEPT ![call[x].s].status = "IN_REVIEW"]
  /\ Goes(x, "stage")
  /\ UNCHANGED <<stage, optedOut, submitted, review, dispute, qualified, effects, broken, heard>>

\* Operators without a review of this screening.
Available(s) == {r \in Reviewers : review[s][r].state = "NONE"}

Load(r) == Cardinality({s \in Screenings : review[s][r].state = "ASSIGNED"})

\* Mutant of AutoAssignRead: with nobody available the job is simply done.
AutoAssignQuietly(x, j) ==
  /\ j \in jobs /\ j[1] = "assign"
  /\ LET s == j[2]
         wanted == Status(s) \in Reviewable /\ \A r \in Reviewers : review[s][r].state # "ASSIGNED"
     IN IF wanted /\ Available(s) # {}
        THEN /\ \E r \in Available(s) : Arrives(x, "auto-assign", s, r, "write", j[3])
             /\ UNCHANGED <<jobs, unassigned>>
        ELSE /\ ~Busy(x) /\ jobs' = jobs \ {j} /\ UNCHANGED <<unassigned, call>>
  /\ UNCHANGED <<rows, onboarding, broken, heard>>

\* screening.assign_reviewer: skipped when the screening moved on or somebody
\* is assigned; an item for the queue when nobody is available; otherwise one of
\* the least busy of those who never reviewed it.
AutoAssignRead(x, j) ==
  /\ j \in jobs /\ j[1] = "assign"
  /\ LET s == j[2]
         wanted == Status(s) \in Reviewable /\ \A r \in Reviewers : review[s][r].state # "ASSIGNED"
     IN IF wanted /\ Available(s) # {}
        THEN /\ \E r \in Available(s) :
                  /\ \A q \in Available(s) : Load(r) <= Load(q)
                  /\ Arrives(x, "auto-assign", s, r, "write", j[3])
             /\ UNCHANGED <<jobs, unassigned>>
        ELSE /\ ~Busy(x) /\ jobs' = jobs \ {j} /\ UNCHANGED call
             /\ unassigned' = IF wanted THEN unassigned \cup {s} ELSE unassigned
  /\ UNCHANGED <<rows, onboarding, broken, heard>>

\* The run commits as a whole; it fails, and in the end dies, when the candidate
\* cannot enter review, and is repeated when the reviewer was assigned meanwhile.
AutoAssignCommit(x) ==
  /\ At(x, "auto-assign", "write")
  /\ LET s == call[x].s
         r == call[x].r
         job == <<"assign", s, call[x].seen>>
     IN IF review[s][r].state = "NONE" /\ MayBecome("IN_REVIEW")
        THEN /\ review' = Assigned(s, r)
             /\ screening' = [screening EXCEPT ![s].status = "IN_REVIEW"]
             /\ stage' = "IN_REVIEW"
             /\ unassigned' = unassigned \ {s}
             /\ jobs' = jobs \ {job}
             /\ Ends(x) /\ UNCHANGED broken
        ELSE /\ UNCHANGED <<review, screening, stage, unassigned>>
             /\ IF MayBecome("IN_REVIEW")
                THEN Ends(x) /\ UNCHANGED <<jobs, broken>>
                ELSE jobs' = jobs \ {job} /\ CutShort(x)
  /\ UNCHANGED <<optedOut, submitted, dispute, qualified, onboarding, heard>>

\* submitReview: the assigned reviewer's verdict, claimed while ASSIGNED ...
ReviewClaim(x, s, r, d) ==
  /\ review[s][r].state = "ASSIGNED"
  /\ review' = [review EXCEPT ![s][r].state = "SUBMITTED", ![s][r].decision = d]
  /\ heard' = heard \cup {s}
  /\ Arrives(x, "review", s, r, "compare", 0)
  /\ UNCHANGED <<stage, optedOut, screening, submitted, dispute, qualified, effects, broken>>

Disagree(s) ==
  \E q, r \in Reviewers :
    /\ review[s][q].state = "SUBMITTED" /\ review[s][r].state = "SUBMITTED"
    /\ review[s][q].decision # review[s][r].decision

\* ... and compared with the others': the first disagreement opens a conflict,
\* later ones only reword it.
DetectReviewConflict(x) ==
  /\ At(x, "review", "compare")
  /\ dispute' = IF Disagree(call[x].s) /\ dispute[call[x].s].status = "NONE"
                THEN [dispute EXCEPT ![call[x].s].status = "OPEN"] ELSE dispute
  /\ Ends(x)
  /\ UNCHANGED <<stage, optedOut, screening, submitted, review, qualified, effects, broken, heard>>

\* resolveConflict: claimed while OPEN.
ResolveConflict(s) ==
  /\ dispute[s].status = "OPEN"
  /\ dispute' = [dispute EXCEPT ![s] = [status |-> "RESOLVED", of |-> Latest(s)]]
  /\ UNCHANGED <<stage, optedOut, screening, submitted, review, qualified, effects, call, broken, heard>>

\* requestRevision, on the status as read ...
ReviseRead(x, s) ==
  /\ Status(s) \in Reviewable
  /\ Arrives(x, "revise", s, None, "write", 0)
  /\ UNCHANGED <<rows, effects, broken, heard>>

\* ... and written by id, with a new deadline.
ReviseWrite(x) ==
  /\ At(x, "revise", "write")
  /\ screening' = [screening EXCEPT ![call[x].s].status = "REVISION_REQUESTED",
                                    ![call[x].s].overdue = FALSE]
  /\ Goes(x, "stage")
  /\ UNCHANGED <<stage, optedOut, submitted, review, dispute, qualified, effects, broken, heard>>

-----------------------------------------------------------------------------
(***************************************************************************)
(* Decision.                                                               *)
(***************************************************************************)

Reviewed(s) == \E r \in Reviewers : review[s][r].state = "SUBMITTED"

\* grantQualification: reviewed, undisputed, not yet qualified, as read ...
GrantRead(x, s) ==
  /\ s \notin qualified /\ Status(s) \in Reviewable
  /\ Reviewed(s) /\ dispute[s].status # "OPEN"
  /\ Arrives(x, "grant", s, None, "claim", 0)
  /\ UNCHANGED <<rows, effects, broken, heard>>

\* rejectScreening: reviewed, as read; a dispute is no obstacle.
RejectRead(x, s) ==
  /\ Status(s) \in Reviewable /\ Reviewed(s)
  /\ Arrives(x, "reject", s, None, "claim", 0)
  /\ UNCHANGED <<rows, effects, broken, heard>>

\* Mutant of Undecided: what was read is trusted.
TrustsItsRead(s) == TRUE

\* The condition of the claiming update.
Undecided(s) == Status(s) \in Reviewable

\* The claim: one of two decisions wins.
DecideClaim(x) ==
  /\ call[x].does \in {"grant", "reject"} /\ call[x].at = "claim"
  /\ LET s == call[x].s
         granted == call[x].does = "grant"
     IN IF Undecided(s)
        THEN /\ screening' = [screening EXCEPT ![s].status = "DECIDED",
                                ![s].outcome = IF granted THEN "APPROVED" ELSE "REJECTED"]
             /\ Goes(x, IF granted THEN "qualify" ELSE "stage")
        ELSE Ends(x) /\ UNCHANGED screening
  /\ UNCHANGED <<stage, optedOut, submitted, review, dispute, qualified, effects, broken, heard>>

\* The qualification, unless the expert already holds one of this version or
\* the screening already has one.
Qualify(x) ==
  /\ At(x, "grant", "qualify")
  /\ \/ /\ call[x].s \notin qualified
        /\ qualified' = qualified \cup {call[x].s}
        /\ Goes(x, "stage") /\ UNCHANGED broken
     \/ /\ qualified # {}
        /\ CutShort(x) /\ UNCHANGED qualified
  /\ UNCHANGED <<stage, optedOut, screening, submitted, review, dispute, effects, heard>>

-----------------------------------------------------------------------------
(***************************************************************************)
(* Other jobs.                                                             *)
(***************************************************************************)

\* screening.invite: the letter with the link (Outbox), no state of a screening.
InviteJob(j) ==
  /\ j \in jobs /\ j[1] = "invite"
  /\ jobs' = jobs \ {j}
  /\ UNCHANGED <<rows, onboarding, unassigned, call, broken, heard>>

\* qualification.apply: the new expert gets an onboarding case, once.
ApplyJob(j) ==
  /\ j \in jobs /\ j[1] = "apply"
  /\ jobs' = jobs \ {j}
  /\ onboarding' = TRUE
  /\ UNCHANGED <<rows, unassigned, call, broken, heard>>

-----------------------------------------------------------------------------
Write(x) ==
  \/ StartCreate(x) \/ SubmitWrite(x) \/ ExpireClaim(x)
  \/ AssignWrite(x) \/ AssignUpdate(x) \/ AutoAssignCommit(x)
  \/ DetectReviewConflict(x) \/ ReviseWrite(x) \/ DecideClaim(x) \/ Qualify(x)
  \/ SetCandidateStage(x) \/ Enqueue(x)

Read(x) ==
  \/ StartRead(x)
  \/ \E s \in Screenings :
       \/ SubmitRead(x, s) \/ ExpireRead(x, s) \/ ReviseRead(x, s)
       \/ GrantRead(x, s) \/ RejectRead(x, s)
       \/ \E r \in Reviewers :
            AssignRead(x, s, r) \/ \E d \in ReviewDecision : ReviewClaim(x, s, r, d)

Next ==
  \/ \E x \in Sessions : Read(x) \/ Write(x) \/ Crash(x) \/ \E j \in jobs : AutoAssignRead(x, j)
  \/ \E j \in jobs : InviteJob(j) \/ ApplyJob(j)
  \/ \E s \in Screenings : Overdue(s) \/ ResolveConflict(s)

Spec == Init /\ [][Next]_vars

-----------------------------------------------------------------------------
(***************************************************************************)
(* What must hold.                                                         *)
(***************************************************************************)

\* Calls that do not go together: the second would write the screening by id
\* over what the first decided, or decide on reviews that are being replaced.
Conflicting ==
  {{"submit", "expire"}, {"assign", "grant"}, {"assign", "reject"}, {"auto-assign", "grant"},
   {"auto-assign", "reject"}, {"review", "grant"}, {"revise", "grant"}, {"revise", "reject"},
   {"revise", "expire"}, {"assign", "revise"}, {"auto-assign", "revise"}}

\* The screening's revision is that of the latest submission, and none is
\* missing, however often the candidate presses the button (submitScreening's
\* transaction and the unique revision).
RevisionsDense == \A s \in Screenings : submitted[s] = 1 .. screening[s].revision

\* A qualification rests on an approved screening, and an approval that was not
\* cut short has one (grantQualification's claim before the row).
QualifiedIsApproved ==
  /\ \A s \in qualified : screening[s].outcome = "APPROVED" /\ Status(s) = "DECIDED"
  /\ \A s \in Screenings : screening[s].outcome = "APPROVED" =>
       s \in qualified \cup broken \/ \E x \in Sessions : call[x].s = s

\* What was decided or has expired stays so, and is decided on reviewed work:
\* no approval in the face of an open dispute, no expiry of work handed in.
DecisionsFinal ==
  [][\A s \in Screenings :
       /\ Status(s) \in {"DECIDED", "EXPIRED"} => screening'[s] = screening[s]
       /\ Status(s)' = "DECIDED" /\ Status(s) # "DECIDED" => Reviewed(s)
       /\ screening'[s].outcome = "APPROVED" /\ Status(s) # "DECIDED" => dispute[s].status # "OPEN"
       /\ Status(s)' = "EXPIRED" => screening[s].overdue]_vars

\* Two reviewers who disagree about the work at hand are a question for an
\* operator before it is approved: "The system never breaks a tie. A conflict
\* becomes a task for an authorised operator" (detectReviewConflict).
TiesAsked ==
  [][\A s \in Screenings :
       screening'[s].outcome = "APPROVED" /\ screening[s].outcome # "APPROVED" =>
         \A q, r \in Reviewers :
           (/\ review[s][q].state = "SUBMITTED" /\ review[s][r].state = "SUBMITTED"
            /\ review[s][q].of = Latest(s) /\ review[s][r].of = Latest(s)
            /\ review[s][q].decision # review[s][r].decision)
             => dispute[s].status = "RESOLVED" /\ dispute[s].of = Latest(s)]_vars

\* Somebody or something is about to act on the screening.
Moving(s, kind) == (\E x \in Sessions : call[x].s = s) \/ (\E j \in jobs : j[1] = kind /\ j[2] = s)

\* "Assigning a reviewer is automatic; failing to find one is an exception, not a
\* silent stall" (submitScreening): work that was handed in has a reviewer, a
\* verdict, an item in the queue or a job that will see to it, and so has a
\* qualification until the expert is being onboarded - unless a call was cut short.
NothingStalls ==
  \A s \in Screenings \ broken :
    /\ Status(s) = "SUBMITTED" =>
         \/ s \in heard \cup unassigned \/ \E r \in Reviewers : review[s][r].state = "ASSIGNED"
         \/ Moving(s, "assign")
    /\ s \in qualified => onboarding \/ Moving(s, "apply")

ScreeningSound == RevisionsDense /\ QualifiedIsApproved /\ NothingStalls
=============================================================================
