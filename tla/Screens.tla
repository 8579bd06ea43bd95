------------------------------ MODULE Screens ------------------------------
(***************************************************************************)
(* What the screens of the product offer for one record, what the route    *)
(* behind each button demands, and what the service does with it.          *)
(*                                                                         *)
(* For every kind of record there are four definitions: the buttons of the *)
(* page or component for the person in front of it (the `...Panel`,        *)
(* `...Actions` and `...Page` operators, named after the component), the   *)
(* capability the route asks for (`...Route`), the actions the service     *)
(* accepts (`...Takes`), and what the record may become (`...After`), with *)
(* `...Drift` for what jobs and the passing of time do to it.  Each page   *)
(* decides from the record as it was rendered; each service from the       *)
(* record as it is.  Wording, layout and input validation are left out.    *)
(***************************************************************************)
EXTENDS Naturals, FiniteSets

Offer(condition, actions) == IF condition THEN actions ELSE {}
All(actions, capability) == [a \in actions |-> capability]

\* Two tables of routes as one.
Both(f, g) == [a \in DOMAIN f \cup DOMAIN g |-> IF a \in DOMAIN f THEN f[a] ELSE g[a]]

-----------------------------------------------------------------------------
(* Who may do what.  A portal or applicant session stands for itself.       *)

VIEWER == {"expert:read", "project:read", "onboarding:read", "activity:read",
  "outbox:read", "jobs:read", "candidate:read", "campaign:read", "screening:read",
  "rubric:read", "qualification:read", "outreach:read", "attention:read", "work:read",
  "support:read", "payment:read", "offboarding:read"}

OPERATOR == VIEWER \cup {"expert:write", "project:write", "project:status",
  "matching:run", "invitation:send", "invitation:withdraw", "onboarding:verify",
  "staffing:propose", "staffing:confirm", "staffing:release", "candidate:write",
  "campaign:write", "screening:write", "screening:review", "screening:decide",
  "rubric:write", "qualification:write", "outreach:write", "attention:manage",
  "work:write", "work:review", "support:respond", "payment:write",
  "offboarding:assign", "offboarding:confirm", "import:run"}

\* Mutant of ADMIN: taken for what an operator may not do, not for everything.
AdminAlone == {"jobs:manage", "user:manage", "rubric:publish",
  "screening:resolve_conflict", "outreach:approve", "payment:approve"}

ADMIN == OPERATOR \cup {"jobs:manage", "user:manage", "rubric:publish",
  "screening:resolve_conflict", "outreach:approve", "payment:approve"}

May == [VIEWER |-> VIEWER, OPERATOR |-> OPERATOR, ADMIN |-> ADMIN,
        EXPERT |-> {"portal"}, CANDIDATE |-> {"apply"}, VISITOR |-> {}]

People == DOMAIN May

-----------------------------------------------------------------------------
(* Support threads.                                                         *)

\* The page lists every request unless a tab narrows it.
SupportPage(may, r) == r.is \in {"OPEN", "WAITING_ON_EXPERT", "WAITING_ON_OPS", "RESOLVED", "CLOSED"}

\* The operator's half of a thread.
SupportThread(may, r) ==
  Offer("support:respond" \in may /\ r.is # "CLOSED", {"reply", "note", "assign", "resolve"})

\* The expert's half: replies until the thread is closed.
SupportPanel(may, r) == Offer("portal" \in may /\ r.is # "CLOSED", {"answer"})

SupportRoute == All({"reply", "note", "assign", "block", "resolve", "close"}, "support:respond")

PortalSupportRoute == All({"answer"}, "portal")

SupportTakes(r) ==
  {"assign", "block"} \cup Offer(r.is # "CLOSED", {"reply", "note", "answer", "resolve", "close"})

SupportAfter(r, a) ==
  {[r EXCEPT !.is = CASE a = "reply"   -> "WAITING_ON_EXPERT"
                      [] a = "answer"  -> "WAITING_ON_OPS"
                      [] a = "resolve" -> "RESOLVED"
                      [] a = "close"   -> "CLOSED"
                      [] OTHER         -> r.is]}

-----------------------------------------------------------------------------
(* The attention queue.                                                     *)

\* Open items only, most severe first.
AttentionPage(may, i) == i.is = "OPEN"

AttentionActions(may, i) ==
  Offer("attention:manage" \in may /\ AttentionPage(may, i), {"assign", "dismiss"})

AttentionRoute == All({"assign", "dismiss"}, "attention:manage")

AttentionTakes(i) == {"assign", "dismiss"}

AttentionAfter(i, a) == {IF a = "dismiss" THEN [i EXCEPT !.is = "DISMISSED"] ELSE i}

\* The sweeps resolve what is gone and reopen what is back.
AttentionDrift(i) ==
  {[i EXCEPT !.is = s] : s \in Offer(i.is # "RESOLVED", {"RESOLVED"}) \cup Offer(i.is = "RESOLVED", {"OPEN"})}

-----------------------------------------------------------------------------
(* Payment items and batches.                                               *)

\* DRAFT items wait for an explanation, READY ones for a batch.
PaymentsPage(may, i) ==
  Offer("payment:write" \in may,
        Offer(i.is = "DRAFT", {"explain", "correct"}) \cup Offer(i.is = "READY", {"batch"}))

PaymentItemRoute == All({"explain", "correct", "batch"}, "payment:write")

PaymentItemTakes(i) ==
  Offer(i.is # "EXPORTED" /\ i.flagged, {"explain"})
    \cup Offer(i.is # "VOID", {"correct"})
    \cup Offer(i.is = "READY", {"batch"})

PaymentItemAfter(i, a) ==
  {CASE a = "explain" -> [is |-> IF i.is = "DRAFT" THEN "READY" ELSE i.is, flagged |-> FALSE]
     [] a = "correct" -> [i EXCEPT !.is = "VOID"]
     [] a = "batch"   -> [i EXCEPT !.is = "IN_BATCH"]}

PaymentItemDrift(i) == Offer(i.is = "IN_BATCH", {[i EXCEPT !.is = "EXPORTED"]})

\* Mutant of PaymentBatchActions: a batch waiting for approval offers its file.
PaymentBatchActionsEarly(may, b) ==
  Offer("payment:write" \in may /\ b.is = "DRAFT", {"submit"})
    \cup Offer("payment:approve" \in may /\ b.is = "PENDING_APPROVAL", {"approve", "export"})
    \cup Offer("payment:approve" \in may /\ b.is = "APPROVED", {"export"})

PaymentBatchActions(may, b) ==
  Offer("payment:write" \in may /\ b.is = "DRAFT", {"submit"})
    \cup Offer("payment:approve" \in may /\ b.is = "PENDING_APPROVAL", {"approve"})
    \cup Offer("payment:approve" \in may /\ b.is = "APPROVED", {"export"})

PaymentBatchRoute == [submit |-> "payment:write", approve |-> "payment:approve",
                      export |-> "payment:approve"]

PaymentBatchTakes(b) ==
  Offer(b.is = "DRAFT", {"submit"})
    \cup Offer(b.is = "PENDING_APPROVAL" /\ ~b.own, {"approve"})
    \cup Offer(b.is = "APPROVED", {"export"})

PaymentBatchAfter(b, a) ==
  {[b EXCEPT !.is = CASE a = "submit"  -> "PENDING_APPROVAL"
                      [] a = "approve" -> "APPROVED"
                      [] a = "export"  -> "EXPORTED"]}

\* A correction sends a batch back.
PaymentBatchDrift(b) ==
  Offer(b.is \in {"PENDING_APPROVAL", "APPROVED"}, {[b EXCEPT !.is = "DRAFT"]})

PaymentBatchEdges == [DRAFT |-> {"PENDING_APPROVAL", "CANCELLED"},
  PENDING_APPROVAL |-> {"APPROVED", "DRAFT", "CANCELLED"},
  APPROVED |-> {"EXPORTED", "DRAFT", "CANCELLED"}, EXPORTED |-> {}, CANCELLED |-> {}]

-----------------------------------------------------------------------------
(* Outreach batches: `mine` when the viewer assembled one above the limit   *)
(* for approving one's own, `left` while a recipient can still be sent.     *)

\* Mutant of OutreachBatchActions: an approved batch may still be rejected.
OutreachBatchActionsLate(may, b) ==
  Offer("outreach:write" \in may /\ b.is = "DRAFT", {"submit"})
    \cup Offer("outreach:approve" \in may,
           Offer(b.is = "PENDING_APPROVAL", {"approve"})
             \cup Offer(b.is \in {"PENDING_APPROVAL", "APPROVED"}, {"reject"})
             \cup Offer(b.is \in {"APPROVED", "PARTIALLY_DISPATCHED"} /\ b.left, {"dispatch"}))

OutreachBatchActions(may, b) ==
  Offer("outreach:write" \in may /\ b.is = "DRAFT", {"submit"})
    \cup Offer("outreach:approve" \in may,
           Offer(b.is = "PENDING_APPROVAL", {"approve", "reject"})
             \cup Offer(b.is \in {"APPROVED", "PARTIALLY_DISPATCHED"} /\ b.left, {"dispatch"}))

OutreachRoute == [submit |-> "outreach:write", approve |-> "outreach:approve",
                  reject |-> "outreach:approve", dispatch |-> "outreach:approve"]

OutreachTakes(b) ==
  Offer(b.is = "DRAFT", {"submit"})
    \cup Offer(b.is = "PENDING_APPROVAL", {"reject"} \cup Offer(~b.mine, {"approve"}))
    \cup Offer(b.is \in {"APPROVED", "PARTIALLY_DISPATCHED", "DISPATCHED"}, {"dispatch"})

OutreachAfter(b, a) ==
  CASE a = "submit"   -> {[b EXCEPT !.is = "PENDING_APPROVAL"]}
    [] a = "approve"  -> {[b EXCEPT !.is = "APPROVED"]}
    [] a = "reject"   -> {[b EXCEPT !.is = "REJECTED"]}
    [] a = "dispatch" -> IF b.left THEN {[b EXCEPT !.is = "PARTIALLY_DISPATCHED"],
                                         [b EXCEPT !.is = "DISPATCHED", !.left = FALSE]}
                         ELSE {b}

OutreachEdges == [DRAFT |-> {"PENDING_APPROVAL", "CANCELLED"},
  PENDING_APPROVAL |-> {"APPROVED", "REJECTED", "CANCELLED"},
  APPROVED |-> {"PARTIALLY_DISPATCHED", "DISPATCHED", "CANCELLED"}, REJECTED |-> {"DRAFT"},
  PARTIALLY_DISPATCHED |-> {"DISPATCHED", "CANCELLED"}, DISPATCHED |-> {}, CANCELLED |-> {}]

-----------------------------------------------------------------------------
(* Work items.                                                              *)

\* The delivery page lists every item and offers a review of what is submitted.
WorkPage(may, w) == Offer("work:review" \in may /\ w.is \in {"SUBMITTED", "IN_REVIEW"}, {"decide"})

\* The two buttons of an open review.
ReviewWorkPanel(may, w) == Offer(WorkPage(may, w) # {}, {"approve", "revise"})

\* The expert's list: everything but drafts, with a form while work is owed.
WorkPanel(may, w) ==
  Offer("portal" \in may /\ w.is \in {"ASSIGNED", "IN_PROGRESS", "REVISION_REQUESTED"}, {"submit"})

WorkRoute == All({"approve", "revise"}, "work:review")

PortalWorkRoute == All({"submit"}, "portal")

WorkEdges == [DRAFT |-> {"ASSIGNED", "CANCELLED"}, ASSIGNED |-> {"SUBMITTED", "CANCELLED"},
  SUBMITTED |-> {"IN_REVIEW", "REVISION_REQUESTED", "APPROVED", "CANCELLED"},
  IN_REVIEW |-> {"REVISION_REQUESTED", "APPROVED", "CANCELLED"},
  REVISION_REQUESTED |-> {"SUBMITTED", "CANCELLED"}, APPROVED |-> {}, CANCELLED |-> {}]

SubmitWorkTakes(w) == Offer("SUBMITTED" \in WorkEdges[w.is], {"submit"})

ReviewWorkTakes(w) ==
  Offer("APPROVED" \in WorkEdges[w.is], {"approve"})
    \cup Offer("REVISION_REQUESTED" \in WorkEdges[w.is], {"revise"})

WorkAfter(w, a) ==
  {[w EXCEPT !.is = CASE a = "submit"  -> "SUBMITTED"
                      [] a = "approve" -> "APPROVED"
                      [] a = "revise"  -> "REVISION_REQUESTED"]}

\* A withdrawal cancels what is outstanding.
WorkDrift(w) == Offer("CANCELLED" \in WorkEdges[w.is], {[w EXCEPT !.is = "CANCELLED"]})

-----------------------------------------------------------------------------
(* Offboarding tasks.                                                       *)

\* The delivery page lists the pending ones.
AssignOffboardingTask(may, t) ==
  Offer("offboarding:assign" \in may /\ t.is = "PENDING", {"assign"})

ConfirmOffboardingTask(may, t) ==
  Offer("offboarding:confirm" \in may /\ t.is = "PENDING", {"confirm", "not_applicable"})

OffboardingRoute == [assign |-> "offboarding:assign", confirm |-> "offboarding:confirm",
                     not_applicable |-> "offboarding:confirm"]

OffboardingTakes(t) == Offer(t.is = "PENDING", {"assign", "confirm", "not_applicable"})

OffboardingAfter(t, a) ==
  {[t EXCEPT !.is = CASE a = "assign"         -> t.is
                      [] a = "confirm"        -> "CONFIRMED"
                      [] a = "not_applicable" -> "NOT_APPLICABLE"]}

-----------------------------------------------------------------------------
(* Background jobs.                                                         *)

JobsPage(may, j) ==
  Offer("jobs:manage" \in may /\ j.is \in {"DEAD", "FAILED", "CANCELLED"}, {"retry"})

JobsRoute == All({"retry"}, "jobs:manage")

JobTakes(j) == Offer(j.is \in {"DEAD", "FAILED", "CANCELLED"}, {"retry"})

JobAfter(j, a) == {[is |-> "PENDING"]}

JobDrift(j) ==
  Offer(j.is \in {"PENDING", "FAILED"}, {[is |-> "RUNNING"]})
    \cup Offer(j.is = "RUNNING", [is : {"SUCCEEDED", "FAILED", "DEAD", "PENDING"}])

-----------------------------------------------------------------------------
(* The forms that open a record, and the capability their routes ask for.   *)

ProjectsPage(may) == "project:write" \in may       \* the link to ...
ProjectForm(may) == Offer(ProjectsPage(may), {"create"})
ProjectsRoute == "project:write"

ExpertsPage(may) == "expert:write" \in may
ExpertForm(may) == Offer(ExpertsPage(may), {"create"})
ExpertsRoute == "expert:write"

CandidatesPage(may) == "candidate:write" \in may
CandidateForm(may) == Offer(CandidatesPage(may), {"create"})
CandidatesRoute == "candidate:write"

CampaignsPage(may) == "campaign:write" \in may
CreateCampaignForm(may) == Offer(CampaignsPage(may), {"create"})
CampaignsRoute == "campaign:write"

\* The page of the new opportunity asks for the capability itself: the link to
\* it is shown to everybody who reads the list.
NewOpportunityPage(may) == Offer("campaign:write" \in may, {"create"})
OpportunitiesRoute == "campaign:write"

CreateTemplateForm(may) == Offer("rubric:write" \in may, {"create"})

\* Recipients come from a project's ranking, items from what is ready.
OutreachPage(may) == "outreach:write" \in may
OutreachBuilder(may) == Offer(OutreachPage(may), {"create"})
OutreachBatchesRoute == "outreach:write"

CreateBatchPanel(may) == Offer("payment:write" \in may, {"create"})
PaymentBatchesRoute == "payment:write"

\* Work is handed to a confirmed seat.
AssignWorkPanel(may) == Offer("work:write" \in may, {"create"})
WorkItemsRoute == "work:write"

NewSupportForm(may) == Offer("portal" \in may, {"create"})
PortalSupportListRoute == "portal"
=============================================================================
