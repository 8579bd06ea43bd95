------------------------------ MODULE Console ------------------------------
(***************************************************************************)
(* One person at a screen of the product, and the record on it.  The page  *)
(* was rendered from the record as it was; the person clicks one of the    *)
(* buttons it shows; the route asks whether the session is alive and the   *)
(* role has the capability, the service whether the record can take the    *)
(* action; meanwhile colleagues, the person concerned and the worker move  *)
(* the record without the page knowing.  What each page shows and each     *)
(* service takes is in Screens, ProjectScreens and PeopleScreens.          *)
(***************************************************************************)
EXTENDS ProjectScreens, PeopleScreens

CONSTANTS
  Kinds,      \* the kinds of record looked at
  MaxBehind   \* moves of the record the page may miss

VARIABLES
  kind, role, \* what is looked at, and by whom
  thing,      \* the record
  page,       \* the record as the page was rendered from
  session,    \* the person is signed in
  pressed,      \* the button whose request is under way, or "none"
  said,       \* what the last request came to
  behind      \* moves since the page was rendered

consoleVars == <<kind, role, thing, page, session, pressed, said, behind>>

ConsoleAssumption ==
  /\ Kinds \subseteq {"support", "attention", "payment_item", "payment_batch", "outreach", "work",
       "offboarding", "job", "project", "campaign", "opportunity", "rubric", "expert",
       "screening", "candidate"}
  /\ MaxBehind \in Nat

-----------------------------------------------------------------------------
(* The screens of each kind, put together.                                  *)

Absent == [is |-> "ABSENT"]

\* The forms that open a record.
Form(k, may) ==
  CASE k = "project"       -> ProjectForm(may)
    [] k = "expert"        -> ExpertForm(may)
    [] k = "candidate"     -> CandidateForm(may)
    [] k = "campaign"      -> CreateCampaignForm(may)
    [] k = "opportunity"   -> NewOpportunityPage(may)
    [] k = "rubric"        -> CreateTemplateForm(may)
    [] k = "outreach"      -> OutreachBuilder(may)
    [] k = "payment_batch" -> CreateBatchPanel(may)
    [] k = "work"          -> AssignWorkPanel(may)
    [] k = "support"       -> NewSupportForm(may)

\* The records a form, or the worker, starts.
Started(k) ==
  CASE k = "support"       -> {[is |-> "OPEN"]}
    [] k = "attention"     -> {[is |-> "OPEN"]}
    [] k = "payment_item"  -> {[is |-> "DRAFT", flagged |-> TRUE], [is |-> "READY", flagged |-> FALSE]}
    [] k = "payment_batch" -> {[is |-> "DRAFT", own |-> o] : o \in BOOLEAN}
    [] k = "outreach"      -> {[is |-> "DRAFT", mine |-> m, left |-> TRUE] : m \in BOOLEAN}
    [] k = "work"          -> {[is |-> "ASSIGNED"]}
    [] k = "offboarding"   -> {[is |-> "PENDING"]}
    [] k = "job"           -> {[is |-> "PENDING"]}
    [] k = "project"       -> {[is |-> "DRAFT", needs |-> n, ran |-> FALSE, taken |-> FALSE,
                                ready |-> FALSE, letter |-> "NONE", seat |-> "NONE"] : n \in BOOLEAN}
    [] k = "campaign"      -> {[is |-> "DRAFT"]}
    [] k = "opportunity"   -> {[is |-> "DRAFT", told |-> t, past |-> FALSE] : t \in BOOLEAN}
    [] k = "rubric"        -> {[is |-> "NEW", drafting |-> FALSE, criteria |-> FALSE]}
    [] k = "expert"        -> {[is |-> "NONE", filled |-> FALSE, letter |-> FALSE, seated |-> FALSE,
                                owes |-> FALSE, archived |-> FALSE]}
    [] k = "screening"     -> {[is |-> "INVITED", mine |-> FALSE, seen |-> {}, dispute |-> "NONE",
                                late |-> FALSE]}
    [] k = "candidate"     -> {[is |-> IF t THEN "DUPLICATE_HOLD" ELSE "NEW", twin |-> t, silent |-> FALSE,
                                round |-> "NONE", applied |-> a] : t \in BOOLEAN, a \in {"NONE", "ACTIVE"}}

WithForm == {"project", "expert", "candidate", "campaign", "opportunity", "rubric", "outreach",
             "payment_batch", "work", "support"}

\* The buttons a page shows to somebody who may do `may`.
Shows(k, may, t) ==
  IF t = Absent THEN Form(k, may)
  ELSE CASE k = "support"       -> IF SupportPage(may, t) THEN SupportThread(may, t) \cup SupportPanel(may, t) ELSE {}
         [] k = "attention"     -> AttentionActions(may, t)
         [] k = "payment_item"  -> PaymentsPage(may, t)
         [] k = "payment_batch" -> PaymentBatchActions(may, t)
         [] k = "outreach"      -> OutreachBatchActions(may, t)
         [] k = "work"          -> ReviewWorkPanel(may, t) \cup WorkPanel(may, t)
         [] k = "offboarding"   -> AssignOffboardingTask(may, t) \cup ConfirmOffboardingTask(may, t)
         [] k = "job"           -> JobsPage(may, t)
         [] k = "project"       -> ProjectPage(may, t)
         [] k = "campaign"      -> CampaignStatusControl(may, t)
         [] k = "opportunity"   -> OpportunityActions(may, t) \cup OpportunityForm(may, t) \cup OpportunityPage(may, t)
         [] k = "rubric"        -> RubricsPage(may, t) \cup RubricEditor(may, t)
         [] k = "expert"        -> OnboardingPanel(may, t) \cup InvitationPanel(may, t) \cup WithdrawalPanel(may, t)
                                     \cup VerifyPanel(may, t) \cup PortalLinkPanel(may, t) \cup ExpertProfileEditor(may, t)
         [] k = "screening"     -> ScreeningForm(may, t) \cup AssignReviewerPanel(may, t) \cup ReviewForm(may, t)
                                     \cup ScreeningDecisionPanel(may, t)
         [] k = "candidate"     -> ResolveDuplicate(may, t) \cup StartScreeningPanel(may, t) \cup ApplyPage(may, t)

\* The routes behind the buttons of a kind.
Routes(k) ==
  CASE k = "support"       -> Both(Both([create |-> PortalSupportListRoute], SupportRoute), PortalSupportRoute)
    [] k = "attention"     -> AttentionRoute
    [] k = "payment_item"  -> PaymentItemRoute
    [] k = "payment_batch" -> Both([create |-> PaymentBatchesRoute], PaymentBatchRoute)
    [] k = "outreach"      -> Both([create |-> OutreachBatchesRoute], OutreachRoute)
    [] k = "work"          -> Both(Both([create |-> WorkItemsRoute], WorkRoute), PortalWorkRoute)
    [] k = "offboarding"   -> OffboardingRoute
    [] k = "job"           -> JobsRoute
    [] k = "project"       -> Both([create |-> ProjectsRoute], ProjectRoute)
    [] k = "campaign"      -> Both([create |-> CampaignsRoute], CampaignRoute)
    [] k = "opportunity"   -> Both([create |-> OpportunitiesRoute, apply |-> "anyone"], OpportunityRoute)
    [] k = "rubric"        -> Both([create |-> "rubric:write"], RubricRoute)
    [] k = "expert"        -> Both(Both([create |-> ExpertsRoute], ExpertRoute), PortalRoute)
    [] k = "screening"     -> Both(Both(ScreeningRoute, ReviewRoute), ApplyScreeningRoute)
    [] k = "candidate"     -> Both(Both(Both([create |-> CandidatesRoute], CandidateRoute), DuplicateRoute), ApplyApplicationRoute)

\* requireCapabilityFromRequest and its portal and applicant forms: first the
\* session, then the capability.
Allowed(k, who, signedIn, a) ==
  Routes(k)[a] = "anyone" \/ (signedIn /\ Routes(k)[a] \in May[who])

\* What the services take a record to be good for.
Takes(k, t) ==
  IF t = Absent THEN {"create"}
  ELSE CASE k = "support"       -> SupportTakes(t)
         [] k = "attention"     -> AttentionTakes(t)
         [] k = "payment_item"  -> PaymentItemTakes(t)
         [] k = "payment_batch" -> PaymentBatchTakes(t)
         [] k = "outreach"      -> OutreachTakes(t)
         [] k = "work"          -> SubmitWorkTakes(t) \cup ReviewWorkTakes(t)
         [] k = "offboarding"   -> OffboardingTakes(t)
         [] k = "job"           -> JobTakes(t)
         [] k = "project"       -> ProjectTakes(t)
         [] k = "campaign"      -> CampaignTakes(t)
         [] k = "opportunity"   -> OpportunityTakes(t)
         [] k = "rubric"        -> RubricTakes(t)
         [] k = "expert"        -> ExpertTakes(t)
         [] k = "screening"     -> ScreeningTakes(t)
         [] k = "candidate"     -> CandidateTakes(t)

After(k, t, a) ==
  IF t = Absent THEN Started(k)
  ELSE CASE k = "support"       -> SupportAfter(t, a)
         [] k = "attention"     -> AttentionAfter(t, a)
         [] k = "payment_item"  -> PaymentItemAfter(t, a)
         [] k = "payment_batch" -> PaymentBatchAfter(t, a)
         [] k = "outreach"      -> OutreachAfter(t, a)
         [] k = "work"          -> WorkAfter(t, a)
         [] k = "offboarding"   -> OffboardingAfter(t, a)
         [] k = "job"           -> JobAfter(t, a)
         [] k = "project"       -> ProjectAfter(t, a)
         [] k = "campaign"      -> CampaignAfter(t, a)
         [] k = "opportunity"   -> OpportunityAfter(t, a)
         [] k = "rubric"        -> RubricAfter(t, a)
         [] k = "expert"        -> ExpertAfter(t, a)
         [] k = "screening"     -> ScreeningAfter(t, a)
         [] k = "candidate"     -> CandidateAfter(t, a)

\* What the worker, the clock and the rest of the product do to a record.
Drift(k, t) ==
  IF t = Absent THEN {}
  ELSE CASE k = "attention"     -> AttentionDrift(t)
         [] k = "payment_item"  -> PaymentItemDrift(t)
         [] k = "payment_batch" -> PaymentBatchDrift(t)
         [] k = "work"          -> WorkDrift(t)
         [] k = "job"           -> JobDrift(t)
         [] k = "project"       -> ProjectDrift(t)
         [] k = "opportunity"   -> OpportunityDrift(t)
         [] k = "expert"        -> ExpertDrift(t)
         [] k = "screening"     -> ScreeningDrift(t)
         [] k = "candidate"     -> CandidateDrift(t)
         [] OTHER               -> {}

-----------------------------------------------------------------------------
Init ==
  /\ kind \in Kinds /\ role \in People
  /\ thing \in IF kind \in WithForm THEN {Absent} ELSE Started(kind)
  /\ page = thing
  /\ session = TRUE
  /\ pressed = "none" /\ said = "nothing"
  /\ behind = 0

\* The page is loaded again.
Refresh ==
  /\ pressed = "none" /\ page # thing
  /\ page' = thing /\ behind' = 0
  /\ said' = "nothing"
  /\ UNCHANGED <<kind, role, thing, session, pressed>>

\* A button is pressed: it stays disabled until its request is answered.
Click(a) ==
  /\ pressed = "none"
  /\ a \in Shows(kind, May[role], page)
  /\ pressed' = a
  /\ UNCHANGED <<kind, role, thing, page, session, said, behind>>

\* Mutant of Good: the service trusts the page about the record.
GoodOnPage(a) == a \in Takes(kind, page)

\* The service judges the record as it is.
Good(a) == a \in Takes(kind, thing)

\* The request is carried out and the page rendered again, or refused with the
\* reason shown beside the button.
Handle ==
  /\ pressed # "none"
  /\ pressed' = "none"
  /\ IF Allowed(kind, role, session, pressed) /\ Good(pressed)
     THEN /\ thing' \in After(kind, thing, pressed)
          /\ page' = thing' /\ behind' = 0 /\ said' = "done"
     ELSE /\ said' = "refused"
          /\ UNCHANGED <<thing, page, behind>>
  /\ UNCHANGED <<kind, role, session>>

\* Somebody or something else moves the record.
Elsewhere ==
  /\ behind < MaxBehind
  /\ thing # Absent
  /\ thing' \in Drift(kind, thing) \cup UNION {After(kind, thing, a) : a \in Takes(kind, thing)}
  /\ behind' = behind + 1
  /\ UNCHANGED <<kind, role, page, session, pressed, said>>

\* The session runs out, or is ended in another tab.
Lapse == session /\ session' = FALSE /\ UNCHANGED <<kind, role, thing, page, pressed, said, behind>>

Buttons == UNION {DOMAIN Routes(k) : k \in Kinds}

Next == (\E a \in Buttons : Click(a)) \/ Handle \/ Refresh \/ Elsewhere \/ Lapse

ConsoleSpec == Init /\ [][Next]_consoleVars

-----------------------------------------------------------------------------
Fresh == page = thing

\* What the pages offer although the service would refuse: they leave these
\* conditions to the answer.
LeftToTheAnswer(k, t) ==
  CASE k = "payment_batch" -> Offer(t.own, {"approve"})
    [] k = "outreach"      -> Offer(t.mine, {"approve"})
    [] k = "project"       -> Offer(~t.needs, {"open", "match"}) \cup Offer(t.is \notin OpenForInvitations, {"invite"})
                                \cup Offer(t.is \notin OpenForStaffing, {"propose", "confirm"})
                                \cup Offer(t.taken \/ ~t.ready, {"confirm"})
    [] k = "opportunity"   -> Offer(~t.told \/ t.past, {"publish"})
    [] k = "rubric"        -> Offer(~t.criteria, {"publish"})
    [] k = "expert"        -> Offer(t.archived, {"link"}) \cup Offer(~t.filled, {"submit"})
    [] k = "screening"     -> Offer(t.seen = {}, {"qualify", "reject"}) \cup Offer(t.mine, {"assign"})
    [] k = "candidate"     -> Offer(t.silent \/ t.is \in {"DUPLICATE_HOLD", "WITHDRAWN", "REJECTED"}, {"screen"})
    [] OTHER               -> {}

\* Every button a page shows is one its viewer may press and, on a page that is
\* up to date, one the service takes, with the exceptions above named: the
\* guards are written twice, in a component and in a service.
OfferedIsTaken ==
  \A a \in Shows(kind, May[role], page) :
    /\ Allowed(kind, role, TRUE, a)
    /\ Fresh /\ thing # Absent => a \in Takes(kind, thing) \cup LeftToTheAnswer(kind, thing)

\* Where a record rests.
Rests(k, t) ==
  CASE k = "support"       -> t.is = "CLOSED"
    [] k = "payment_item"  -> t.is \in {"EXPORTED", "VOID"}
    [] k = "payment_batch" -> t.is = "EXPORTED"
    [] k = "outreach"      -> t.is \in {"DISPATCHED", "REJECTED"}
    [] k = "work"          -> t.is \in {"APPROVED", "CANCELLED"}
    [] k = "offboarding"   -> t.is # "PENDING"
    [] k = "job"           -> t.is = "SUCCEEDED"
    [] k = "campaign"      -> t.is = "CLOSED"
    [] k = "opportunity"   -> t.is = "CLOSED"
    [] k = "screening"     -> t.is \in {"DECIDED", "EXPIRED"}
    [] k = "candidate"     -> t.is \in {"WITHDRAWN", "REJECTED", "QUALIFIED"} \/ t.silent
    [] k = "project"       -> t.is \in {"CLOSED", "CANCELLED"}
    [] k = "expert"        -> t.is \in {"NONE", "VERIFIED"}
    [] OTHER               -> FALSE

\* No record is left where no screen can move it, a ranking of other people
\* counted as a move: a draft project without requirements, which no screen
\* edits, and a candidate whose only screening lapsed, whom no application
\* brings back, are.
WayOut ==
  thing # Absent /\ ~Rests(kind, thing) =>
    \/ \E who \in People : \E a \in Shows(kind, May[who], thing) \cap Takes(kind, thing) :
         After(kind, thing, a) # {thing} \/ a = "match"
    \/ \E t \in Drift(kind, thing) : t.is # thing.is
    \/ kind = "project" /\ thing.is = "DRAFT" /\ ~thing.needs
    \/ kind = "candidate" /\ thing.round = "ENDED" /\ thing.applied # "ACTIVE"

\* The banners say what the buttons under them do: the step a project is said
\* to wait for is offered to an operator, an expert told that nothing needs
\* them owes no reply, no work and no unanswered item, and a candidate said to
\* be waiting for a screening is offered one.
BannersHold ==
  Fresh /\ thing # Absent =>
    /\ kind = "project" =>
         /\ NextStep(thing) \in ProjectPage(OPERATOR, thing) \cup {"nothing", "wait", "invite"}
         /\ NextStep(thing) = "invite" => thing.is \in OpenForInvitations
         /\ Recruitable(thing)
    /\ kind = "expert" /\ PortalHome(thing) = "nothing" =>
         /\ InvitationPanel({"portal"}, thing) = {} /\ ~thing.owes
         /\ OnboardingPanel({"portal"}, thing) # {} => thing.filled
    /\ kind = "candidate" /\ NextStepFor(thing) \in {"resolve", "screen"} =>
         thing.round # "NONE" \/ NextStepFor(thing) \in Takes("candidate", thing) \cup {"resolve"} \/ thing.silent

ConsoleHolds == OfferedIsTaken /\ WayOut /\ BannersHold

\* The moves the state machines declare for a kind.
Declared(k) ==
  CASE k = "payment_batch" -> PaymentBatchEdges
    [] k = "outreach"      -> OutreachEdges
    [] k = "work"          -> WorkEdges
    [] k = "project"       -> ProjectEdges
    [] k = "campaign"      -> CampaignEdges
    [] k = "expert"        -> CaseEdges
    [] k = "screening"     -> ScreeningEdges
    [] OTHER               -> <<>>

\* Whatever page a request came from, and whoever moved the record meanwhile, a
\* record changes status only along the moves its state machine declares.
OnlyDeclaredMoves ==
  [][thing.is \in DOMAIN Declared(kind) /\ thing'.is # thing.is
       => thing'.is \in Declared(kind)[thing.is]]_consoleVars
=============================================================================
