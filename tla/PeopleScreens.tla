---------------------------- MODULE PeopleScreens ----------------------------
(***************************************************************************)
(* The screens about one person: an expert's onboarding and portal home,   *)
(* a screening with its reviews, and a candidate with the possible         *)
(* duplicates, the application and the newest screening of theirs.  The    *)
(* conventions are those of Screens.                                       *)
(***************************************************************************)
EXTENDS Screens

-----------------------------------------------------------------------------
(* An expert: `is` the onboarding case, `filled` when every required item   *)
(* of it is answered, `letter` while an invitation waits for a reply,       *)
(* `seated` while they hold a seat, `owes` while work is assigned to them,  *)
(* `archived` once the record is closed.                                    *)

\* The buttons of the checklist: locked while it is with an operator, or passed.
OnboardingPanel(may, e) ==
  Offer("portal" \in may /\ e.is \in {"IN_PROGRESS", "REJECTED"}, {"save", "submit"})

InvitationPanel(may, e) == Offer("portal" \in may /\ e.letter, {"accept", "decline"})

WithdrawalPanel(may, e) == Offer("portal" \in may /\ e.seated, {"leave"})

\* The one instruction at the top of the portal.
PortalHome(e) ==
  CASE e.letter -> "respond"
    [] ~e.letter /\ e.is \in {"IN_PROGRESS", "REJECTED", "SUBMITTED"} /\ ~e.filled -> "complete"
    [] ~e.letter /\ e.is = "SUBMITTED" /\ e.filled -> "wait"
    [] OTHER -> IF e.owes THEN "deliver" ELSE "nothing"

\* The operator's page of the expert.
ExpertPage(may, e) ==
  Offer("onboarding:verify" \in may /\ e.is = "SUBMITTED", {"decide"})
    \cup Offer("expert:write" \in may, {"edit", "link"})

\* The queue of checklists waiting for a decision.
OnboardingPage(e) == e.is = "SUBMITTED"

VerifyPanel(may, e) == Offer("decide" \in ExpertPage(may, e), {"verify", "return"})

PortalLinkPanel(may, e) == Offer("link" \in ExpertPage(may, e), {"link"})

ExpertProfileEditor(may, e) == Offer("edit" \in ExpertPage(may, e), {"edit"})

PortalRoute == All({"save", "submit", "accept", "decline", "leave"}, "portal")

ExpertRoute == [verify |-> "onboarding:verify", return |-> "onboarding:verify",
                edit |-> "expert:write", link |-> "expert:write"]

\* The panel saves its answers and then submits: a returned case is reopened
\* by the save.
SaveOnboardingTakes(e) == Offer(e.is \in {"IN_PROGRESS", "REJECTED"}, {"save"})

SubmitOnboardingTakes(e) == Offer("save" \in SaveOnboardingTakes(e) /\ e.filled, {"submit"})

DecideVerificationTakes(e) == Offer(e.is = "SUBMITTED", {"verify", "return"})

PortalLinkTakes(e) == Offer(~e.archived, {"link"})

ExpertTakes(e) ==
  SaveOnboardingTakes(e) \cup SubmitOnboardingTakes(e) \cup DecideVerificationTakes(e)
    \cup PortalLinkTakes(e) \cup Offer(e.letter, {"accept", "decline"})
    \cup Offer(e.seated, {"leave"}) \cup {"edit"}

ExpertAfter(e, a) ==
  CASE a = "save"    -> {[e EXCEPT !.is = "IN_PROGRESS", !.filled = f] : f \in BOOLEAN}
    [] a = "submit"  -> {[e EXCEPT !.is = "SUBMITTED"]}
    [] a = "verify"  -> {[e EXCEPT !.is = "VERIFIED"]}
    [] a = "return"  -> {[e EXCEPT !.is = "REJECTED"]}
    [] a = "accept"  -> {[e EXCEPT !.letter = FALSE, !.is = IF e.is = "NONE" THEN "IN_PROGRESS" ELSE e.is]}
    [] a = "decline" -> {[e EXCEPT !.letter = FALSE]}
    [] a = "leave"   -> {[e EXCEPT !.seated = FALSE, !.owes = FALSE]}
    [] OTHER         -> {e}

\* Invitations arrive and lapse, operators seat the verified and assign work.
ExpertDrift(e) ==
  Offer(~e.archived, {[e EXCEPT !.letter = ~e.letter]})
    \cup Offer(e.is = "VERIFIED" /\ ~e.seated, {[e EXCEPT !.seated = TRUE]})
    \cup Offer(e.seated, {[e EXCEPT !.owes = ~e.owes]})
    \cup Offer(~e.letter /\ ~e.seated, {[e EXCEPT !.archived = TRUE]})

CaseEdges == [NONE |-> {"IN_PROGRESS"}, IN_PROGRESS |-> {"SUBMITTED"},
  SUBMITTED |-> {"VERIFIED", "REJECTED"}, VERIFIED |-> {}, REJECTED |-> {"IN_PROGRESS", "SUBMITTED"}]

-----------------------------------------------------------------------------
(* A screening: `mine` when a review of it is assigned to the viewer,       *)
(* `seen` the submitted verdicts, `dispute` the conflict between them,      *)
(* `late` once the candidate's window is over.                              *)

ScreeningEdges == [INVITED |-> {"SUBMITTED", "EXPIRED"}, SUBMITTED |-> {"IN_REVIEW", "REVISION_REQUESTED", "DECIDED"},
  IN_REVIEW |-> {"REVISION_REQUESTED", "DECIDED"}, REVISION_REQUESTED |-> {"SUBMITTED", "EXPIRED"},
  DECIDED |-> {}, EXPIRED |-> {}]

\* The candidate's form.
ScreeningForm(may, s) ==
  Offer("apply" \in may /\ s.is \in {"INVITED", "REVISION_REQUESTED"} /\ ~s.late, {"submit"})

\* The card of a screening in the queue.
ScreeningsPage(may, s) ==
  Offer(s.is \in {"SUBMITTED", "IN_REVIEW"},
        Offer("screening:write" \in may, {"assign"}) \cup Offer("screening:decide" \in may, {"decide"}))
    \cup Offer("screening:review" \in may /\ s.mine, {"review"})

AssignReviewerPanel(may, s) == Offer("assign" \in ScreeningsPage(may, s), {"assign"})

ReviewForm(may, s) == Offer("review" \in ScreeningsPage(may, s), {"approve", "disapprove"})

\* Mutant of ScreeningDecisionPanel: the buttons stay enabled during a dispute.
DecideDuringDispute(may, s) ==
  Offer("decide" \in ScreeningsPage(may, s), {"qualify", "reject", "revise"}
    \cup Offer(s.dispute = "OPEN" /\ "screening:resolve_conflict" \in may, {"resolve"}))

ScreeningDecisionPanel(may, s) ==
  Offer("decide" \in ScreeningsPage(may, s),
        {"revise"} \cup Offer(s.dispute # "OPEN", {"qualify", "reject"})
          \cup Offer(s.dispute = "OPEN" /\ "screening:resolve_conflict" \in may, {"resolve"}))

ScreeningRoute == [assign |-> "screening:write", revise |-> "screening:write",
  qualify |-> "screening:decide", reject |-> "screening:decide",
  resolve |-> "screening:resolve_conflict"]

ReviewRoute == All({"approve", "disapprove"}, "screening:review")

ApplyScreeningRoute == All({"submit"}, "apply")

ScreeningTakes(s) ==
  Offer(s.is \in {"INVITED", "REVISION_REQUESTED"} /\ ~s.late, {"submit"})
    \cup Offer(s.mine, {"approve", "disapprove"})
    \cup Offer(s.dispute = "OPEN", {"resolve"})
    \cup Offer(s.is \in {"SUBMITTED", "IN_REVIEW"},
           {"revise"} \cup Offer(~s.mine, {"assign"})
             \cup Offer(s.seen # {}, {"reject"} \cup Offer(s.dispute # "OPEN", {"qualify"})))

\* Two verdicts that disagree open a dispute; assigning a reviewer puts the
\* screening in review, and takes back the verdict of one assigned again.
ScreeningAfter(s, a) ==
  CASE a = "submit"  -> {[s EXCEPT !.is = "SUBMITTED"]}
    [] a = "assign"  -> {[s EXCEPT !.is = "IN_REVIEW", !.mine = TRUE, !.seen = v] :
                           v \in {s.seen} \cup {s.seen \ {x} : x \in s.seen}}
    [] a \in {"approve", "disapprove"} ->
         {[s EXCEPT !.mine = FALSE, !.seen = @ \cup {a},
             !.dispute = IF @ = "NONE" /\ s.seen \ {a} # {} THEN "OPEN" ELSE @]}
    [] a = "revise"  -> {[s EXCEPT !.is = "REVISION_REQUESTED"]}
    [] a = "resolve" -> {[s EXCEPT !.dispute = "RESOLVED"]}
    [] a \in {"qualify", "reject"} -> {[s EXCEPT !.is = "DECIDED"]}

ScreeningDrift(s) ==
  Offer(s.is \in {"INVITED", "REVISION_REQUESTED"}, {[s EXCEPT !.late = TRUE]})
    \cup Offer(s.is \in {"INVITED", "REVISION_REQUESTED"} /\ s.late, {[s EXCEPT !.is = "EXPIRED"]})

-----------------------------------------------------------------------------
(* A candidate: `is` the stage, `twin` while a possible duplicate is open,  *)
(* `silent` after opting out, `round` the newest screening and `applied`    *)
(* the application they came with.                                          *)

CandidatePage(may, c) ==
  Offer("candidate:write" \in may /\ c.twin, {"resolve"})
    \cup Offer("screening:write" \in may /\ c.round = "NONE", {"screen"})

ResolveDuplicate(may, c) == Offer("resolve" \in CandidatePage(may, c), {"same", "different"})

\* The applicant's page starts the next screening once none is open.
ApplicantPage(may, c) ==
  Offer("screening:write" \in may /\ c.applied = "ACTIVE" /\ c.round # "OPEN", {"screen"})

StartScreeningPanel(may, c) == Offer("screen" \in CandidatePage(may, c) \cup ApplicantPage(may, c), {"screen"})

\* The applicant's own page.
ApplyPage(may, c) == Offer("apply" \in may /\ c.applied = "ACTIVE", {"withdraw"})

CandidateRoute == [screen |-> "screening:write"]
DuplicateRoute == All({"same", "different"}, "candidate:write")
ApplyApplicationRoute == [withdraw |-> "apply"]

StartScreeningTakes(c) ==
  Offer(~c.silent /\ c.is \notin {"DUPLICATE_HOLD", "WITHDRAWN", "REJECTED"} /\ c.round # "OPEN", {"screen"})

CandidateTakes(c) ==
  StartScreeningTakes(c) \cup Offer(c.twin, {"same", "different"})
    \cup Offer(c.applied # "NONE", {"withdraw"})

CandidateAfter(c, a) ==
  {CASE a = "screen"    -> [c EXCEPT !.is = "SCREENING_INVITED", !.round = "OPEN"]
     [] a = "withdraw"  -> [c EXCEPT !.applied = "WITHDRAWN"]
     [] a = "same"      -> [c EXCEPT !.is = "WITHDRAWN", !.twin = FALSE]
     [] a = "different" -> [c EXCEPT !.is = IF @ = "DUPLICATE_HOLD" THEN "NEW" ELSE @, !.twin = FALSE]}

\* The round ends with a verdict or by lapsing, and people opt out.
CandidateDrift(c) ==
  Offer(c.round = "OPEN", {[c EXCEPT !.round = "ENDED"], [c EXCEPT !.round = "ENDED", !.is = "QUALIFIED"],
                           [c EXCEPT !.round = "ENDED", !.is = "REJECTED"]})
    \cup {[c EXCEPT !.silent = TRUE]}

\* What the record is said to be waiting for.
NextStepFor(c) ==
  IF c.twin THEN "resolve" ELSE IF c.is = "NEW" THEN "screen" ELSE "wait"
=============================================================================
