--------------------------- MODULE ProjectScreens ---------------------------
(***************************************************************************)
(* The screens around a project: its own page, with the ranking, the       *)
(* invitation and the seat of one expert on it; the sourcing campaigns and *)
(* opportunities that bring people to it; and the rubrics they are         *)
(* screened with.  The conventions are those of Screens: what a page       *)
(* offers, what the route demands, what the service takes, what becomes    *)
(* of the record.                                                          *)
(***************************************************************************)
EXTENDS Screens

-----------------------------------------------------------------------------
(* The project page.  The record is a project of one seat and one of the   *)
(* experts it could go to: `needs` when it has requirements, `ran` when it *)
(* was matched, `taken` when somebody else has the seat, `letter` and      *)
(* `seat` the expert's invitation and assignment, `ready` when the expert  *)
(* is verified with declared hours.                                         *)

ProjectEdges == [DRAFT |-> {"MATCHING", "CANCELLED"},
  MATCHING |-> {"DRAFT", "INVITING", "CANCELLED"},
  INVITING |-> {"MATCHING", "STAFFING", "CANCELLED"},
  STAFFING |-> {"INVITING", "ACTIVE", "CLOSED", "CANCELLED"},
  ACTIVE |-> {"STAFFING", "CLOSED", "CANCELLED"}, CLOSED |-> {}, CANCELLED |-> {}]

Projects ==
  [is : DOMAIN ProjectEdges, needs : BOOLEAN, ran : BOOLEAN, taken : BOOLEAN, ready : BOOLEAN,
   letter : {"NONE", "DRAFT", "SENT", "ACCEPTED", "DECLINED", "EXPIRED", "WITHDRAWN"},
   seat : {"NONE", "PROPOSED", "CONFIRMED", "RELEASED"}]

OpenForInvitations == {"MATCHING", "INVITING", "STAFFING"}
OpenForStaffing == {"INVITING", "STAFFING", "ACTIVE"}

SeatsLeft(p) == ~p.taken /\ p.seat # "CONFIRMED"

\* The buttons in the header of the page.
ProjectHeader(may, p) ==
  Offer("project:status" \in may,
        Offer(p.is = "DRAFT", {"open"}) \cup Offer(p.is = "MATCHING", {"inviting"})
          \cup Offer(p.is \in {"STAFFING", "ACTIVE"}, {"close"}))
    \cup Offer("matching:run" \in may /\ p.is \in {"MATCHING", "INVITING", "STAFFING"}, {"match"})

\* The invite button of a ranked candidate, disabled once one is out or the seats are full.
InviteButton(may, p) ==
  Offer("invitation:send" \in may /\ p.ran /\ SeatsLeft(p)
          /\ p.letter \notin {"DRAFT", "SENT", "ACCEPTED"}, {"invite"})

\* The search below the ranking excludes whoever already holds an invitation.
ExpertSearchInvite(may, p) ==
  Offer("invitation:send" \in may /\ p.needs /\ SeatsLeft(p)
          /\ p.letter \notin {"DRAFT", "SENT", "ACCEPTED"}, {"invite"})

\* The last column of the invitations table.
InvitationTable(may, p) ==
  Offer("invitation:withdraw" \in may /\ p.letter \in {"DRAFT", "SENT"}, {"withdraw"})

\* An accepted expert is blocked from a proposal by a live seat or by not being ready.
Blocked(p) == p.seat \in {"PROPOSED", "CONFIRMED"} \/ ~p.ready

\* The last column of the staffing table, one row per accepted invitation.
StaffingTable(may, p) ==
  Offer(p.letter = "ACCEPTED",
    CASE p.seat = "PROPOSED" /\ "staffing:confirm" \in may  -> {"confirm", "withdraw_proposal"}
      [] p.seat = "CONFIRMED" /\ "staffing:release" \in may -> {"release"}
      [] OTHER -> Offer(~Blocked(p) /\ "staffing:propose" \in may, {"propose"}))

ProjectPage(may, p) ==
  ProjectHeader(may, p) \cup InviteButton(may, p) \cup ExpertSearchInvite(may, p)
    \cup InvitationTable(may, p) \cup StaffingTable(may, p)

\* The banner above the tables: the one thing the project is waiting for.
NextStep(p) ==
  CASE p.is = "DRAFT"                                                -> "open"
    [] p.is \in {"CLOSED", "CANCELLED"}                              -> "nothing"
    [] OTHER ->
       CASE ~SeatsLeft(p)                                            -> "nothing"
         [] SeatsLeft(p) /\ p.letter = "ACCEPTED" /\ p.seat = "PROPOSED" -> "confirm"
         [] SeatsLeft(p) /\ p.letter = "ACCEPTED" /\ p.seat = "NONE" /\ ~Blocked(p) -> "propose"
         [] OTHER -> IF ~p.ran THEN "match" ELSE IF p.letter = "SENT" THEN "wait" ELSE "invite"

ProjectRoute == [open |-> "project:status", inviting |-> "project:status",
  close |-> "project:status", match |-> "matching:run", invite |-> "invitation:send",
  withdraw |-> "invitation:withdraw", propose |-> "staffing:propose",
  confirm |-> "staffing:confirm", withdraw_proposal |-> "staffing:release",
  release |-> "staffing:release"]

\* setProjectStatus: a move to where the project already is does nothing.
SetProjectStatusTakes(p) ==
  Offer(("MATCHING" \in ProjectEdges[p.is] /\ p.needs) \/ p.is = "MATCHING", {"open"})
    \cup Offer("INVITING" \in ProjectEdges[p.is] \/ p.is = "INVITING", {"inviting"})
    \cup Offer("CLOSED" \in ProjectEdges[p.is] \/ p.is = "CLOSED", {"close"})

RunMatchingTakes(p) == Offer(p.is \in OpenForInvitations /\ p.needs, {"match"})

CreateInvitationTakes(p) ==
  Offer(p.is \in OpenForInvitations /\ SeatsLeft(p)
          /\ p.letter \notin {"DRAFT", "SENT", "ACCEPTED"}, {"invite"})

WithdrawInvitationTakes(p) == Offer(p.letter \in {"DRAFT", "SENT"}, {"withdraw"})

\* Mutant of ProposeTakes: one assignment row per expert, so nobody is proposed twice.
ProposeTakesOnce(p) ==
  Offer(p.is \in OpenForStaffing /\ p.ready /\ p.letter = "ACCEPTED" /\ p.seat = "NONE", {"propose"})

\* A released seat can be offered to the same person again.
ProposeTakes(p) ==
  Offer(p.is \in OpenForStaffing /\ p.ready /\ p.letter = "ACCEPTED"
          /\ p.seat \in {"NONE", "RELEASED"}, {"propose"})

ConfirmTakes(p) ==
  Offer(p.is \in OpenForStaffing /\ p.ready /\ SeatsLeft(p) /\ p.seat = "PROPOSED", {"confirm"})

ReleaseTakes(p) == Offer(p.seat \in {"PROPOSED", "CONFIRMED"}, {"release", "withdraw_proposal"})

ProjectTakes(p) ==
  SetProjectStatusTakes(p) \cup RunMatchingTakes(p) \cup CreateInvitationTakes(p)
    \cup WithdrawInvitationTakes(p) \cup ProposeTakes(p) \cup ConfirmTakes(p) \cup ReleaseTakes(p)

\* A status moved along by another step, skipped when it may not move there.
Advanced(p, to) == IF to \in ProjectEdges[p.is] THEN [p EXCEPT !.is = to] ELSE p

\* Mutant of Freed: an operator's release leaves the project as it was.
FreedQuietly(p) == [p EXCEPT !.seat = "RELEASED"]

\* A project that is no longer full says so, whoever gave the seat back.
Freed(p) ==
  LET q == [p EXCEPT !.seat = "RELEASED"] IN IF SeatsLeft(q) THEN Advanced(q, "STAFFING") ELSE q

ProjectAfter(p, a) ==
  {CASE a = "open"     -> [p EXCEPT !.is = "MATCHING"]
     [] a = "inviting" -> [p EXCEPT !.is = "INVITING"]
     [] a = "close"    -> [p EXCEPT !.is = "CLOSED"]
     [] a = "match"    -> [p EXCEPT !.ran = TRUE]
     [] a = "invite"   -> Advanced([p EXCEPT !.letter = "DRAFT"], "INVITING")
     [] a = "withdraw" -> [p EXCEPT !.letter = "WITHDRAWN"]
     [] a = "propose"  -> [p EXCEPT !.seat = "PROPOSED"]
     [] a = "confirm"  -> Advanced([p EXCEPT !.seat = "CONFIRMED"], "ACTIVE")
     [] OTHER          -> Freed(p)}

\* The worker sends, the expert answers or lets it lapse, onboarding verifies,
\* and somebody else takes the seat or gives it back.
ProjectDrift(p) ==
  Offer(p.letter = "DRAFT", {[p EXCEPT !.letter = "SENT"]})
    \cup Offer(p.letter = "SENT",
           {[p EXCEPT !.letter = "DECLINED"], [p EXCEPT !.letter = "EXPIRED"],
            Advanced([p EXCEPT !.letter = "ACCEPTED"], "STAFFING")})
    \cup {[p EXCEPT !.ready = ~p.ready]}
    \cup Offer(SeatsLeft(p) /\ p.is \in OpenForStaffing, {Advanced([p EXCEPT !.taken = TRUE], "ACTIVE")})
    \cup Offer(p.taken, {Advanced([p EXCEPT !.taken = FALSE], "STAFFING")})

\* An open project with an empty seat can still be recruited into.
Recruitable(p) ==
  p.is \in (OpenForInvitations \cup OpenForStaffing) /\ SeatsLeft(p) /\ p.needs
    => "match" \in ProjectHeader(OPERATOR, p) \cap ProjectTakes(p)

-----------------------------------------------------------------------------
(* Sourcing campaigns.                                                      *)

CampaignEdges == [DRAFT |-> {"ACTIVE", "CLOSED"}, ACTIVE |-> {"PAUSED", "CLOSED"},
                  PAUSED |-> {"ACTIVE", "CLOSED"}, CLOSED |-> {}]

\* The control keeps its own copy of the moves.
CampaignStatusControl(may, c) ==
  Offer("campaign:write" \in may,
        CASE c.is = "DRAFT"  -> {"ACTIVE", "CLOSED"}
          [] c.is = "ACTIVE" -> {"PAUSED", "CLOSED"}
          [] c.is = "PAUSED" -> {"ACTIVE", "CLOSED"}
          [] OTHER           -> {})

CampaignRoute == All({"DRAFT", "ACTIVE", "PAUSED", "CLOSED"}, "campaign:write")

\* setCampaignStatus: the listed moves, and the move to where it already is.
CampaignTakes(c) == CampaignEdges[c.is] \cup {c.is}

CampaignAfter(c, a) == {[c EXCEPT !.is = a]}

-----------------------------------------------------------------------------
(* Opportunities: `told` once there is a summary or a description, `past`   *)
(* when the deadline is over, `by` who the screen is for.                   *)

OpportunityActions(may, o) ==
  Offer("campaign:write" \in may,
        Offer(o.is = "DRAFT", {"publish"}) \cup Offer(o.is = "PUBLISHED", {"close"}))

\* The edit form of the page.
OpportunityForm(may, o) == Offer("campaign:write" \in may /\ o.is # "CLOSED", {"tell", "move_deadline"})

OpportunityRoute == All({"publish", "close", "tell", "move_deadline"}, "campaign:write")

PublishTakes(o) ==
  Offer(o.is = "PUBLISHED" \/ (o.is = "DRAFT" /\ o.told /\ ~o.past), {"publish"})

CloseTakes(o) == {"close"}

UpdateOpportunityTakes(o) == Offer(o.is # "CLOSED", {"tell", "move_deadline"})

OpportunityAfter(o, a) ==
  {CASE a = "publish"       -> [o EXCEPT !.is = "PUBLISHED"]
     [] a = "close"         -> [o EXCEPT !.is = "CLOSED"]
     [] a = "tell"          -> [o EXCEPT !.told = TRUE]
     [] a = "move_deadline" -> [o EXCEPT !.past = FALSE]
     [] a = "apply"         -> o}

OpportunityDrift(o) == {[o EXCEPT !.past = TRUE]}

\* Whether applications are taken: the page, the form and the service ask here.
Accepting(o) == o.is = "PUBLISHED" /\ ~o.past

\* The public page, with the form for anybody.
OpportunityPage(may, o) == Offer(Accepting(o), {"apply"})

ApplyTakes(o) == Offer(Accepting(o), {"apply"})

OpportunityTakes(o) ==
  PublishTakes(o) \cup CloseTakes(o) \cup UpdateOpportunityTakes(o) \cup ApplyTakes(o)

-----------------------------------------------------------------------------
(* Rubric templates: `drafting` while the newest version is a draft,        *)
(* `criteria` when that draft has any.                                      *)

\* A template shows either a button for the next draft or the draft itself.
RubricsPage(may, t) ==
  Offer("rubric:write" \in may, IF t.drafting THEN {"save"} ELSE {"draft"})

\* The editor saves before it publishes.
RubricEditor(may, t) ==
  Offer({"rubric:write", "rubric:publish"} \subseteq may /\ t.drafting, {"publish"})

RubricRoute == [draft |-> "rubric:write", save |-> "rubric:write", publish |-> "rubric:publish"]

RubricTakes(t) ==
  Offer(~t.drafting, {"draft"}) \cup Offer(t.drafting, {"save"})
    \cup Offer(t.drafting /\ t.criteria, {"publish"})

RubricAfter(t, a) ==
  CASE a = "draft"   -> {[t EXCEPT !.drafting = TRUE, !.criteria = (t.is = "PUBLISHED")]}
    [] a = "save"    -> {[t EXCEPT !.criteria = TRUE]}
    [] a = "publish" -> {[t EXCEPT !.is = "PUBLISHED", !.drafting = FALSE]}
=============================================================================
