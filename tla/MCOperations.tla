---------------------------- MODULE MCOperations ----------------------------
(***************************************************************************)
(* Day-to-day operations, checked in one run: invitations, the attention   *)
(* queue, expert support, offboarding, the sign-in of operators and the    *)
(* links of the portals.  They share no state: Init chooses which of them  *)
(* moves, the others rest in one of their initial states.  Fairness is     *)
(* that of the components, taken with the choice.                          *)
(***************************************************************************)
EXTENDS Integers

CONSTANTS
  Experts, Workers, Guests, TtlHours, RemindAfterHours, MinHoursRemaining,
  MaxTime, MaxOpenings, MaxCrashes, NoExpert,
  Keys, Sweepers, Limit, MaxDismissals, MaxDeaths, MaxChanges,
  Sessions, MaxReplies,
  Staff, Checklist, Operators, MaxRuns, Unowned,
  Accounts, Logins, Links, CandidateLinks, Redeemers,
  EMAIL_ATTEMPT_LIMIT, IP_ATTEMPT_LIMIT, MaxAttempts, MaxRotations

VARIABLES
  focus,
  now, preference, invitation, sendJobs, worker, session, mail, opened, sends,
  ended, late, against, stranded, crashes,
  sort, holds, others, attention, sweep, dismissals, deaths, changes,
  involved, ticket, replies, serving,
  projectClosed, onProject, openingJob, task, deciding, decisions, seats,
  account, attempts, login, operatorSessions, link, owner, redeem, portalSessions

I == INSTANCE Invitations WITH Sessions <- Guests
A == INSTANCE Attention
S == INSTANCE Support
F == INSTANCE Offboarding
G == INSTANCE Access

ASSUME OperationsAssumption ==
  /\ I!InvitationsAssumption
  /\ A!AttentionAssumption /\ S!SupportAssumption
  /\ F!OffboardingAssumption /\ G!AccessAssumption

invitationVars == <<now, preference, invitation, sendJobs, worker, session, mail,
                    opened, sends, ended, late, against, stranded, crashes>>
attentionVars == <<sort, holds, others, attention, sweep, dismissals, deaths, changes>>
supportVars == <<involved, ticket, replies, serving>>
offboardingVars == <<projectClosed, onProject, openingJob, task, deciding, decisions, seats>>
accessVars == <<account, attempts, login, operatorSessions, link, owner, redeem, portalSessions>>
dailyVars == <<attentionVars, supportVars, offboardingVars, accessVars>>
vars == <<focus, invitationVars, dailyVars>>

Init ==
  /\ I!Init /\ A!Init /\ S!Init /\ F!Init /\ G!Init
  /\ focus \in {"invitations", "attention", "support", "offboarding", "sign-in", "portal"}
  /\ focus # "invitations" => preference = [e \in Experts |-> "EMAIL_ALL"]
  /\ focus # "attention" => \A k \in Keys : sort[k] = A!PaymentSweep
  /\ focus # "support" => involved

InvitationsNext == focus = "invitations" /\ I!Next /\ UNCHANGED <<focus, dailyVars>>
AttentionNext ==
  focus = "attention" /\ A!Next /\ UNCHANGED <<focus, invitationVars, supportVars, offboardingVars, accessVars>>
SupportNext ==
  focus = "support" /\ S!Next /\ UNCHANGED <<focus, invitationVars, attentionVars, offboardingVars, accessVars>>
OffboardingNext ==
  focus = "offboarding" /\ F!Next /\ UNCHANGED <<focus, invitationVars, attentionVars, supportVars, accessVars>>
SignInNext ==
  focus = "sign-in" /\ G!SignInNext /\ UNCHANGED <<focus, invitationVars, attentionVars, supportVars, offboardingVars>>
PortalNext ==
  focus = "portal" /\ G!PortalNext /\ UNCHANGED <<focus, invitationVars, attentionVars, supportVars, offboardingVars>>

Next ==
  \/ InvitationsNext
  \/ AttentionNext \/ SupportNext \/ OffboardingNext \/ SignInNext \/ PortalNext

Fairness ==
  /\ WF_invitationVars(focus = "invitations" /\ I!Tick)
  /\ \A w \in Workers : WF_invitationVars(focus = "invitations" /\ I!Job(w))
  /\ \A s \in Guests : WF_invitationVars(focus = "invitations" /\ I!ScheduleSend(s))
  /\ \A w \in Sweepers, k \in Keys : WF_attentionVars(focus = "attention" /\ A!SweepStep(w, k))
  /\ WF_offboardingVars(focus = "offboarding" /\ F!QueueOpening)
  /\ WF_offboardingVars(focus = "offboarding" /\ F!OpenRead)
  /\ WF_offboardingVars(focus = "offboarding" /\ F!OpenCommit)

Spec == Init /\ [][Next]_vars /\ Fairness

\* respondToInvitation, withdrawInvitation, remindPendingInvitations,
\* expireOverdueInvitations: each of them happens once, on rows that are what
\* the code makes them; queueExpertMessage: what an expert said before his message's
\* turn decides, not what the job had loaded.
InvitationsHold == I!TypeOK /\ I!OnceEach /\ I!PreferenceHonoured

\* replyToSupport, resolveSupport: what a request claims, a reply bears out.
Answered == S!Answered

\* login: the limit on failures holds against requests that race;
\* redeemPortalToken, redeemCandidateToken, revokePortalTokens: a link lets in
\* one session, and none once it is revoked.
AccessHolds == G!Throttled /\ G!LinksHold

\* INVITATION_TRANSITIONS: no write acts on a state that was read before;
\* confirmTask, assignOffboardingTask: one decision on each task, for good.
DecisionsStand == I!TransitionsKept /\ F!DecisionsStand

\* sendInvitation, expireOverdueInvitations: no invitation lies around, unsent
\* or overdue; project.offboarding_tasks: everyone who stays gets the checklist;
\* unless the request died that was to queue the job (createInvitation,
\* setProjectStatus).
NothingForgotten == I!InvitationsSettle /\ F!EveryoneOffboards

\* raiseAttention, resolveIfPresent: the queue follows its conditions, while the
\* rows of a category find place in its sweep.
Follows == A!Follows
=============================================================================
