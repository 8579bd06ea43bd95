---------------------------- MODULE Replacements ----------------------------
(***************************************************************************)
(* How one project replaces an expert who leaves: a match run ranks the    *)
(* network (matching.ts, matching-engine.ts), a withdrawal enqueues a      *)
(* search (staffing-gaps.ts), the job staffing.propose_replacements turns  *)
(* the latest ranking into an outreach batch, and an operator decides and  *)
(* dispatches it.                                                          *)
(*                                                                         *)
(* The job runs in a transaction that sees what others have committed: its *)
(* reads are steps of their own, its writes one.  A worker may die before  *)
(* that; the job is then run again.  Staffing, Invitations and Outreach    *)
(* model the other operations in detail: here each is one step, with the   *)
(* conditions that decide who may be ranked, proposed and invited.  A      *)
(* DRAFT invitation is a SENT one.  Only batches drafted by the job count.  *)
(***************************************************************************)
EXTENDS Matching

CONSTANTS
  Experts,          \* by their ids
  Profile,          \* each expert as a candidate who holds and was asked nothing
  Brief,            \* the project's criteria
  Seats,            \* Project.seatsRequested
  RunLimit,         \* ranked experts a run keeps
  ProposalLimit,    \* recommendations in a batch
  Workers,
  MaxWithdrawals,   \* bound: withdrawals, hence jobs and batches
  MaxCrashes        \* bound: workers that die at the job

\* What the constants must be; the runs assume it.
ReplacementsAssumption ==
  /\ Experts \subseteq Nat /\ IsFiniteSet(Experts) /\ IsFiniteSet(Workers)
  /\ DOMAIN Profile = Experts
  /\ \A e \in Experts : Profile[e].id = e /\ {"status", "open", "assigned", "declined", "seats"} \subseteq DOMAIN Profile[e]
  /\ {Seats, RunLimit, ProposalLimit, MaxWithdrawals} \subseteq Nat \ {0}
  /\ MaxCrashes \in Nat

Batches == 1 .. MaxWithdrawals
BatchStatus == {"NONE", "DRAFT", "APPROVED", "REJECTED", "DISPATCHED"}

VARIABLES
  phase,       \* the project takes invitations, or is ACTIVE with all seats filled
  archived,    \* experts with status ARCHIVED
  invitation,  \* Invitation.status of each expert
  seat,        \* Assignment.status of each expert
  latestRun,   \* experts the latest match run ranks
  jobs,        \* searches that wait for a worker
  worker,      \* what each worker does
  batch,       \* replacement batches: status and recipients
  flagged,     \* attention: nobody to propose
  withdrawals, crashes,
  left,        \* history: experts who withdrew and were not asked again
  astray       \* history: experts proposed although they had left

world == <<phase, archived, invitation, seat>>
search == <<jobs, worker, batch, flagged>>
history == <<withdrawals, crashes, left, astray>>
vars == <<world, latestRun, search, history>>

Holding == {"PROPOSED", "CONFIRMED"}
Unanswered == {e \in Experts : invitation[e] = "SENT"}
Filled == {e \in Experts : seat[e] \in {"CONFIRMED", "COMPLETED"}}

Idle == [at |-> "idle", list |-> {}, gone |-> {}]

Init ==
  /\ phase = "open"
  /\ archived = {}
  /\ invitation = [e \in Experts |-> "NONE"] /\ seat = [e \in Experts |-> "NONE"]
  /\ latestRun = {} /\ jobs = 0 /\ worker = [w \in Workers |-> Idle]
  /\ batch = [b \in Batches |-> [status |-> "NONE", list |-> {}]]
  /\ flagged = FALSE
  /\ withdrawals = 0 /\ crashes = 0 /\ left = {} /\ astray = {}

-----------------------------------------------------------------------------
(***************************************************************************)
(* The ranking.                                                            *)
(***************************************************************************)

\* Mutant of OpenInvitation: an acceptance no longer counts as open.
OpenInvitationUnanswered(e) == invitation[e] = "SENT"

\* loadCandidatePool: an invitation to this project that is still open.
OpenInvitation(e) == invitation[e] \in {"SENT", "ACCEPTED"}

\* loadCandidatePool: an expert as the scoring engine sees them.
CandidateOf(e) ==
  [Profile[e] EXCEPT
     !.status = IF e \in archived THEN "ARCHIVED" ELSE @,
     !.open = OpenInvitation(e),
     !.assigned = seat[e] \in Holding,
     !.declined = IF invitation[e] = "DECLINED" THEN 0 ELSE @,
     !.seats = @ + (IF seat[e] = "CONFIRMED" THEN 1 ELSE 0)]

Rankable == {e \in Experts : ~Excluded(CandidateOf(e), Brief)}

\* searchExpertsForProject: anyone not archived, with what the engine says of them.
Found == {e \in Experts \ archived : ~Excluded(CandidateOf(e), Brief)}

\* The order rankCandidates gives the experts it may rank.
Precedes == [f, e \in Experts |-> Before(Profile[f], Profile[e], Brief)]

\* The first n of a set of experts.
Top(n, S) == {e \in S : Cardinality({f \in S : Precedes[f, e]}) < n}

\* runMatching: the best of those it may rank become the latest run.
RunMatching ==
  /\ phase = "open"
  /\ latestRun' = Top(RunLimit, Rankable)
  /\ UNCHANGED <<world, search, history>>

\* createInvitation's conditions.
Invitable(e) ==
  /\ phase = "open" /\ Cardinality(Filled) < Seats
  /\ e \notin archived
  /\ invitation[e] \notin {"SENT", "ACCEPTED"}

-----------------------------------------------------------------------------
(***************************************************************************)
(* The gap and who could close it.                                         *)
(***************************************************************************)

\* computeProjectGap: seats nobody holds, is offered, or is asked to take.
InFlight ==
  Filled \cup {e \in Experts : seat[e] = "PROPOSED"} \cup Unanswered
    \cup {e \in Experts : invitation[e] = "ACCEPTED"}
Gap == IF Cardinality(InFlight) < Seats THEN Seats - Cardinality(InFlight) ELSE 0

\* Mutant of Settled: whoever withdrew before taking a seat is proposed again.
SettledBySeat(e) ==
  \/ invitation[e] \in {"SENT", "ACCEPTED"}
  \/ seat[e] \in {"PROPOSED", "CONFIRMED", "COMPLETED", "RELEASED"}

\* recommendReplacements: whose story on this project is already written.
Settled(e) ==
  \/ invitation[e] \in {"SENT", "ACCEPTED", "WITHDRAWN"}
  \/ seat[e] \in {"PROPOSED", "CONFIRMED", "COMPLETED", "RELEASED"}

\* recommendReplacements: the first of the latest run who may be proposed.
Recommended ==
  Top(ProposalLimit, {e \in latestRun : ~Settled(e) /\ e \notin archived})

\* listExpertCommitments: what the portal offers an expert to withdraw from.
Stage(e) ==
  CASE seat[e] \in Holding -> seat[e]
    [] seat[e] \notin Holding /\ invitation[e] = "ACCEPTED" -> "ACCEPTED"
    [] OTHER -> "none"

\* recordWithdrawal: a live assignment or an accepted invitation, else there is
\* nothing to withdraw from.
MayWithdraw(e) == seat[e] \in {"PROPOSED", "CONFIRMED"} \/ invitation[e] = "ACCEPTED"

-----------------------------------------------------------------------------
(***************************************************************************)
(* People and operators.                                                   *)
(***************************************************************************)

Becomes(e, to) == invitation' = [invitation EXCEPT ![e] = to]

\* Whoever is asked again has not left any more.
AskedAgain(asked) ==
  /\ left' = left \ asked
  /\ worker' = [w \in Workers |-> [worker[w] EXCEPT !.gone = @ \ asked]]

\* createInvitation by an operator.
Invite(e) ==
  /\ Invitable(e) /\ Becomes(e, "SENT") /\ AskedAgain({e})
  /\ UNCHANGED <<phase, archived, seat, latestRun, jobs, batch, flagged,
                 withdrawals, crashes, astray>>

\* respondToInvitation.
Respond(e, accept) ==
  /\ invitation[e] = "SENT"
  /\ Becomes(e, IF accept THEN "ACCEPTED" ELSE "DECLINED")
  /\ UNCHANGED <<phase, archived, seat, latestRun, search, history>>

\* expireOverdueInvitations; a decline counts as one once its cool-off is over.
Expire(e) ==
  /\ invitation[e] \in {"SENT", "DECLINED"} /\ Becomes(e, "EXPIRED")
  /\ UNCHANGED <<phase, archived, seat, latestRun, search, history>>

\* proposeAssignment.
Propose(e) ==
  /\ invitation[e] = "ACCEPTED" /\ e \notin archived
  /\ seat[e] \notin Holding /\ Cardinality(Filled) < Seats
  /\ seat' = [seat EXCEPT ![e] = "PROPOSED"]
  /\ UNCHANGED <<phase, archived, invitation, latestRun, search, history>>

\* confirmAssignment: the last seat makes the project ACTIVE.
Confirm(e) ==
  /\ seat[e] = "PROPOSED" /\ Cardinality(Filled) < Seats
  /\ seat' = [seat EXCEPT ![e] = "CONFIRMED"]
  /\ phase' = IF Cardinality(Filled) + 1 >= Seats THEN "full" ELSE phase
  /\ UNCHANGED <<archived, invitation, latestRun, search, history>>

\* Mutant of Reopens: the project is reopened by the gap, not by empty seats.
ReopensByGap(gap, empty) == gap > 0

\* recordWithdrawal: when the project must take invitations again.
Reopens(gap, empty) == empty > 0

\* recordWithdrawal: one transaction under the project's lock.
RecordWithdrawal(e) ==
  /\ MayWithdraw(e) /\ withdrawals < MaxWithdrawals
  /\ seat' = [seat EXCEPT ![e] = IF @ \in Holding THEN "RELEASED" ELSE @]
  /\ invitation' = [invitation EXCEPT ![e] = IF @ = "ACCEPTED" THEN "WITHDRAWN" ELSE @]
  /\ phase' = IF phase = "full" /\ Reopens(Gap', Seats - Cardinality(Filled'))
                THEN "open" ELSE phase
  /\ jobs' = jobs + 1
  /\ withdrawals' = withdrawals + 1 /\ left' = left \cup {e}
  /\ UNCHANGED <<archived, latestRun, worker, batch, flagged, crashes, astray>>

\* setExpertStatus, as far as a ranking cares; bound: once.
Archive(e) ==
  /\ archived = {} /\ archived' = {e}
  /\ UNCHANGED <<phase, invitation, seat, latestRun, search, history>>

-----------------------------------------------------------------------------
(***************************************************************************)
(* staffing.propose_replacements.                                          *)
(***************************************************************************)

Goes(w, r) == worker' = [worker EXCEPT ![w] = r]
Busy(w) == worker[w].at # "idle"

\* Batches that count as already open.
OpenBatches == {b \in Batches : batch[b].status \in {"DRAFT", "APPROVED"}}

\* The gap is computed; a seat that was refilled ends the job.
GapRead(w) ==
  /\ ~Busy(w) /\ jobs > 0 /\ jobs' = jobs - 1
  /\ Goes(w, IF Gap = 0 THEN Idle ELSE [Idle EXCEPT !.at = "existing", !.gone = left])
  /\ UNCHANGED <<world, latestRun, batch, flagged, withdrawals, crashes, left, astray>>

\* Mutant of OpenRead: batches that wait for approval do not stop the job.
OpenReadAnyway(w) ==
  /\ worker[w].at = "existing"
  /\ Goes(w, [worker[w] EXCEPT !.at = "recommend"])
  /\ UNCHANGED <<world, latestRun, jobs, batch, flagged, history>>

\* An open replacement batch ends the job.
OpenRead(w) ==
  /\ worker[w].at = "existing"
  /\ Goes(w, IF OpenBatches # {} THEN Idle ELSE [worker[w] EXCEPT !.at = "recommend"])
  /\ UNCHANGED <<world, latestRun, jobs, batch, flagged, history>>

\* buildReplacementBatch asks for the recommendations.
Recommend(w) ==
  /\ worker[w].at = "recommend"
  /\ Goes(w, [worker[w] EXCEPT !.at = "write", !.list = Recommended])
  /\ UNCHANGED <<world, latestRun, jobs, batch, flagged, history>>

\* The batch, in DRAFT.
Drafted(list) ==
  LET b == CHOOSE x \in Batches :
             batch[x].status = "NONE" /\ \A y \in 1 .. x - 1 : batch[y].status # "NONE"
  IN  [batch EXCEPT ![b] = [status |-> "DRAFT", list |-> list]]

\* Mutant of ProposeReplacements: an empty list is not worth a flag.
ProposeQuietly(w) ==
  /\ worker[w].at = "write" /\ Goes(w, Idle)
  /\ batch' = IF worker[w].list = {} THEN batch ELSE Drafted(worker[w].list)
  /\ astray' = astray \cup (worker[w].list \cap worker[w].gone)
  /\ UNCHANGED <<world, latestRun, jobs, flagged, withdrawals, crashes, left>>

\* The job commits: a batch that waits for approval, or a call for help.
ProposeReplacements(w) ==
  /\ worker[w].at = "write" /\ Goes(w, Idle)
  /\ IF worker[w].list = {}
       THEN flagged' = TRUE /\ UNCHANGED batch
       ELSE batch' = Drafted(worker[w].list) /\ UNCHANGED flagged
  /\ astray' = astray \cup (worker[w].list \cap worker[w].gone)
  /\ UNCHANGED <<world, latestRun, jobs, withdrawals, crashes, left>>

Job(w) == GapRead(w) \/ OpenRead(w) \/ Recommend(w) \/ ProposeReplacements(w)

\* The process dies; the job is claimed again.
Die(w) ==
  /\ Busy(w) /\ crashes < MaxCrashes /\ crashes' = crashes + 1
  /\ jobs' = jobs + 1 /\ Goes(w, Idle)
  /\ UNCHANGED <<world, latestRun, batch, flagged, withdrawals, left, astray>>

\* submitBatchForApproval and decideBatch.
Decide(b, approve) ==
  /\ batch[b].status = "DRAFT"
  /\ batch' = [batch EXCEPT ![b].status = IF approve THEN "APPROVED" ELSE "REJECTED"]
  /\ UNCHANGED <<world, latestRun, jobs, worker, flagged, history>>

\* dispatchBatch: whoever may be invited is.
DispatchBatch(b) ==
  /\ batch[b].status = "APPROVED"
  /\ LET asked == {e \in batch[b].list : Invitable(e)} IN
       /\ invitation' = [e \in Experts |-> IF e \in asked THEN "SENT" ELSE invitation[e]]
       /\ AskedAgain(asked)
  /\ batch' = [batch EXCEPT ![b].status = "DISPATCHED"]
  /\ UNCHANGED <<phase, archived, seat, latestRun, jobs, flagged, withdrawals, crashes,
                 astray>>

DismissFlag == flagged /\ flagged' = FALSE /\ UNCHANGED <<world, latestRun, jobs, worker, batch, history>>

Next ==
  \/ RunMatching \/ DismissFlag
  \/ \E e \in Experts :
       \/ Invite(e) \/ (\E yes \in BOOLEAN : Respond(e, yes)) \/ Expire(e)
       \/ Propose(e) \/ Confirm(e) \/ RecordWithdrawal(e) \/ Archive(e)
  \/ \E w \in Workers : Job(w) \/ Die(w)
  \/ \E b \in Batches : (\E yes \in BOOLEAN : Decide(b, yes)) \/ DispatchBatch(b)

Fairness == \A w \in Workers : WF_vars(Job(w))

Spec == Init /\ [][Next]_vars /\ Fairness

-----------------------------------------------------------------------------
(***************************************************************************)
(* What must hold.                                                         *)
(***************************************************************************)

TypeOK ==
  /\ phase \in {"open", "full"}
  /\ archived \subseteq Experts
  /\ invitation \in [Experts -> {"NONE", "SENT", "ACCEPTED", "DECLINED", "EXPIRED", "WITHDRAWN"}]
  /\ seat \in [Experts -> {"NONE", "PROPOSED", "CONFIRMED", "RELEASED", "COMPLETED"}]
  /\ latestRun \subseteq Experts /\ jobs \in 0 .. MaxWithdrawals
  /\ worker \in [Workers -> [at : {"idle", "existing", "recommend", "write"},
                             list : SUBSET Experts, gone : SUBSET Experts]]
  /\ batch \in [Batches -> [status : BatchStatus, list : SUBSET Experts]]
  /\ flagged \in BOOLEAN /\ withdrawals \in 0 .. MaxWithdrawals /\ crashes \in 0 .. MaxCrashes
  /\ left \subseteq Experts /\ astray \subseteq Experts

\* What the screens offer, the services accept: whom a fresh ranking, the
\* search or a recommendation names can be invited while the project takes invitations, and
\* the portal offers a withdrawal exactly where recordWithdrawal makes one.
OffersHold ==
  /\ phase = "open" /\ Cardinality(Filled) < Seats =>
       \A e \in Rankable \cup Found \cup Recommended : Invitable(e)
  /\ \A e \in Experts : Stage(e) # "none" <=> MayWithdraw(e)

\* Whoever left is not proposed as their own replacement
\* (recommendReplacements), unless somebody asked them again in between.
NotTheirOwn == astray = {}

\* At most one open batch per worker waits, however many withdrawals there are
\* (staffing.propose_replacements checks before it builds).
OneProposal == Cardinality(OpenBatches) <= Cardinality(Workers)

\* A project with an empty seat takes invitations: a batch built for it can be
\* dispatched (recordWithdrawal reopens by empty seats, not by the gap).
EmptySeatsOpen == phase = "full" => Cardinality(Filled) >= Seats

ReplacementsHold == TypeOK /\ OffersHold /\ NotTheirOwn /\ OneProposal /\ EmptySeatsOpen

\* A withdrawal that leaves a gap is answered, whatever dies meanwhile: by a
\* batch to approve, by a flag, or because the seat is covered again.
SeatsAnswered == jobs > 0 ~> (Gap = 0 \/ OpenBatches # {} \/ flagged)
=============================================================================
