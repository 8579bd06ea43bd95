------------------------------ MODULE Staffing ------------------------------
(***************************************************************************)
(* One project and the people who may hold its seats: staffing.ts (propose,*)
(* confirm, release, complete), projects.ts (seat count and status),       *)
(* recordWithdrawal of staffing-gaps.ts, and the two invitation calls that *)
(* move the project, createInvitation and respondToInvitation.             *)
(*                                                                         *)
(* Requests run concurrently, one statement at a time: what a request read *)
(* stays in its session while others write.  Only confirm, release and     *)
(* withdrawal take the project's row lock; every UPDATE of the project row *)
(* waits for it, reads do not.  Between lock and commit a transaction's    *)
(* writes are invisible, so they appear in the commit.  A session may die  *)
(* at any step: an open transaction rolls back, what was written stays.    *)
(*                                                                         *)
(* Two status sets are coarser than the code's.  An invitation is SENT     *)
(* from its creation to its answer (DRAFT included), and WITHDRAWN when it *)
(* may be reopened (DECLINED and EXPIRED included).  An expert is verified *)
(* or not.  Declared hours and rates are taken to be in order.             *)
(***************************************************************************)
EXTENDS Integers, FiniteSets

CONSTANTS
  Experts,
  Sessions,        \* requests the server may have in progress
  Calls,           \* the calls this instance makes
  Overlapping,     \* {c, d} is in it if a call of c may overlap with one of d
  MayCrash,        \* whether sessions may die
  MaxSeats,        \* bound: largest seatsRequested
  MaxWithdrawals,  \* bound: withdrawals of one expert
  NoSession,
  NoExpert

ProjectStatus == {"DRAFT", "MATCHING", "INVITING", "STAFFING", "ACTIVE", "CLOSED", "CANCELLED"}
AssignmentStatus == {"NONE", "PROPOSED", "CONFIRMED", "RELEASED", "COMPLETED"}
InvitationStatus == {"NONE", "SENT", "ACCEPTED", "WITHDRAWN"}
JobStatus == {"NONE", "QUEUED", "DONE", "SKIPPED"}

\* The calls.  "activate" is the operator's change of status to ACTIVE,
\* "reinvite" the creation of an invitation that has a row already.
AllCalls == {"propose", "confirm", "release", "complete", "withdraw", "edit",
             "status", "activate", "invite", "reinvite", "answer"}

ASSUME StaffingAssumption ==
  /\ IsFiniteSet(Experts)
  /\ Calls \subseteq AllCalls
  /\ Overlapping \subseteq SUBSET Calls
  /\ MayCrash \in BOOLEAN
  /\ MaxSeats \in Nat \ {0}
  /\ MaxWithdrawals \in Nat
  /\ NoSession \notin Sessions
  /\ NoExpert \notin Experts

VARIABLES
  status,          \* Project.status
  seatsRequested,  \* Project.seatsRequested
  seatsFilled,     \* Project.seatsFilled
  verified,        \* experts whose status is VERIFIED
  invitation,      \* the invitation row of each expert
  assignment,      \* the assignment row of each expert
  startJob,        \* the project_start_tasks job of each assignment
  withdrawals,     \* 'assignment.expert_withdrew' events of each expert
  lock,            \* the session holding the project's row lock
  session          \* what each request is about to do, and what it has read

projectVars == <<status, seatsRequested, seatsFilled>>
expertVars  == <<verified, invitation, assignment, startJob, withdrawals>>
vars == <<projectVars, expertVars, lock, session>>

PROJECT_TRANSITIONS ==
  [DRAFT     |-> {"MATCHING", "CANCELLED"},
   MATCHING  |-> {"DRAFT", "INVITING", "CANCELLED"},
   INVITING  |-> {"MATCHING", "STAFFING", "CANCELLED"},
   STAFFING  |-> {"INVITING", "ACTIVE", "CLOSED", "CANCELLED"},
   ACTIVE    |-> {"STAFFING", "CLOSED", "CANCELLED"},
   CLOSED    |-> {},
   CANCELLED |-> {}]

OpenForInvitations == {"MATCHING", "INVITING", "STAFFING"}
OpenForStaffing    == {"INVITING", "STAFFING", "ACTIVE"}

\* countSeatsTaken.
Held == {e \in Experts : assignment[e] \in {"CONFIRMED", "COMPLETED"}}
SeatsTaken == Cardinality(Held)

Points == {"idle", "propose", "proposeWrite", "confirmLock", "confirmWrite",
           "confirmEnqueue", "release", "complete", "withdraw", "edit",
           "inviteWrite", "answerCount", "advance", "statusWrite"}

\* What a session remembers: the call it serves, its next step, the expert it is
\* about, the status and the number it has read, and the status it wants the
\* project to have.
Session == [call : AllCalls \cup {"none"}, at : Points, e : Experts \cup {NoExpert},
            seen : AssignmentStatus \cup InvitationStatus \cup ProjectStatus,
            n : Nat, to : ProjectStatus]

At(call, point, e) ==
  [call |-> call, at |-> point, e |-> e, seen |-> "NONE", n |-> 0, to |-> "DRAFT"]

Idle == At("none", "idle", NoExpert)

TypeOK ==
  /\ status \in ProjectStatus
  /\ seatsRequested \in 1 .. MaxSeats
  /\ seatsFilled \in Nat
  /\ verified \subseteq Experts
  /\ invitation \in [Experts -> InvitationStatus]
  /\ assignment \in [Experts -> AssignmentStatus]
  /\ startJob \in [Experts -> JobStatus]
  /\ withdrawals \in [Experts -> Nat]
  /\ lock \in Sessions \cup {NoSession}
  /\ session \in [Sessions -> Session]

Init ==
  /\ status = "MATCHING"
  /\ seatsRequested \in 1 .. MaxSeats
  /\ seatsFilled = 0
  /\ verified = Experts
  /\ invitation = [e \in Experts |-> "NONE"]
  /\ assignment = [e \in Experts |-> "NONE"]
  /\ startJob = [e \in Experts |-> "NONE"]
  /\ withdrawals = [e \in Experts |-> 0]
  /\ lock = NoSession
  /\ session = [s \in Sessions |-> Idle]

-----------------------------------------------------------------------------
\* A request arrives at an idle session, beside those it may overlap with.
Busy(s) == session[s].at # "idle"
Arrives(s, call) ==
  /\ call \in Calls /\ ~Busy(s)
  /\ \A t \in Sessions \ {s} : Busy(t) => {call, session[t].call} \in Overlapping

\* The session moves on, remembering r; or is done.
Goes(s, r) == session' = [session EXCEPT ![s] = r]
Done(s)    == Goes(s, Idle)

\* The row lock: an UPDATE of the project row waits for it too.
Unlocked == lock = NoSession

-----------------------------------------------------------------------------
(***************************************************************************)
(* Project status.                                                         *)
(***************************************************************************)

\* The last thing several calls do: advanceProjectStatus to a status.
ThenAdvance(s, to) == Goes(s, [At(session[s].call, "advance", NoExpert) EXCEPT !.to = to])

\* advanceProjectStatus under the lock: one step.
Advanced(to) == IF to \in PROJECT_TRANSITIONS[status] THEN to ELSE status

\* advanceProjectStatus reads the status and skips an illegal move silently.
AdvanceRead(s) ==
  /\ session[s].at = "advance"
  /\ IF session[s].to \in PROJECT_TRANSITIONS[status]
     THEN Goes(s, [At(session[s].call, "statusWrite", NoExpert) EXCEPT !.to = session[s].to])
     ELSE Done(s)
  /\ UNCHANGED <<projectVars, expertVars, lock>>

\* setProjectStatus checks the transition, and ACTIVE against the seats.  The
\* project is taken to have a skill requirement.
StatusCall(to) == IF to = "ACTIVE" THEN "activate" ELSE "status"

StatusRead(s, to) ==
  /\ Arrives(s, StatusCall(to))
  /\ to \in PROJECT_TRANSITIONS[status]
  /\ to = "ACTIVE" => seatsFilled >= seatsRequested
  /\ Goes(s, [At(StatusCall(to), "statusWrite", NoExpert) EXCEPT !.to = to])
  /\ UNCHANGED <<projectVars, expertVars, lock>>

\* Both then update the row by id alone.
StatusWrite(s) ==
  /\ session[s].at = "statusWrite" /\ Unlocked
  /\ status' = session[s].to
  /\ Done(s)
  /\ UNCHANGED <<seatsRequested, seatsFilled, expertVars, lock>>

\* updateProject, as far as seats are concerned.
EditRead(s, n) ==
  /\ Arrives(s, "edit")
  /\ status \notin {"CLOSED", "CANCELLED"}
  /\ n >= seatsFilled
  /\ Goes(s, [At("edit", "edit", NoExpert) EXCEPT !.n = n])
  /\ UNCHANGED <<projectVars, expertVars, lock>>

EditWrite(s) ==
  /\ session[s].at = "edit" /\ Unlocked
  /\ seatsRequested' = session[s].n
  /\ Done(s)
  /\ UNCHANGED <<status, seatsFilled, expertVars, lock>>

-----------------------------------------------------------------------------
(***************************************************************************)
(* Invitations, as far as they decide who can be staffed and move the      *)
(* project.                                                                *)
(***************************************************************************)

\* createInvitation up to its read of the existing row, if there is one.
InviteCall(e) == IF invitation[e] = "NONE" THEN "invite" ELSE "reinvite"

InviteRead(s, e) ==
  /\ Arrives(s, InviteCall(e))
  /\ status \in OpenForInvitations
  /\ seatsFilled < seatsRequested
  /\ invitation[e] \in {"NONE", "WITHDRAWN"}
  /\ Goes(s, [At(InviteCall(e), "inviteWrite", e) EXCEPT !.seen = invitation[e]])
  /\ UNCHANGED <<projectVars, expertVars, lock>>

\* A second creation hits the unique index; a reopening updates by id alone.
InviteWrite(s) ==
  /\ session[s].at = "inviteWrite"
  /\ LET e == session[s].e IN
       IF session[s].seen = "NONE" /\ invitation[e] # "NONE"
       THEN Done(s) /\ UNCHANGED invitation
       ELSE /\ invitation' = [invitation EXCEPT ![e] = "SENT"]
            /\ ThenAdvance(s, "INVITING")
  /\ UNCHANGED <<projectVars, verified, assignment, startJob, withdrawals, lock>>

\* respondToInvitation claims the row with a conditional update.
Accept(s, e) ==
  /\ Arrives(s, "answer")
  /\ invitation[e] = "SENT"
  /\ invitation' = [invitation EXCEPT ![e] = "ACCEPTED"]
  /\ Goes(s, At("answer", "answerCount", e))
  /\ UNCHANGED <<projectVars, verified, assignment, startJob, withdrawals, lock>>

\* It then counts seats, and a project with one left hears about it.
AnswerCount(s) ==
  /\ session[s].at = "answerCount"
  /\ IF SeatsTaken < seatsRequested THEN ThenAdvance(s, "STAFFING") ELSE Done(s)
  /\ UNCHANGED <<projectVars, expertVars, lock>>

\* The invitation ends without an acceptance: declined, expired or withdrawn
\* by the operator, each a conditional update.
InvitationEnds(e) ==
  /\ "answer" \in Calls
  /\ invitation[e] = "SENT"
  /\ invitation' = [invitation EXCEPT ![e] = "WITHDRAWN"]
  /\ UNCHANGED <<projectVars, verified, assignment, startJob, withdrawals, lock, session>>

-----------------------------------------------------------------------------
(***************************************************************************)
(* Seats.                                                                  *)
(***************************************************************************)

\* proposeAssignment checks the project, the expert and the invitation ...
ProposeCheck(s, e) ==
  /\ Arrives(s, "propose")
  /\ status \in OpenForStaffing
  /\ e \in verified
  /\ invitation[e] = "ACCEPTED"
  /\ Goes(s, At("propose", "propose", e))
  /\ UNCHANGED <<projectVars, expertVars, lock>>

\* ... then reads the expert's assignment row, if there is one ...
ProposeRead(s) ==
  /\ session[s].at = "propose"
  /\ LET e == session[s].e IN
       IF assignment[e] \in {"NONE", "RELEASED"}
       THEN Goes(s, [At("propose", "proposeWrite", e) EXCEPT !.seen = assignment[e]])
       ELSE Done(s)
  /\ UNCHANGED <<projectVars, expertVars, lock>>

\* ... and creates it, unless the unique index objects, or revives it by id.
ProposeWrite(s) ==
  /\ session[s].at = "proposeWrite"
  /\ LET e == session[s].e IN
       assignment' = IF session[s].seen = "NONE" /\ assignment[e] # "NONE"
                     THEN assignment
                     ELSE [assignment EXCEPT ![e] = "PROPOSED"]
  /\ Done(s)
  /\ UNCHANGED <<projectVars, verified, invitation, startJob, withdrawals, lock>>

\* confirmAssignment reads the assignment before it asks for the lock.
ConfirmRead(s, e) ==
  /\ Arrives(s, "confirm")
  /\ assignment[e] = "PROPOSED"
  /\ Goes(s, At("confirm", "confirmLock", e))
  /\ UNCHANGED <<projectVars, expertVars, lock>>

\* Mutants of ConfirmLock: the reads are made without the lock; one too many.
ConfirmNoLock(s) ==
  /\ session[s].at = "confirmLock"
  /\ LET e == session[s].e IN
       IF status \in OpenForStaffing /\ e \in verified /\ SeatsTaken < seatsRequested
       THEN Goes(s, [At("confirm", "confirmWrite", e) EXCEPT !.n = SeatsTaken, !.seen = status])
       ELSE Done(s)
  /\ UNCHANGED <<projectVars, expertVars, lock>>

ConfirmOneMore(s) ==
  /\ session[s].at = "confirmLock" /\ Unlocked
  /\ LET e == session[s].e IN
       IF status \in OpenForStaffing /\ e \in verified /\ SeatsTaken <= seatsRequested
       THEN /\ lock' = s
            /\ Goes(s, [At("confirm", "confirmWrite", e) EXCEPT !.n = SeatsTaken, !.seen = status])
       ELSE Done(s) /\ UNCHANGED lock
  /\ UNCHANGED <<projectVars, expertVars>>

\* With the lock it reads the project and the expert again and counts seats.
ConfirmLock(s) ==
  /\ session[s].at = "confirmLock" /\ Unlocked
  /\ LET e == session[s].e IN
       IF status \in OpenForStaffing /\ e \in verified /\ SeatsTaken < seatsRequested
       THEN /\ lock' = s
            /\ Goes(s, [At("confirm", "confirmWrite", e) EXCEPT !.n = SeatsTaken, !.seen = status])
       ELSE Done(s) /\ UNCHANGED lock
  /\ UNCHANGED <<projectVars, expertVars>>

\* The claim of the PROPOSED row, the counter and the commit; an error when
\* the row is no longer PROPOSED.
ConfirmWrite(s) ==
  /\ session[s].at = "confirmWrite"
  /\ LET e == session[s].e IN
       IF assignment[e] = "PROPOSED"
       THEN /\ assignment' = [assignment EXCEPT ![e] = "CONFIRMED"]
            /\ seatsFilled' = session[s].n + 1
            /\ Goes(s, [At("confirm", "confirmEnqueue", e) EXCEPT !.to =
                 IF seatsFilled' >= seatsRequested /\ session[s].seen # "ACTIVE"
                 THEN "ACTIVE" ELSE @])
       ELSE Done(s) /\ UNCHANGED <<assignment, seatsFilled>>
  /\ lock' = NoSession
  /\ UNCHANGED <<status, seatsRequested, verified, invitation, startJob, withdrawals>>

\* After the commit: enqueue the start tasks, whose key has a row for ever once
\* it has been used, and advance the project if that was the last seat.
ConfirmEnqueue(s) ==
  /\ session[s].at = "confirmEnqueue"
  /\ LET e == session[s].e IN
       startJob' = [startJob EXCEPT ![e] = IF @ = "NONE" THEN "QUEUED" ELSE @]
  /\ IF session[s].to = "ACTIVE" THEN ThenAdvance(s, "ACTIVE") ELSE Done(s)
  /\ UNCHANGED <<projectVars, verified, invitation, assignment, withdrawals, lock>>

\* releaseAssignmentWithin reads the row, and the project's seatsRequested with
\* it, before it asks for the lock.
ReleaseRead(s, e) ==
  /\ Arrives(s, "release")
  /\ assignment[e] \in {"PROPOSED", "CONFIRMED"}
  /\ Goes(s, [At("release", "release", e) EXCEPT !.n = seatsRequested])
  /\ UNCHANGED <<projectVars, expertVars, lock>>

\* Mutants of Frees: the counter is decremented instead of recomputed; the
\* project is not told.
FreesByOne(e, n) ==
  /\ assignment' = [assignment EXCEPT ![e] = "RELEASED"]
  /\ seatsFilled' = seatsFilled - 1
  /\ status' = IF seatsFilled' < n THEN Advanced("STAFFING") ELSE status

FreesQuietly(e, n) ==
  /\ assignment' = [assignment EXCEPT ![e] = "RELEASED"]
  /\ seatsFilled' = Cardinality(Held \ {e})
  /\ UNCHANGED status

\* The seat is given back and the project says so: seatsFilled is counted
\* again, and compared with n.
Frees(e, n) ==
  /\ assignment' = [assignment EXCEPT ![e] = "RELEASED"]
  /\ seatsFilled' = Cardinality(Held \ {e})
  /\ status' = IF seatsFilled' < n THEN Advanced("STAFFING") ELSE status

ReleaseCommit(s) ==
  /\ session[s].at = "release" /\ Unlocked
  /\ LET e == session[s].e IN
       IF assignment[e] \in {"PROPOSED", "CONFIRMED"}
       THEN Frees(e, session[s].n)
       ELSE UNCHANGED <<assignment, seatsFilled, status>>
  /\ Done(s)
  /\ UNCHANGED <<seatsRequested, verified, invitation, startJob, withdrawals, lock>>

\* completeAssignment: a read, then an update by id.
CompleteRead(s, e) ==
  /\ Arrives(s, "complete")
  /\ assignment[e] = "CONFIRMED"
  /\ Goes(s, At("complete", "complete", e))
  /\ UNCHANGED <<projectVars, expertVars, lock>>

CompleteWrite(s) ==
  /\ session[s].at = "complete"
  /\ assignment' = [assignment EXCEPT ![session[s].e] = "COMPLETED"]
  /\ Done(s)
  /\ UNCHANGED <<projectVars, verified, invitation, startJob, withdrawals, lock>>

\* Mutant of Active: a seat that is only proposed is overlooked.
ActiveConfirmed(e) == assignment[e] = "CONFIRMED"

\* An expert with something to withdraw from.
Active(e)   == assignment[e] \in {"PROPOSED", "CONFIRMED"}
Standing(e) == Active(e) \/ invitation[e] = "ACCEPTED"

\* Mutant of WithdrawLock: the reads are made without the lock.
WithdrawNoLock(s, e) ==
  /\ Arrives(s, "withdraw")
  /\ Standing(e) /\ withdrawals[e] < MaxWithdrawals
  /\ Goes(s, [At("withdraw", "withdraw", e) EXCEPT
               !.seen = IF Active(e) THEN "CONFIRMED" ELSE "NONE"])
  /\ UNCHANGED <<projectVars, expertVars, lock>>

\* recordWithdrawal locks the project first and reads under the lock.  A repeat
\* finds no standing and changes nothing.
WithdrawLock(s, e) ==
  /\ Arrives(s, "withdraw") /\ Unlocked
  /\ Standing(e) /\ withdrawals[e] < MaxWithdrawals
  /\ lock' = s
  /\ Goes(s, [At("withdraw", "withdraw", e) EXCEPT
               !.seen = IF Active(e) THEN "CONFIRMED" ELSE "NONE"])
  /\ UNCHANGED <<projectVars, expertVars>>

\* Everything else of a withdrawal is one commit: the seat, the invitation, the
\* event, and the status of a project that is no longer full.  An assignment
\* completed meanwhile can not be released and undoes it all.
WithdrawCommit(s) ==
  /\ session[s].at = "withdraw"
  /\ LET e == session[s].e IN
       IF session[s].seen = "CONFIRMED" /\ ~Active(e)
       THEN UNCHANGED <<status, seatsFilled, invitation, assignment, withdrawals>>
       ELSE /\ IF session[s].seen = "CONFIRMED"
               THEN Frees(e, seatsRequested)
               ELSE /\ status' = IF seatsFilled < seatsRequested
                                 THEN Advanced("STAFFING") ELSE status
                    /\ UNCHANGED <<assignment, seatsFilled>>
            /\ invitation' = [invitation EXCEPT ![e] = IF @ = "ACCEPTED" THEN "WITHDRAWN" ELSE @]
            /\ withdrawals' = [withdrawals EXCEPT ![e] = @ + 1]
  /\ lock' = NoSession
  /\ Done(s)
  /\ UNCHANGED <<seatsRequested, verified, startJob>>

-----------------------------------------------------------------------------
\* The worker runs the start tasks; a seat released by then is skipped.
StartTasks(e) ==
  /\ startJob[e] = "QUEUED"
  /\ startJob' = [startJob EXCEPT ![e] =
       IF assignment[e] = "CONFIRMED" THEN "DONE" ELSE "SKIPPED"]
  /\ UNCHANGED <<projectVars, verified, invitation, assignment, withdrawals, lock, session>>

\* Onboarding verifies an expert, or has the checklist reopened.
Reverify(e) ==
  /\ verified' = IF e \in verified THEN verified \ {e} ELSE verified \cup {e}
  /\ UNCHANGED <<projectVars, invitation, assignment, startJob, withdrawals, lock, session>>

\* The server process dies, or the connection does.
Crash(s) ==
  /\ MayCrash /\ Busy(s)
  /\ Done(s)
  /\ lock' = IF lock = s THEN NoSession ELSE lock
  /\ UNCHANGED <<projectVars, expertVars>>

\* The next step of a request in progress.
Continue(s) ==
  \/ AdvanceRead(s) \/ StatusWrite(s) \/ EditWrite(s)
  \/ InviteWrite(s) \/ AnswerCount(s)
  \/ ProposeRead(s) \/ ProposeWrite(s)
  \/ ConfirmLock(s) \/ ConfirmWrite(s) \/ ConfirmEnqueue(s)
  \/ ReleaseCommit(s) \/ CompleteWrite(s) \/ WithdrawCommit(s)

Request(s) ==
  \/ \E to \in ProjectStatus : StatusRead(s, to)
  \/ \E n \in 1 .. MaxSeats : EditRead(s, n)
  \/ \E e \in Experts : \/ InviteRead(s, e) \/ Accept(s, e)
                        \/ ProposeCheck(s, e) \/ ConfirmRead(s, e)
                        \/ ReleaseRead(s, e) \/ CompleteRead(s, e)
                        \/ WithdrawLock(s, e)

Next ==
  \/ \E s \in Sessions : Request(s) \/ Continue(s) \/ Crash(s)
  \/ \E e \in Experts : InvitationEnds(e) \/ StartTasks(e) \/ Reverify(e)

Spec == Init /\ [][Next]_vars

\* Refinement mapping: what is held are the seats themselves, not the counter.
Pool == INSTANCE SeatPool WITH held <- Held, capacity <- seatsRequested

-----------------------------------------------------------------------------
(***************************************************************************)
(* Properties.                                                             *)
(***************************************************************************)

\* Whoever races whom, seats taken never exceed seats requested, as long as
\* nobody edits the number (confirmAssignment: "exactly one success and one
\* CAPACITY_EXCEEDED").
CapacityHeld == SeatsTaken <= seatsRequested

\* The stored counter errs on the safe side only: no interleaving makes it
\* smaller than the seats really taken, so the guards that read it never let
\* one through too many.
FilledCoversTaken == SeatsTaken <= seatsFilled

\* A seat is only ever taken while one is free, even as operators edit the
\* number, release, withdraw and re-propose at the same time.
ImplementsPool == Pool!Spec

\* One event for each time an expert leaves: it is recorded by a step that ends
\* a standing the expert still had, so a double click or a retry adds none.
WithdrawalOnce ==
  [][\A e \in Experts :
       withdrawals'[e] # withdrawals[e] =>
         withdrawals'[e] = withdrawals[e] + 1 /\ Standing(e) /\ invitation'[e] # "ACCEPTED"]_vars

\* ACTIVE means all seats filled ("ACTIVE: All seats filled",
\* docs/workflow-states.md).
ActiveIsFull == status = "ACTIVE" => SeatsTaken >= seatsRequested

\* seatsFilled is the number of rows that take a seat.
FilledIsTaken == seatsFilled = SeatsTaken

\* Whoever holds a confirmed seat has an accepted invitation.
ConfirmedAccepted ==
  \A e \in Experts : assignment[e] = "CONFIRMED" => invitation[e] = "ACCEPTED"

\* Status, counter, invitations and seats agree, also while requests are in
\* progress.
RowsAgree == ActiveIsFull /\ FilledIsTaken /\ ConfirmedAccepted

\* The pairs that break this, by the part they break: what one has read is no
\* longer so when it writes by id, or when it makes the project ACTIVE.
BreakCount      == {{"propose"}} \cup {{leaves, "complete"} : leaves \in {"release", "withdraw"}}
BreakAcceptance == {{"propose", "withdraw"}, {"reinvite"}}
BreakStatus     == {{leaves, fills} : leaves \in {"release", "withdraw"}, fills \in {"confirm", "activate"}}
Conflicting     == BreakCount \cup BreakAcceptance \cup BreakStatus

\* CLOSED and CANCELLED are terminal.
TerminalStays ==
  [][(status \in {"CLOSED", "CANCELLED"}) => (status' = status)]_vars

Quiet == \A s \in Sessions : ~Busy(s)

\* A full project that was open for staffing has become ACTIVE.
FullIsActive ==
  Quiet /\ status \in OpenForStaffing /\ SeatsTaken >= seatsRequested => status = "ACTIVE"

\* The confirmation of e's seat has still to enqueue its job.
Enqueues(e) == \E s \in Sessions : session[s].at = "confirmEnqueue" /\ session[s].e = e

\* Confirming a seat schedules its start tasks: the job of a confirmed seat has
\* not been spent on an earlier seat of the same expert that was given back.
StartTasksNotSpent ==
  \A e \in Experts :
    assignment[e] = "CONFIRMED" /\ ~Enqueues(e) => startJob[e] # "SKIPPED"

=============================================================================
