--------------------------- MODULE StaffingProofs ---------------------------
(***************************************************************************)
(* What Staffing promises, for any number of experts, sessions and seats,  *)
(* and whichever calls may overlap: the counter never understates the      *)
(* seats taken, and a seat is only taken while one is free; as long as no  *)
(* two requests in progress are a pair of Conflicting, the rows agree at   *)
(* every moment; and a withdrawal is recorded once.                        *)
(***************************************************************************)
EXTENDS Staffing, FiniteSetTheorems, TLAPS

-----------------------------------------------------------------------------
(***************************************************************************)
(* Types.                                                                  *)
(***************************************************************************)

Callers == AllCalls \cup {"none"}

\* Steps that are about an expert.
Personal == {"propose", "proposeWrite", "confirmLock", "confirmWrite", "confirmEnqueue",
             "release", "complete", "withdraw", "inviteWrite", "answerCount"}

\* What a step finds in its session was put there by the step before it.
Fits(r) == /\ r.at \in Personal => r.e \in Experts
           /\ r.at = "edit" => r.n \in 1 .. MaxSeats

SessionsFit == \A s \in Sessions : Fits(session[s])

Typed == TypeOK /\ SessionsFit

LEMMA AtFields ==
  ASSUME NEW call \in Callers, NEW point \in Points, NEW e \in Experts \cup {NoExpert}
  PROVE  /\ At(call, point, e) \in Session
         /\ At(call, point, e).at = point /\ At(call, point, e).e = e /\ At(call, point, e).n = 0
BY DEF At, Session, Callers, AssignmentStatus, InvitationStatus, ProjectStatus

LEMMA IdleFits == Idle \in Session /\ Fits(Idle) /\ Idle.at = "idle"
<1>1. "idle" \in Points /\ "idle" \notin Personal /\ "none" \in Callers
  BY DEF Points, Personal, Callers
<1> QED
  BY <1>1, AtFields DEF Idle, Fits

\* A session that goes on about an expert.
LEMMA PersonalFits ==
  ASSUME NEW call \in Callers, NEW point \in Personal, NEW e \in Experts
  PROVE  /\ At(call, point, e) \in Session /\ Fits(At(call, point, e)) /\ At(call, point, e).at = point
         /\ \A x \in AssignmentStatus \cup InvitationStatus \cup ProjectStatus :
              LET r == [At(call, point, e) EXCEPT !.seen = x]
              IN  r \in Session /\ Fits(r) /\ r.at = point
         /\ \A to \in ProjectStatus :
              LET r == [At(call, point, e) EXCEPT !.to = to]
              IN  r \in Session /\ Fits(r) /\ r.at = point
         /\ \A k \in Nat :
              LET r == [At(call, point, e) EXCEPT !.n = k]
              IN  r \in Session /\ Fits(r) /\ r.at = point /\ r.n = k
         /\ \A k \in Nat, x \in ProjectStatus :
              LET r == [At(call, point, e) EXCEPT !.n = k, !.seen = x]
              IN  r \in Session /\ Fits(r) /\ r.at = point /\ r.n = k /\ r.e = e
<1>1. point \in Points /\ point # "edit"
  BY DEF Personal, Points
<1>2. At(call, point, e) \in Session /\ At(call, point, e).at = point /\ At(call, point, e).e = e
  BY <1>1, AtFields
<1>3. ASSUME NEW r \in Session, r.at = point, r.e = e
      PROVE  Fits(r)
  BY <1>1, <1>3 DEF Fits
<1> DEFINE Statuses == AssignmentStatus \cup InvitationStatus \cup ProjectStatus
<1> HIDE DEF Statuses
<1>4. ASSUME NEW r \in Session, NEW x \in Statuses
      PROVE  LET q == [r EXCEPT !.seen = x]
             IN  q \in Session /\ q.at = r.at /\ q.e = r.e /\ q.n = r.n
  BY DEF Session, Statuses
<1>5. ASSUME NEW r \in Session, NEW to \in ProjectStatus
      PROVE  LET q == [r EXCEPT !.to = to]
             IN  q \in Session /\ q.at = r.at /\ q.e = r.e
  BY DEF Session
<1>6. ASSUME NEW r \in Session, NEW k \in Nat
      PROVE  LET q == [r EXCEPT !.n = k]
             IN  q \in Session /\ q.at = r.at /\ q.e = r.e /\ q.n = k
  BY DEF Session
<1>7. ASSUME NEW x \in Statuses
      PROVE  LET r == [At(call, point, e) EXCEPT !.seen = x]
             IN  r \in Session /\ Fits(r) /\ r.at = point
  BY <1>2, <1>3, <1>4
<1>8. ASSUME NEW to \in ProjectStatus
      PROVE  LET r == [At(call, point, e) EXCEPT !.to = to]
             IN  r \in Session /\ Fits(r) /\ r.at = point
  BY <1>2, <1>3, <1>5
<1>9. ASSUME NEW k \in Nat
      PROVE  LET r == [At(call, point, e) EXCEPT !.n = k]
             IN  r \in Session /\ Fits(r) /\ r.at = point /\ r.n = k
  BY <1>2, <1>3, <1>6
<1>10. ASSUME NEW k \in Nat, NEW x \in ProjectStatus
       PROVE  LET r == [At(call, point, e) EXCEPT !.n = k, !.seen = x]
              IN  r \in Session /\ Fits(r) /\ r.at = point /\ r.n = k /\ r.e = e
  <2> DEFINE q == [At(call, point, e) EXCEPT !.n = k]
             r == [At(call, point, e) EXCEPT !.n = k, !.seen = x]
  <2>1. r = [q EXCEPT !.seen = x]
    BY <1>2 DEF Session
  <2>2. q \in Session /\ q.at = point /\ q.e = e /\ q.n = k
    BY <1>2, <1>6
  <2>3. r \in Session /\ r.at = point /\ r.e = e /\ r.n = k
    BY <2>1, <2>2, <1>4 DEF Statuses
  <2> QED
    BY <2>3, <1>3
<1> QED
  BY <1>2, <1>3, <1>7, <1>8, <1>9, <1>10 DEF Statuses

LEMMA StatusFits ==
  ASSUME NEW call \in Callers, NEW to \in ProjectStatus, NEW point \in {"advance", "statusWrite"}
  PROVE  LET r == [At(call, point, NoExpert) EXCEPT !.to = to]
         IN  r \in Session /\ Fits(r) /\ r.at = point
<1>1. point \in Points /\ point # "edit" /\ point \notin Personal
  BY DEF Personal, Points
<1> QED
  BY <1>1, AtFields DEF Fits, Session

LEMMA EditFits ==
  ASSUME NEW k \in 1 .. MaxSeats
  PROVE  LET r == [At("edit", "edit", NoExpert) EXCEPT !.n = k]
         IN  r \in Session /\ Fits(r) /\ r.at = "edit"
<1>1. "edit" \in Points /\ "edit" \notin Personal /\ "edit" \in Callers /\ k \in Nat
  BY DEF Personal, Points, Callers, AllCalls
<1> QED
  BY <1>1, AtFields DEF Fits, Session

\* How the sessions change in a step: one of them goes on to r, or none does.
SessionStep ==
  \/ UNCHANGED session
  \/ \E s \in Sessions, r \in Session : Goes(s, r) /\ Fits(r)

LEMMA SessionStepTyped ==
  ASSUME Typed, SessionStep
  PROVE  session' \in [Sessions -> Session] /\ SessionsFit'
BY DEF Typed, TypeOK, SessionStep, Goes, SessionsFit, Fits

\* TypeOK without the sessions.
Stored ==
  /\ status \in ProjectStatus
  /\ seatsRequested \in 1 .. MaxSeats
  /\ seatsFilled \in Nat
  /\ verified \subseteq Experts
  /\ invitation \in [Experts -> InvitationStatus]
  /\ assignment \in [Experts -> AssignmentStatus]
  /\ startJob \in [Experts -> JobStatus]
  /\ withdrawals \in [Experts -> Nat]
  /\ lock \in Sessions \cup {NoSession}

LEMMA HeldFinite ==
  /\ IsFiniteSet(Held) /\ SeatsTaken \in Nat
  /\ \A e : IsFiniteSet(Held \ {e}) /\ Cardinality(Held \ {e}) \in Nat
<1>1. \A S : S \subseteq Experts => IsFiniteSet(S) /\ Cardinality(S) \in Nat
  BY StaffingAssumption, FS_Subset, FS_CardinalityType
<1> QED
  BY <1>1 DEF Held, SeatsTaken

LEMMA FreesTyped ==
  ASSUME Stored, NEW e \in Experts, NEW n \in Nat, Frees(e, n)
  PROVE  /\ status' \in ProjectStatus /\ seatsFilled' \in Nat
         /\ assignment' \in [Experts -> AssignmentStatus]
<1>1. Advanced("STAFFING") \in ProjectStatus
  BY DEF Stored, Advanced, ProjectStatus
<1> QED
  BY <1>1, HeldFinite DEF Stored, Frees, AssignmentStatus

LEMMA TypedStep == Typed /\ [Next]_vars => Typed'
<1> SUFFICES ASSUME Typed, [Next]_vars
             PROVE  Typed'
  OBVIOUS
<1> DEFINE Goal == Stored' /\ SessionStep
<1>0. /\ Stored /\ session \in [Sessions -> Session] /\ SessionsFit
      /\ \A s \in Sessions : /\ session[s] \in Session /\ session[s].n \in Nat
                             /\ session[s].to \in ProjectStatus /\ session[s].call \in Callers
                             /\ session[s].at \in Personal => session[s].e \in Experts
                             /\ session[s].at = "edit" => session[s].n \in 1 .. MaxSeats
  BY DEF Typed, TypeOK, Stored, SessionsFit, Fits, Session, Callers
<1>c. /\ AllCalls \subseteq Callers
      /\ {"propose", "confirm", "release", "complete", "withdraw", "answer"} \subseteq Callers
      /\ \A e : InviteCall(e) \in Callers
      /\ \A to : StatusCall(to) \in Callers
  BY DEF Callers, AllCalls, InviteCall, StatusCall
<1>d. ASSUME NEW s \in Sessions, Done(s)
      PROVE  SessionStep
  BY <1>d, IdleFits DEF Done, SessionStep
<1>a. ASSUME NEW s \in Sessions, NEW to \in ProjectStatus, ThenAdvance(s, to)
      PROVE  SessionStep
  BY <1>0, <1>a, StatusFits DEF ThenAdvance, SessionStep
<1>g. ASSUME NEW s \in Sessions, NEW r \in Session, Fits(r), Goes(s, r)
      PROVE  SessionStep
  BY <1>g DEF SessionStep
<1>1. ASSUME NEW s \in Sessions, AdvanceRead(s)
      PROVE  Goal
  <2>1. Stored'
    BY <1>0, <1>1 DEF AdvanceRead, Stored, projectVars, expertVars
  <2>2. SessionStep
    BY <1>0, <1>1, <1>d, <1>c, StatusFits DEF AdvanceRead, SessionStep
  <2> QED
    BY <2>1, <2>2
<1>2. ASSUME NEW s \in Sessions, NEW to \in ProjectStatus, StatusRead(s, to)
      PROVE  Goal
  BY <1>0, <1>2, <1>c, StatusFits DEF StatusRead, Stored, SessionStep, projectVars, expertVars
<1>3. ASSUME NEW s \in Sessions, StatusWrite(s)
      PROVE  Goal
  BY <1>0, <1>3, <1>d DEF StatusWrite, Stored, expertVars
<1>4. ASSUME NEW s \in Sessions, NEW n \in 1 .. MaxSeats, EditRead(s, n)
      PROVE  Goal
  BY <1>0, <1>4, EditFits DEF EditRead, Stored, SessionStep, projectVars, expertVars
<1>5. ASSUME NEW s \in Sessions, EditWrite(s)
      PROVE  Goal
  BY <1>0, <1>5, <1>d DEF EditWrite, Stored, expertVars
<1>6. ASSUME NEW s \in Sessions, NEW e \in Experts, InviteRead(s, e)
      PROVE  Goal
  <2> DEFINE x == invitation[e]
  <2>1. x \in InvitationStatus /\ "inviteWrite" \in Personal
    BY <1>0 DEF Stored, Personal
  <2>2. Goes(s, [At(InviteCall(e), "inviteWrite", e) EXCEPT !.seen = x])
    BY <1>6 DEF InviteRead
  <2> HIDE DEF x
  <2>3. SessionStep
    <3>1. PICK call \in Callers : call = InviteCall(e)
      BY <1>c
    <3>2. Goes(s, [At(call, "inviteWrite", e) EXCEPT !.seen = x])
      BY <2>2, <3>1
    <3> QED
      BY <2>1, <3>2, <1>g, PersonalFits
  <2> QED
    BY <1>0, <1>6, <2>3 DEF InviteRead, Stored, projectVars, expertVars
<1>7. ASSUME NEW s \in Sessions, InviteWrite(s)
      PROVE  Goal
  <2>1. session[s].e \in Experts /\ "INVITING" \in ProjectStatus /\ "SENT" \in InvitationStatus
    BY <1>0, <1>7 DEF InviteWrite, Personal, ProjectStatus, InvitationStatus
  <2>2. SessionStep
    BY <1>7, <2>1, <1>a, <1>d DEF InviteWrite
  <2> QED
    BY <1>0, <1>7, <2>1, <2>2 DEF InviteWrite, Stored, projectVars
<1>8. ASSUME NEW s \in Sessions, NEW e \in Experts, Accept(s, e)
      PROVE  Goal
  <2>1. "answerCount" \in Personal /\ "ACCEPTED" \in InvitationStatus
    BY DEF Personal, InvitationStatus
  <2> QED
    BY <1>0, <1>8, <2>1, <1>c, PersonalFits DEF Accept, Stored, SessionStep, projectVars
<1>9. ASSUME NEW s \in Sessions, AnswerCount(s)
      PROVE  Goal
  <2>1. "STAFFING" \in ProjectStatus
    BY DEF ProjectStatus
  <2> QED
    BY <1>0, <1>9, <2>1, <1>a, <1>d DEF AnswerCount, Stored, projectVars, expertVars
<1>10. ASSUME NEW e \in Experts, InvitationEnds(e)
       PROVE  Goal
  BY <1>0, <1>10 DEF InvitationEnds, Stored, SessionStep, projectVars, InvitationStatus
<1>11. ASSUME NEW s \in Sessions, NEW e \in Experts, ProposeCheck(s, e)
       PROVE  Goal
  <2>1. "propose" \in Personal
    BY DEF Personal
  <2> QED
    BY <1>0, <1>11, <2>1, <1>c, PersonalFits
       DEF ProposeCheck, Stored, SessionStep, projectVars, expertVars
<1>12. ASSUME NEW s \in Sessions, ProposeRead(s)
       PROVE  Goal
  <2> DEFINE e == session[s].e
             x == assignment[e]
  <2>1. e \in Experts /\ "proposeWrite" \in Personal /\ x \in AssignmentStatus
    BY <1>0, <1>12 DEF ProposeRead, Personal, Stored
  <2>2. Goes(s, [At("propose", "proposeWrite", e) EXCEPT !.seen = x]) \/ Done(s)
    BY <1>12 DEF ProposeRead
  <2> HIDE DEF e, x
  <2>3. SessionStep
    <3> DEFINE r == [At("propose", "proposeWrite", e) EXCEPT !.seen = x]
    <3>1. r \in Session /\ Fits(r)
      BY <2>1, <1>c, PersonalFits
    <3>2. CASE Done(s)
      BY <3>2, <1>d
    <3>3. CASE Goes(s, r)
      BY <3>1, <3>3, <1>g
    <3> QED
      BY <2>2, <3>2, <3>3
  <2> QED
    BY <1>0, <1>12, <2>3 DEF ProposeRead, Stored, projectVars, expertVars
<1>13. ASSUME NEW s \in Sessions, ProposeWrite(s)
       PROVE  Goal
  <2>1. session[s].e \in Experts /\ "PROPOSED" \in AssignmentStatus
    BY <1>0, <1>13 DEF ProposeWrite, Personal, AssignmentStatus
  <2> QED
    BY <1>0, <1>13, <2>1, <1>d DEF ProposeWrite, Stored, projectVars
<1>14. ASSUME NEW s \in Sessions, NEW e \in Experts, ConfirmRead(s, e)
       PROVE  Goal
  <2>1. "confirmLock" \in Personal
    BY DEF Personal
  <2> QED
    BY <1>0, <1>14, <2>1, <1>c, PersonalFits
       DEF ConfirmRead, Stored, SessionStep, projectVars, expertVars
<1>15. ASSUME NEW s \in Sessions, ConfirmLock(s)
       PROVE  Goal
  <2> DEFINE e == session[s].e
  <2>1. /\ e \in Experts /\ "confirmWrite" \in Personal
        /\ status \in ProjectStatus /\ SeatsTaken \in Nat
    BY <1>0, <1>15, HeldFinite DEF ConfirmLock, Personal, Stored
  <2>2. Goes(s, [At("confirm", "confirmWrite", e) EXCEPT !.n = SeatsTaken, !.seen = status]) \/ Done(s)
    BY <1>15 DEF ConfirmLock
  <2> HIDE DEF e
  <2>3. SessionStep
    <3> DEFINE r == [At("confirm", "confirmWrite", e) EXCEPT !.n = SeatsTaken, !.seen = status]
    <3>1. r \in Session /\ Fits(r)
      BY <2>1, <1>c, PersonalFits
    <3>2. CASE Done(s)
      BY <3>2, <1>d
    <3>3. CASE Goes(s, r)
      BY <3>1, <3>3, <1>g
    <3> QED
      BY <2>2, <3>2, <3>3
  <2> QED
    BY <1>0, <1>15, <2>3 DEF ConfirmLock, Stored, projectVars, expertVars
<1>16. ASSUME NEW s \in Sessions, ConfirmWrite(s)
       PROVE  Goal
  <2> DEFINE e == session[s].e
  <2>1. /\ e \in Experts /\ "confirmEnqueue" \in Personal /\ "CONFIRMED" \in AssignmentStatus
        /\ "ACTIVE" \in ProjectStatus /\ "DRAFT" \in ProjectStatus /\ session[s].n \in Nat
    BY <1>0, <1>16 DEF ConfirmWrite, Personal, AssignmentStatus, ProjectStatus
  <2>2. CASE assignment[e] = "PROPOSED"
    <3>1. At("confirm", "confirmEnqueue", e).to = "DRAFT"
      BY DEF At
    <3>2. PICK to \in ProjectStatus : Goes(s, [At("confirm", "confirmEnqueue", e) EXCEPT !.to = to])
      BY <1>16, <2>1, <2>2, <3>1 DEF ConfirmWrite
    <3>3. SessionStep
      BY <2>1, <3>2, <1>c, PersonalFits DEF SessionStep
    <3> QED
      BY <1>0, <1>16, <2>1, <2>2, <3>3 DEF ConfirmWrite, Stored
  <2>3. CASE assignment[e] # "PROPOSED"
    BY <1>0, <1>16, <2>3, <1>d DEF ConfirmWrite, Stored
  <2> QED
    BY <2>2, <2>3
<1>17. ASSUME NEW s \in Sessions, ConfirmEnqueue(s)
       PROVE  Goal
  <2>1. session[s].e \in Experts /\ "ACTIVE" \in ProjectStatus /\ "QUEUED" \in JobStatus
    BY <1>0, <1>17 DEF ConfirmEnqueue, Personal, ProjectStatus, JobStatus
  <2>2. SessionStep
    BY <1>17, <2>1, <1>a, <1>d DEF ConfirmEnqueue
  <2>3. startJob' \in [Experts -> JobStatus]
    BY <1>0, <1>17, <2>1 DEF ConfirmEnqueue, Stored
  <2> QED
    BY <1>0, <1>17, <2>2, <2>3 DEF ConfirmEnqueue, Stored, projectVars
<1>18. ASSUME NEW s \in Sessions, NEW e \in Experts, ReleaseRead(s, e)
       PROVE  Goal
  <2>1. "release" \in Personal /\ seatsRequested \in Nat
    BY <1>0 DEF Personal, Stored
  <2>2. Goes(s, [At("release", "release", e) EXCEPT !.n = seatsRequested])
    BY <1>18 DEF ReleaseRead
  <2>3. SessionStep
    <3>1. "release" \in Callers
      BY <1>c
    <3> QED
      BY <2>1, <2>2, <3>1, <1>g, PersonalFits
  <2> QED
    BY <1>0, <1>18, <2>3 DEF ReleaseRead, Stored, projectVars, expertVars
<1>19. ASSUME NEW s \in Sessions, ReleaseCommit(s)
       PROVE  Goal
  <2>1. session[s].e \in Experts /\ session[s].n \in Nat
    BY <1>0, <1>19 DEF ReleaseCommit, Personal
  <2>2. /\ status' \in ProjectStatus /\ seatsFilled' \in Nat
        /\ assignment' \in [Experts -> AssignmentStatus]
    <3>1. CASE Frees(session[s].e, session[s].n)
      BY <1>0, <2>1, <3>1, FreesTyped
    <3>2. CASE UNCHANGED <<assignment, seatsFilled, status>>
      BY <1>0, <3>2 DEF Stored
    <3> QED
      BY <1>19, <3>1, <3>2 DEF ReleaseCommit
  <2> QED
    BY <1>0, <1>19, <2>2, <1>d DEF ReleaseCommit, Stored
<1>20. ASSUME NEW s \in Sessions, NEW e \in Experts, CompleteRead(s, e)
       PROVE  Goal
  <2>1. "complete" \in Personal
    BY DEF Personal
  <2> QED
    BY <1>0, <1>20, <2>1, <1>c, PersonalFits
       DEF CompleteRead, Stored, SessionStep, projectVars, expertVars
<1>21. ASSUME NEW s \in Sessions, CompleteWrite(s)
       PROVE  Goal
  <2>1. "COMPLETED" \in AssignmentStatus
    BY DEF AssignmentStatus
  <2> QED
    BY <1>0, <1>21, <2>1, <1>d DEF CompleteWrite, Stored, projectVars
<1>22. ASSUME NEW s \in Sessions, NEW e \in Experts, WithdrawLock(s, e)
       PROVE  Goal
  <2> DEFINE x == IF Active(e) THEN "CONFIRMED" ELSE "NONE"
  <2>1. "withdraw" \in Personal /\ x \in AssignmentStatus
    BY DEF Personal, AssignmentStatus
  <2>2. Goes(s, [At("withdraw", "withdraw", e) EXCEPT !.seen = x])
    BY <1>22 DEF WithdrawLock
  <2> HIDE DEF x
  <2>3. SessionStep
    BY <2>1, <2>2, <1>c, PersonalFits DEF SessionStep
  <2> QED
    BY <1>0, <1>22, <2>3 DEF WithdrawLock, Stored, projectVars, expertVars
<1>23. ASSUME NEW s \in Sessions, WithdrawCommit(s)
       PROVE  Goal
  <2> DEFINE e == session[s].e
  <2>1. e \in Experts /\ seatsRequested \in Nat /\ "WITHDRAWN" \in InvitationStatus
    BY <1>0, <1>23 DEF WithdrawCommit, Personal, Stored, InvitationStatus
  <2>2. CASE UNCHANGED <<status, seatsFilled, invitation, assignment, withdrawals>>
    BY <1>0, <1>23, <2>2, <1>d DEF WithdrawCommit, Stored
  <2>3. CASE Frees(e, seatsRequested) \/ UNCHANGED <<assignment, seatsFilled>>
    <3>1. status' \in ProjectStatus
      BY <1>0, <1>23, FreesTyped, <2>1 DEF WithdrawCommit, Stored, Advanced, ProjectStatus
    <3>2. seatsFilled' \in Nat /\ assignment' \in [Experts -> AssignmentStatus]
      BY <1>0, <2>1, <2>3, FreesTyped DEF Stored
    <3>3. /\ invitation' \in [Experts -> InvitationStatus]
          /\ withdrawals' \in [Experts -> Nat]
      BY <1>0, <1>23, <2>1 DEF WithdrawCommit, Stored
    <3> QED
      BY <1>0, <1>23, <3>1, <3>2, <3>3, <1>d DEF WithdrawCommit, Stored
  <2> QED
    BY <1>23, <2>2, <2>3 DEF WithdrawCommit
<1>24. ASSUME NEW e \in Experts, StartTasks(e)
       PROVE  Goal
  BY <1>0, <1>24 DEF StartTasks, Stored, SessionStep, projectVars, JobStatus
<1>25. ASSUME NEW e \in Experts, Reverify(e)
       PROVE  Goal
  BY <1>0, <1>25 DEF Reverify, Stored, SessionStep, projectVars
<1>26. ASSUME NEW s \in Sessions, Crash(s)
       PROVE  Goal
  BY <1>0, <1>26, <1>d DEF Crash, Stored, projectVars, expertVars
<1>27. ASSUME UNCHANGED vars
       PROVE  Goal
  BY <1>0, <1>27 DEF vars, Stored, SessionStep, projectVars, expertVars
<1> HIDE DEF Goal
<1>28. ASSUME NEW s \in Sessions, Request(s)
       PROVE  Goal
  BY <1>28, <1>2, <1>4, <1>6, <1>8, <1>11, <1>14, <1>18, <1>20, <1>22 DEF Request
<1>29. ASSUME NEW s \in Sessions, Continue(s)
       PROVE  Goal
  BY <1>29, <1>1, <1>3, <1>5, <1>7, <1>9, <1>12, <1>13, <1>15, <1>16, <1>17, <1>19, <1>21, <1>23
     DEF Continue
<1>30. Goal
  BY <1>10, <1>24, <1>25, <1>26, <1>27, <1>28, <1>29 DEF Next
<1> QED
  BY <1>30, SessionStepTyped DEF Goal, Stored, Typed, TypeOK

LEMMA TypedInit == Init => Typed
<1>1. \A e \in Experts : "NONE" \in InvitationStatus /\ "NONE" \in AssignmentStatus /\ "NONE" \in JobStatus
  BY DEF InvitationStatus, AssignmentStatus, JobStatus
<1> QED
  BY <1>1, IdleFits DEF Init, Typed, TypeOK, SessionsFit, ProjectStatus

\* Every variable keeps its type, and a session in the middle of a call knows
\* the expert, or the number of seats, the call is about.
THEOREM TypeCorrect == Spec => []TypeOK
BY TypedInit, TypedStep, PTL DEF Spec, Typed

-----------------------------------------------------------------------------
(***************************************************************************)
(* Calls in progress: which call a session serves at each point, which     *)
(* calls there are at the same time, and who holds the project's row.      *)
(***************************************************************************)
Locked == {"confirmWrite", "withdraw"}

\* A point belongs to a call that is made.
Serves(r) ==
  /\ r.at # "idle" => r.call \in Calls
  /\ r.at \in {"propose", "proposeWrite"} => r.call = "propose"
  /\ r.at \in {"confirmLock", "confirmWrite", "confirmEnqueue"} => r.call = "confirm"
  /\ r.at \in {"release", "complete", "withdraw", "edit"} => r.call = r.at
  /\ r.at = "inviteWrite" => \/ r.call = "invite" /\ r.seen = "NONE"
                             \/ r.call = "reinvite" /\ r.seen = "WITHDRAWN"
  /\ r.at \in {"advance", "statusWrite"} /\ r.to = "ACTIVE" => r.call \in {"confirm", "activate"}

Served == \A s \in Sessions : Serves(session[s])

Disciplined ==
  \A s, t \in Sessions :
    s # t /\ Busy(s) /\ Busy(t) => {session[s].call, session[t].call} \in Overlapping

LockHeld == \A s \in Sessions : session[s].at \in Locked => lock = s

InProgress == Typed /\ Served /\ Disciplined /\ LockHeld

\* A session goes on to r: it is done, or a call arrives, or goes on.
Continues(s, r) ==
  /\ Goes(s, r) /\ Serves(r)
  /\ r.at = "idle" \/ Arrives(s, r.call) \/ (Busy(s) /\ r.call = session[s].call)
  /\ r.at \in Locked => lock' = s
  /\ lock' = lock \/ lock \in {s, NoSession}

LEMMA Remembered ==
  ASSUME NEW call, NEW point, NEW e, NEW x, NEW y
  PROVE  /\ LET r == At(call, point, e)
            IN  r.call = call /\ r.at = point /\ r.e = e /\ r.seen = "NONE" /\ r.to = "DRAFT"
         /\ LET r == [At(call, point, e) EXCEPT !.seen = x]
            IN  r.call = call /\ r.at = point /\ r.e = e /\ r.seen = x /\ r.to = "DRAFT"
         /\ LET r == [At(call, point, e) EXCEPT !.to = x]
            IN  r.call = call /\ r.at = point /\ r.e = e /\ r.seen = "NONE" /\ r.to = x
         /\ LET r == [At(call, point, e) EXCEPT !.n = x]
            IN  r.call = call /\ r.at = point /\ r.e = e /\ r.n = x /\ r.to = "DRAFT"
         /\ LET r == [At(call, point, e) EXCEPT !.n = x, !.seen = y]
            IN  r.call = call /\ r.at = point /\ r.e = e /\ r.n = x /\ r.seen = y /\ r.to = "DRAFT"
BY DEF At

\* A step is about one session at most.
LEMMA Proceeds ==
  ASSUME Typed, Served, LockHeld, [Next]_vars
  PROVE  UNCHANGED <<session, lock>> \/ \E s \in Sessions : \E r : Continues(s, r)
<1> DEFINE Steps == \E s \in Sessions : \E r : Continues(s, r)
<1>i. Idle.at = "idle" /\ Serves(Idle)
  BY DEF Idle, At, Serves
<1>d. ASSUME NEW s \in Sessions, Done(s), lock' = lock \/ lock \in {s, NoSession}
      PROVE  Steps
  <2>1. Continues(s, Idle)
    BY <1>d, <1>i DEF Done, Continues, Locked
  <2> QED
    BY <2>1
<1>a. ASSUME NEW s \in Sessions, NEW to, ThenAdvance(s, to), Busy(s), UNCHANGED lock,
             to = "ACTIVE" => session[s].call \in {"confirm", "activate"}
      PROVE  Steps
  <2> DEFINE r == [At(session[s].call, "advance", NoExpert) EXCEPT !.to = to]
  <2>1. r.call = session[s].call /\ r.at = "advance" /\ r.to = to
    BY Remembered
  <2>2. session[s].call \in Calls /\ Goes(s, r)
    BY <1>a DEF Served, Serves, Busy, ThenAdvance
  <2> HIDE DEF r
  <2>3. Continues(s, r)
    BY <1>a, <2>1, <2>2 DEF Continues, Serves, Locked
  <2> QED
    BY <2>3
\* A session that goes on to r.
<1>g. ASSUME NEW s \in Sessions, NEW r, Goes(s, r), Serves(r),
             Arrives(s, r.call) \/ (Busy(s) /\ r.call = session[s].call),
             r.at \in Locked => lock' = s, lock' = lock \/ lock = NoSession
      PROVE  Steps
  <2>1. Continues(s, r)
    BY <1>g DEF Continues
  <2> QED
    BY <2>1
<1>1. ASSUME NEW s \in Sessions, AdvanceRead(s)
      PROVE  Steps
  <2> DEFINE r == [At(session[s].call, "statusWrite", NoExpert) EXCEPT !.to = session[s].to]
  <2>1. r.call = session[s].call /\ r.at = "statusWrite" /\ r.to = session[s].to
    BY Remembered
  <2>2. (Goes(s, r) \/ Done(s)) /\ UNCHANGED lock /\ Busy(s) /\ session[s].at = "advance"
    BY <1>1 DEF AdvanceRead, Busy
  <2> HIDE DEF r
  <2>3. Serves(r)
    BY <2>1, <2>2 DEF Served, Serves
  <2>4. r.at \notin Locked
    BY <2>1 DEF Locked
  <2> QED
    BY <1>d, <1>g, <2>1, <2>2, <2>3, <2>4
<1>2. ASSUME NEW s \in Sessions, NEW to \in ProjectStatus, StatusRead(s, to)
      PROVE  Steps
  <2> DEFINE r == [At(StatusCall(to), "statusWrite", NoExpert) EXCEPT !.to = to]
  <2>1. r.call = StatusCall(to) /\ r.at = "statusWrite" /\ r.to = to
    BY Remembered
  <2>2. Goes(s, r) /\ UNCHANGED lock /\ Arrives(s, StatusCall(to))
    BY <1>2 DEF StatusRead
  <2> HIDE DEF r
  <2>3. Serves(r) /\ r.at \notin Locked
    BY <2>1, <2>2 DEF Serves, StatusCall, Arrives, Locked
  <2> QED
    BY <1>g, <2>1, <2>2, <2>3
<1>3. ASSUME NEW s \in Sessions, NEW n \in 1 .. MaxSeats, EditRead(s, n)
      PROVE  Steps
  <2> DEFINE r == [At("edit", "edit", NoExpert) EXCEPT !.n = n]
  <2>1. r.call = "edit" /\ r.at = "edit"
    BY Remembered
  <2>2. Goes(s, r) /\ UNCHANGED lock /\ Arrives(s, "edit")
    BY <1>3 DEF EditRead
  <2> HIDE DEF r
  <2>3. Serves(r) /\ r.at \notin Locked
    BY <2>1, <2>2 DEF Serves, Arrives, Locked
  <2> QED
    BY <1>g, <2>1, <2>2, <2>3
<1>4. ASSUME NEW s \in Sessions, NEW e \in Experts, InviteRead(s, e)
      PROVE  Steps
  <2> DEFINE r == [At(InviteCall(e), "inviteWrite", e) EXCEPT !.seen = invitation[e]]
  <2>1. r.call = InviteCall(e) /\ r.at = "inviteWrite" /\ r.seen = invitation[e]
    BY Remembered
  <2>2. /\ Goes(s, r) /\ UNCHANGED lock /\ Arrives(s, InviteCall(e))
        /\ invitation[e] \in {"NONE", "WITHDRAWN"}
    BY <1>4 DEF InviteRead
  <2> HIDE DEF r
  <2>3. Serves(r) /\ r.at \notin Locked
    BY <2>1, <2>2 DEF Serves, InviteCall, Arrives, Locked
  <2> QED
    BY <1>g, <2>1, <2>2, <2>3
\* The other calls begin with the expert they are about.
<1>5. ASSUME NEW s \in Sessions, NEW e \in Experts,
             NEW call \in {"answer", "propose", "confirm", "release", "complete"},
             Arrives(s, call), UNCHANGED lock,
             \/ call = "answer" /\ Goes(s, At("answer", "answerCount", e))
             \/ call = "propose" /\ Goes(s, At("propose", "propose", e))
             \/ call = "confirm" /\ Goes(s, At("confirm", "confirmLock", e))
             \/ call = "release" /\ \E n : Goes(s, [At("release", "release", e) EXCEPT !.n = n])
             \/ call = "complete" /\ Goes(s, At("complete", "complete", e))
      PROVE  Steps
  <2>1. PICK r : /\ Goes(s, r) /\ r.call = call
                 /\ \/ call = "answer" /\ r.at = "answerCount"
                    \/ call = "propose" /\ r.at = "propose"
                    \/ call = "confirm" /\ r.at = "confirmLock"
                    \/ call = "release" /\ r.at = "release"
                    \/ call = "complete" /\ r.at = "complete"
    <3>1. CASE call = "release"
      <4>1. PICK n : Goes(s, [At("release", "release", e) EXCEPT !.n = n])
        BY <1>5, <3>1
      <4>2. LET r == [At("release", "release", e) EXCEPT !.n = n]
            IN  r.call = "release" /\ r.at = "release"
        BY DEF At
      <4> QED
        BY <3>1, <4>1, <4>2
    <3>2. CASE call # "release"
      <4>1. PICK point \in {"answerCount", "propose", "confirmLock", "complete"} :
              /\ Goes(s, At(call, point, e))
              /\ \/ call = "answer" /\ point = "answerCount"
                 \/ call = "propose" /\ point = "propose"
                 \/ call = "confirm" /\ point = "confirmLock"
                 \/ call = "complete" /\ point = "complete"
        BY <1>5, <3>2
      <4>2. At(call, point, e).call = call /\ At(call, point, e).at = point
        BY DEF At
      <4> QED
        BY <4>1, <4>2
    <3> QED
      BY <3>1, <3>2
  <2>2. Serves(r) /\ r.at \notin Locked
    BY <1>5, <2>1 DEF Serves, Arrives, Locked
  <2> QED
    BY <1>5, <1>g, <2>1, <2>2
<1>6. ASSUME NEW s \in Sessions, NEW e \in Experts,
             \/ Accept(s, e) \/ ProposeCheck(s, e) \/ ConfirmRead(s, e)
             \/ ReleaseRead(s, e) \/ CompleteRead(s, e)
      PROVE  Steps
  BY <1>5, <1>6 DEF Accept, ProposeCheck, ConfirmRead, ReleaseRead, CompleteRead
<1>7. ASSUME NEW s \in Sessions, NEW e \in Experts, WithdrawLock(s, e)
      PROVE  Steps
  <2>1. PICK x : Goes(s, [At("withdraw", "withdraw", e) EXCEPT !.seen = x])
    BY <1>7 DEF WithdrawLock
  <2> DEFINE r == [At("withdraw", "withdraw", e) EXCEPT !.seen = x]
  <2>2. Goes(s, r) /\ r.call = "withdraw" /\ r.at = "withdraw"
    BY <2>1, Remembered
  <2>3. Arrives(s, "withdraw") /\ lock = NoSession /\ lock' = s
    BY <1>7 DEF WithdrawLock, Unlocked
  <2> HIDE DEF r
  <2>4. Serves(r)
    BY <2>2, <2>3 DEF Serves, Arrives
  <2> QED
    BY <1>g, <2>2, <2>3, <2>4
\* Steps that end a call, or have nothing left but to advance the project.
<1>8. ASSUME NEW s \in Sessions,
             StatusWrite(s) \/ EditWrite(s) \/ ProposeWrite(s) \/ ReleaseCommit(s) \/ CompleteWrite(s)
      PROVE  Steps
  BY <1>8, <1>d DEF StatusWrite, EditWrite, ProposeWrite, ReleaseCommit, CompleteWrite
<1>9. ASSUME NEW s \in Sessions, InviteWrite(s) \/ AnswerCount(s)
      PROVE  Steps
  <2>1. (Done(s) \/ \E to : to # "ACTIVE" /\ ThenAdvance(s, to)) /\ UNCHANGED lock /\ Busy(s)
    BY <1>9 DEF InviteWrite, AnswerCount, Busy
  <2> QED
    BY <1>a, <1>d, <2>1
<1>10. ASSUME NEW s \in Sessions, ConfirmEnqueue(s)
       PROVE  Steps
  <2>1. (Done(s) \/ ThenAdvance(s, "ACTIVE")) /\ UNCHANGED lock /\ Busy(s) /\ session[s].call = "confirm"
    BY <1>10 DEF ConfirmEnqueue, Busy, Served, Serves
  <2> QED
    BY <1>a, <1>d, <2>1
<1>11. ASSUME NEW s \in Sessions, ProposeRead(s)
       PROVE  Steps
  <2>1. PICK e, x : Done(s) \/ Goes(s, [At("propose", "proposeWrite", e) EXCEPT !.seen = x])
    BY <1>11 DEF ProposeRead
  <2> DEFINE r == [At("propose", "proposeWrite", e) EXCEPT !.seen = x]
  <2>2. r.call = "propose" /\ r.at = "proposeWrite"
    BY Remembered
  <2>3. Busy(s) /\ session[s].call = "propose" /\ "propose" \in Calls /\ UNCHANGED lock
    BY <1>11 DEF ProposeRead, Busy, Served, Serves
  <2>4. Done(s) \/ Goes(s, r)
    BY <2>1
  <2> HIDE DEF r
  <2>5. Serves(r) /\ r.at \notin Locked
    BY <2>2, <2>3 DEF Serves, Locked
  <2> QED
    BY <1>d, <1>g, <2>2, <2>3, <2>4, <2>5
<1>12. ASSUME NEW s \in Sessions, ConfirmLock(s)
       PROVE  Steps
  <2>1. PICK e, n, x : \/ Done(s) /\ UNCHANGED lock
                       \/ lock' = s /\ Goes(s, [At("confirm", "confirmWrite", e) EXCEPT !.n = n, !.seen = x])
    BY <1>12 DEF ConfirmLock
  <2> DEFINE r == [At("confirm", "confirmWrite", e) EXCEPT !.n = n, !.seen = x]
  <2>2. r.call = "confirm" /\ r.at = "confirmWrite"
    BY Remembered
  <2>3. Busy(s) /\ session[s].call = "confirm" /\ "confirm" \in Calls /\ lock = NoSession
    BY <1>12 DEF ConfirmLock, Busy, Served, Serves, Unlocked
  <2>4. (Done(s) /\ UNCHANGED lock) \/ (lock' = s /\ Goes(s, r))
    BY <2>1
  <2> HIDE DEF r
  <2>5. Serves(r)
    BY <2>2, <2>3 DEF Serves
  <2> QED
    BY <1>d, <1>g, <2>2, <2>3, <2>4, <2>5
<1>13. ASSUME NEW s \in Sessions, ConfirmWrite(s)
       PROVE  Steps
  <2>1. PICK e, x : Done(s) \/ Goes(s, [At("confirm", "confirmEnqueue", e) EXCEPT !.to = x])
    <3>1. CASE assignment[session[s].e] = "PROPOSED"
      <4>1. \E x : [At("confirm", "confirmEnqueue", session[s].e) EXCEPT !.to =
                      IF seatsFilled' >= seatsRequested /\ session[s].seen # "ACTIVE" THEN "ACTIVE" ELSE @]
                   = [At("confirm", "confirmEnqueue", session[s].e) EXCEPT !.to = x]
        OBVIOUS
      <4> QED
        BY <1>13, <3>1, <4>1 DEF ConfirmWrite
    <3> QED
      BY <1>13, <3>1 DEF ConfirmWrite
  <2> DEFINE r == [At("confirm", "confirmEnqueue", e) EXCEPT !.to = x]
  <2>2. r.call = "confirm" /\ r.at = "confirmEnqueue"
    BY Remembered
  <2>3. Busy(s) /\ session[s].call = "confirm" /\ "confirm" \in Calls /\ lock = s
    BY <1>13 DEF ConfirmWrite, Busy, Served, Serves, LockHeld, Locked
  <2>4. Done(s) \/ Goes(s, r)
    BY <2>1
  <2> HIDE DEF r
  <2>5. Serves(r) /\ r.at \notin Locked
    BY <2>2, <2>3 DEF Serves, Locked
  <2>6. CASE Goes(s, r)
    <3>1. Continues(s, r)
      BY <2>2, <2>3, <2>5, <2>6 DEF Continues
    <3> QED
      BY <3>1
  <2> QED
    BY <1>d, <2>3, <2>4, <2>6
<1>14. ASSUME NEW s \in Sessions, WithdrawCommit(s) \/ Crash(s)
       PROVE  Steps
  <2>1. Done(s) /\ (lock' = lock \/ lock = s)
    BY <1>14 DEF WithdrawCommit, Crash, LockHeld, Locked
  <2> QED
    BY <1>d, <2>1
<1>15. ASSUME NEW e \in Experts, InvitationEnds(e) \/ StartTasks(e) \/ Reverify(e)
       PROVE  UNCHANGED <<session, lock>>
  BY <1>15 DEF InvitationEnds, StartTasks, Reverify
<1>16. ASSUME UNCHANGED vars
       PROVE  UNCHANGED <<session, lock>>
  BY <1>16 DEF vars
<1> HIDE DEF Steps
<1>17. ASSUME NEW s \in Sessions, Request(s)
       PROVE  Steps
  BY <1>17, <1>2, <1>3, <1>4, <1>6, <1>7 DEF Request
<1>18. ASSUME NEW s \in Sessions, Continue(s)
       PROVE  Steps
  BY <1>18, <1>1, <1>8, <1>9, <1>10, <1>11, <1>12, <1>13, <1>14 DEF Continue
<1>19. Steps \/ UNCHANGED <<session, lock>>
  BY <1>14, <1>15, <1>16, <1>17, <1>18 DEF Next
<1> QED
  BY <1>19 DEF Steps

LEMMA InProgressStep ==
  ASSUME InProgress, [Next]_vars
  PROVE  InProgress'
<1>1. Typed' /\ Typed /\ Served /\ Disciplined /\ LockHeld
  BY TypedStep DEF InProgress
<1>2. CASE UNCHANGED <<session, lock>>
  BY <1>1, <1>2 DEF InProgress, Served, Serves, Disciplined, Busy, LockHeld
<1>3. ASSUME NEW s \in Sessions, NEW r, Continues(s, r)
      PROVE  InProgress'
  <2>1. session'[s] = r /\ \A t \in Sessions \ {s} : session'[t] = session[t]
    BY <1>1, <1>3 DEF Continues, Goes, Typed, TypeOK
  <2>2. Served'
    <3>1. \A t \in Sessions : Serves(session[t])'
      BY <1>1, <1>3, <2>1 DEF Served, Serves, Continues
    <3> QED
      BY <3>1 DEF Served
  <2>3. \A t \in Sessions \ {s} : r.at # "idle" /\ Busy(t) => {r.call, session[t].call} \in Overlapping
    BY <1>1, <1>3 DEF Continues, Arrives, Disciplined
  <2>4. Disciplined'
    <3>1. ASSUME NEW t \in Sessions, NEW u \in Sessions, t # u, Busy(t)', Busy(u)'
          PROVE  {session'[t].call, session'[u].call} \in Overlapping
      <4>1. CASE t = s
        BY <2>1, <2>3, <3>1, <4>1 DEF Busy
      <4>2. CASE u = s
        <5>1. {session[t].call, r.call} = {r.call, session[t].call}
          OBVIOUS
        <5> QED
          BY <2>1, <2>3, <3>1, <4>2, <5>1 DEF Busy
      <4>3. CASE t # s /\ u # s
        BY <1>1, <2>1, <3>1, <4>3 DEF Busy, Disciplined
      <4> QED
        BY <4>1, <4>2, <4>3
    <3> QED
      BY <3>1 DEF Disciplined
  <2>5. LockHeld'
    <3>1. NoSession \notin Sessions
      BY StaffingAssumption
    <3> QED
      BY <1>1, <1>3, <2>1, <3>1 DEF LockHeld, Continues
  <2> QED
    BY <1>1, <2>2, <2>4, <2>5 DEF InProgress
<1> QED
  BY <1>1, <1>2, <1>3, Proceeds

LEMMA InProgressInit == Init => InProgress
<1> SUFFICES ASSUME Init
             PROVE  InProgress
  OBVIOUS
<1>1. Serves(Idle) /\ Idle.at = "idle"
  BY DEF Idle, At, Serves
<1> QED
  BY <1>1, TypedInit DEF Init, InProgress, Served, Disciplined, Busy, LockHeld, Locked

-----------------------------------------------------------------------------
(***************************************************************************)
(* Seats, with every other pair of calls at once.  completeAssignment      *)
(* updates its row by id alone and breaks the count beside a release or a  *)
(* withdrawal; nothing in the program calls it, and the theorems of this   *)
(* part assume so.  The next part has it among the calls.                  *)
(***************************************************************************)

\* Steps of calls that nobody makes; and those with the ones made under the lock.
Absent  == {"complete", "edit"} \ Calls
Special == {"confirmWrite", "withdraw"} \cup Absent

\* Who is between lock and commit holds the lock, and what confirm counted
\* under it is still an upper bound, with a seat to spare.
Guarded ==
  \A s \in Sessions :
    /\ session[s].at \notin Absent
    /\ session[s].at \in Special => lock = s
    /\ session[s].at = "confirmWrite" =>
         SeatsTaken <= session[s].n /\ session[s].n < seatsRequested

Counted == Typed /\ Guarded /\ FilledCoversTaken

\* What a step does to the sessions: none comes to a special step.
Moved == \A t \in Sessions : session'[t].at \notin Special \/ session'[t] = session[t]

\* The kinds of steps.  Calm: nothing that is counted changes.  Frees: at most
\* one seat is given back, and the counter is kept or made exact.
Calm == UNCHANGED <<assignment, seatsFilled, seatsRequested, lock>> /\ Moved

Gives ==
  /\ Held' = Held \/ \E e \in Experts : Held' = Held \ {e}
  /\ seatsFilled' \in {seatsFilled, SeatsTaken'}
  /\ UNCHANGED seatsRequested
  /\ \A t \in Sessions : \/ session'[t].at \notin Special
                         \/ session'[t] = session[t] /\ lock' = lock

\* Resizes: the number of seats asked for changes, and nobody has the lock.
Resizes ==
  /\ "edit" \in Calls /\ Unlocked /\ Moved
  /\ UNCHANGED <<assignment, seatsFilled, lock>>

\* Claims: a session takes the lock and reads what it has to.
Claims(s) ==
  /\ Unlocked /\ lock' = s
  /\ UNCHANGED <<assignment, seatsFilled, seatsRequested>>
  /\ \A t \in Sessions \ {s} : session'[t] = session[t]
  /\ session'[s].at \in {"confirmWrite", "withdraw"}
  /\ session'[s].at = "confirmWrite" =>
       session'[s].n = SeatsTaken /\ SeatsTaken < seatsRequested

\* Takes: the session with the lock turns a proposal into a seat.
Takes(s) ==
  /\ lock = s /\ session[s].at = "confirmWrite"
  /\ \E e \in Experts : e \notin Held /\ Held' = Held \cup {e}
  /\ seatsFilled' = session[s].n + 1
  /\ UNCHANGED seatsRequested
  /\ session'[s].at \notin Special
  /\ \A t \in Sessions \ {s} : session'[t] = session[t]

LEMMA PointKept ==
  ASSUME NEW call, NEW point, NEW e, NEW x, NEW y
  PROVE  /\ At(call, point, e).at = point
         /\ [At(call, point, e) EXCEPT !.seen = x].at = point
         /\ [At(call, point, e) EXCEPT !.to = x].at = point
         /\ [At(call, point, e) EXCEPT !.n = x].at = point
         /\ [At(call, point, e) EXCEPT !.n = x, !.seen = y].at = point
         /\ [At(call, point, e) EXCEPT !.n = x, !.seen = y].n = x
BY DEF At

\* A session that goes on to a step that is not special.
LEMMA Moves ==
  ASSUME Typed, NEW s \in Sessions, NEW call, NEW point, point \notin Special, NEW e
  PROVE  /\ Goes(s, At(call, point, e)) => Moved
         /\ \A x : Goes(s, [At(call, point, e) EXCEPT !.seen = x]) => Moved
         /\ \A x : Goes(s, [At(call, point, e) EXCEPT !.to = x]) => Moved
         /\ \A x : Goes(s, [At(call, point, e) EXCEPT !.n = x]) => Moved
<1>1. ASSUME NEW r, r.at \notin Special, Goes(s, r)
      PROVE  Moved
  BY <1>1 DEF Typed, TypeOK, Goes, Moved
<1>2. ASSUME Goes(s, At(call, point, e))
      PROVE  Moved
  BY <1>1, <1>2, PointKept
<1>3. ASSUME NEW x, Goes(s, [At(call, point, e) EXCEPT !.seen = x])
      PROVE  Moved
  <2>1. [At(call, point, e) EXCEPT !.seen = x].at = point
    BY PointKept
  <2> QED
    BY <1>1, <1>3, <2>1
<1>4. ASSUME NEW x, Goes(s, [At(call, point, e) EXCEPT !.to = x])
      PROVE  Moved
  <2>1. [At(call, point, e) EXCEPT !.to = x].at = point
    BY PointKept
  <2> QED
    BY <1>1, <1>4, <2>1
<1>5. ASSUME NEW x, Goes(s, [At(call, point, e) EXCEPT !.n = x])
      PROVE  Moved
  <2>1. [At(call, point, e) EXCEPT !.n = x].at = point
    BY PointKept
  <2> QED
    BY <1>1, <1>5, <2>1
<1> QED
  BY <1>2, <1>3, <1>4, <1>5

LEMMA DoneMoves ==
  ASSUME Typed, NEW s \in Sessions, Done(s)
  PROVE  Moved /\ session'[s].at \notin Special /\ \A t \in Sessions \ {s} : session'[t] = session[t]
<1>1. "idle" \notin Special /\ Idle.at = "idle"
  BY IdleFits DEF Special, Absent
<1> QED
  BY <1>1 DEF Typed, TypeOK, Done, Goes, Moved

LEMMA AdvanceMoves ==
  ASSUME Typed, NEW s \in Sessions, NEW to, ThenAdvance(s, to)
  PROVE  Moved
<1>1. "advance" \notin Special
  BY DEF Special, Absent
<1> QED
  BY <1>1, Moves DEF ThenAdvance

\* Giving a seat back recounts what is left.
LEMMA FreesSeat ==
  ASSUME Typed, NEW e \in Experts, NEW n, Frees(e, n)
  PROVE  Held' = Held \ {e} /\ seatsFilled' = SeatsTaken'
<1>1. Held' = Held \ {e}
  BY DEF Frees, Held, Typed, TypeOK
<1> QED
  BY <1>1 DEF Frees, SeatsTaken

-----------------------------------------------------------------------------
LEMMA StepKinds ==
  ASSUME Counted, "complete" \notin Calls, [Next]_vars
  PROVE  Calm \/ Gives \/ Resizes \/ \E s \in Sessions : Claims(s) \/ Takes(s)
<1> DEFINE Kind == Calm \/ Gives \/ Resizes \/ \E s \in Sessions : Claims(s) \/ Takes(s)
<1>t. Typed /\ Guarded
  BY DEF Counted
<1>p. /\ {"propose", "proposeWrite", "confirmLock", "confirmEnqueue", "release",
          "inviteWrite", "answerCount", "advance", "statusWrite"} \cap Special = {}
      /\ {"confirmWrite", "withdraw", "complete"} \subseteq Special
      /\ "edit" \in Calls => "edit" \notin Special
  BY DEF Special, Absent
<1>n. \A s \in Sessions : s # NoSession
  BY StaffingAssumption
<1>h. UNCHANGED assignment => Held' = Held
  BY DEF Held
<1>1. ASSUME NEW s \in Sessions, AdvanceRead(s)
      PROVE  Kind
  <2>1. Moved
    BY <1>t, <1>p, <1>1, Moves, DoneMoves, AdvanceMoves DEF AdvanceRead
  <2> QED
    BY <1>1, <2>1 DEF AdvanceRead, Calm, projectVars, expertVars
<1>2. ASSUME NEW s \in Sessions, NEW to \in ProjectStatus, StatusRead(s, to)
      PROVE  Kind
  <2>1. Moved
    BY <1>t, <1>p, <1>2, Moves, DoneMoves, AdvanceMoves DEF StatusRead
  <2> QED
    BY <1>2, <2>1 DEF StatusRead, Calm, projectVars, expertVars
<1>3. ASSUME NEW s \in Sessions, StatusWrite(s)
      PROVE  Kind
  <2>1. Moved
    BY <1>t, <1>p, <1>3, Moves, DoneMoves, AdvanceMoves DEF StatusWrite
  <2> QED
    BY <1>3, <2>1 DEF StatusWrite, Calm, projectVars, expertVars
<1>4. ASSUME NEW s \in Sessions, NEW n \in 1 .. MaxSeats, EditRead(s, n)
      PROVE  Kind
  <2>1. Moved
    BY <1>t, <1>p, <1>4, Moves, DoneMoves, AdvanceMoves DEF EditRead, Arrives
  <2> QED
    BY <1>4, <2>1 DEF EditRead, Calm, projectVars, expertVars
<1>5. ASSUME NEW s \in Sessions, NEW e \in Experts, InviteRead(s, e)
      PROVE  Kind
  <2>1. Moved
    BY <1>t, <1>p, <1>5, Moves, DoneMoves, AdvanceMoves DEF InviteRead
  <2> QED
    BY <1>5, <2>1 DEF InviteRead, Calm, projectVars, expertVars
<1>6. ASSUME NEW s \in Sessions, InviteWrite(s)
      PROVE  Kind
  <2>1. Moved
    BY <1>t, <1>p, <1>6, Moves, DoneMoves, AdvanceMoves DEF InviteWrite
  <2> QED
    BY <1>6, <2>1 DEF InviteWrite, Calm, projectVars, expertVars
<1>7. ASSUME NEW s \in Sessions, NEW e \in Experts, Accept(s, e)
      PROVE  Kind
  <2>1. Moved
    BY <1>t, <1>p, <1>7, Moves, DoneMoves, AdvanceMoves DEF Accept
  <2> QED
    BY <1>7, <2>1 DEF Accept, Calm, projectVars, expertVars
<1>8. ASSUME NEW s \in Sessions, AnswerCount(s)
      PROVE  Kind
  <2>1. Moved
    BY <1>t, <1>p, <1>8, Moves, DoneMoves, AdvanceMoves DEF AnswerCount
  <2> QED
    BY <1>8, <2>1 DEF AnswerCount, Calm, projectVars, expertVars
<1>9. ASSUME NEW s \in Sessions, NEW e \in Experts, ProposeCheck(s, e)
      PROVE  Kind
  <2>1. Moved
    BY <1>t, <1>p, <1>9, Moves, DoneMoves, AdvanceMoves DEF ProposeCheck
  <2> QED
    BY <1>9, <2>1 DEF ProposeCheck, Calm, projectVars, expertVars
<1>10. ASSUME NEW s \in Sessions, ProposeRead(s)
      PROVE  Kind
  <2>1. Moved
    BY <1>t, <1>p, <1>10, Moves, DoneMoves, AdvanceMoves DEF ProposeRead
  <2> QED
    BY <1>10, <2>1 DEF ProposeRead, Calm, projectVars, expertVars
<1>11. ASSUME NEW s \in Sessions, NEW e \in Experts, ConfirmRead(s, e)
      PROVE  Kind
  <2>1. Moved
    BY <1>t, <1>p, <1>11, Moves, DoneMoves, AdvanceMoves DEF ConfirmRead
  <2> QED
    BY <1>11, <2>1 DEF ConfirmRead, Calm, projectVars, expertVars
<1>12. ASSUME NEW s \in Sessions, ConfirmEnqueue(s)
      PROVE  Kind
  <2>1. Moved
    BY <1>t, <1>p, <1>12, Moves, DoneMoves, AdvanceMoves DEF ConfirmEnqueue
  <2> QED
    BY <1>12, <2>1 DEF ConfirmEnqueue, Calm, projectVars, expertVars
<1>13. ASSUME NEW s \in Sessions, NEW e \in Experts, ReleaseRead(s, e)
      PROVE  Kind
  <2>1. Moved
    BY <1>t, <1>p, <1>13, Moves, DoneMoves, AdvanceMoves DEF ReleaseRead
  <2> QED
    BY <1>13, <2>1 DEF ReleaseRead, Calm, projectVars, expertVars
<1>14. ASSUME NEW e \in Experts, InvitationEnds(e)
      PROVE  Kind
  <2>1. Moved
    BY <1>14 DEF InvitationEnds, Moved
  <2> QED
    BY <1>14, <2>1 DEF InvitationEnds, Calm, projectVars, expertVars
<1>15. ASSUME NEW e \in Experts, StartTasks(e)
      PROVE  Kind
  <2>1. Moved
    BY <1>15 DEF StartTasks, Moved
  <2> QED
    BY <1>15, <2>1 DEF StartTasks, Calm, projectVars, expertVars
<1>16. ASSUME NEW e \in Experts, Reverify(e)
      PROVE  Kind
  <2>1. Moved
    BY <1>16 DEF Reverify, Moved
  <2> QED
    BY <1>16, <2>1 DEF Reverify, Calm, projectVars, expertVars
<1>17. ASSUME UNCHANGED vars
       PROVE  Kind
  BY <1>17 DEF vars, Calm, Moved, projectVars, expertVars
<1>18. ASSUME NEW s \in Sessions, EditWrite(s)
       PROVE  Kind
  BY <1>t, <1>18, DoneMoves DEF EditWrite, Guarded, Absent, Resizes, expertVars
<1>19. ASSUME NEW s \in Sessions, ProposeWrite(s)
       PROVE  Kind
  <2> DEFINE e == session[s].e
  <2>1. e \in Experts /\ Moved
    BY <1>t, <1>19, DoneMoves DEF ProposeWrite, Typed, SessionsFit, Fits, Personal
  <2>2. Held' \in {Held, Held \ {e}}
    BY <1>t, <1>19, <2>1 DEF ProposeWrite, Held, Typed, TypeOK
  <2> QED
    BY <1>19, <2>1, <2>2 DEF ProposeWrite, Gives, Moved, projectVars
<1>20. ASSUME NEW s \in Sessions, ConfirmLock(s)
       PROVE  Kind
  <2> DEFINE e == session[s].e
             r == [At("confirm", "confirmWrite", e) EXCEPT !.n = SeatsTaken, !.seen = status]
  <2>1. r.at = "confirmWrite" /\ r.n = SeatsTaken
    BY PointKept
  <2>2. CASE Goes(s, r) /\ lock' = s /\ SeatsTaken < seatsRequested
    <3> HIDE DEF r
    <3> QED
      BY <1>t, <1>20, <2>1, <2>2 DEF ConfirmLock, Goes, Claims, Typed, TypeOK, projectVars, expertVars
  <2>3. CASE Done(s) /\ UNCHANGED lock
    BY <1>t, <1>20, <2>3, DoneMoves DEF ConfirmLock, Calm, projectVars, expertVars
  <2> QED
    BY <1>20, <2>2, <2>3 DEF ConfirmLock
<1>21. ASSUME NEW s \in Sessions, ConfirmWrite(s)
       PROVE  Kind
  <2> DEFINE e == session[s].e
  <2>1. /\ e \in Experts /\ lock = s /\ session[s].at = "confirmWrite"
        /\ \A t \in Sessions \ {s} : session[t].at \notin Special
    BY <1>t, <1>p, <1>21 DEF ConfirmWrite, Typed, SessionsFit, Fits, Personal, Guarded
  <2>2. CASE assignment[e] = "PROPOSED"
    <3> DEFINE f == [At("confirm", "confirmEnqueue", e) EXCEPT !.to =
                       IF seatsFilled' >= seatsRequested /\ session[s].seen # "ACTIVE"
                       THEN "ACTIVE" ELSE @]
    <3>1. f.at = "confirmEnqueue"
      BY PointKept
    <3>2. Goes(s, f)
      BY <1>21, <2>2 DEF ConfirmWrite
    <3> HIDE DEF f
    <3>3. session'[s].at \notin Special /\ \A t \in Sessions \ {s} : session'[t] = session[t]
      BY <1>t, <1>p, <3>1, <3>2 DEF Goes, Typed, TypeOK
    <3>4. e \notin Held /\ Held' = Held \cup {e}
      BY <1>t, <1>21, <2>1, <2>2 DEF ConfirmWrite, Held, Typed, TypeOK
    <3> QED
      BY <1>21, <2>1, <2>2, <3>3, <3>4 DEF ConfirmWrite, Takes
  <2>3. CASE assignment[e] # "PROPOSED"
    BY <1>t, <1>h, <1>21, <2>1, <2>3, DoneMoves DEF ConfirmWrite, Gives, Moved
  <2> QED
    BY <2>2, <2>3
<1>22. ASSUME NEW s \in Sessions, ReleaseCommit(s)
       PROVE  Kind
  <2>1. session[s].e \in Experts /\ Moved
    BY <1>t, <1>22, DoneMoves DEF ReleaseCommit, Typed, SessionsFit, Fits, Personal
  <2>2. CASE Frees(session[s].e, session[s].n)
    BY <1>t, <1>22, <2>1, <2>2, FreesSeat DEF ReleaseCommit, Gives, Moved
  <2>3. CASE UNCHANGED <<assignment, seatsFilled, status>>
    BY <1>h, <1>22, <2>1, <2>3 DEF ReleaseCommit, Gives, Moved
  <2> QED
    BY <1>22, <2>2, <2>3 DEF ReleaseCommit
<1>23. ASSUME NEW s \in Sessions, NEW e \in Experts, WithdrawLock(s, e)
       PROVE  Kind
  <2> DEFINE r == [At("withdraw", "withdraw", e) EXCEPT !.seen = IF Active(e) THEN "CONFIRMED" ELSE "NONE"]
  <2>1. r.at = "withdraw"
    BY PointKept
  <2>2. Goes(s, r)
    BY <1>23 DEF WithdrawLock
  <2> HIDE DEF r
  <2> QED
    BY <1>t, <1>23, <2>1, <2>2 DEF WithdrawLock, Goes, Claims, Typed, TypeOK, projectVars, expertVars
<1>24. ASSUME NEW s \in Sessions, WithdrawCommit(s)
       PROVE  Kind
  <2> DEFINE e == session[s].e
  <2>1. /\ e \in Experts /\ \A t \in Sessions \ {s} : session[t].at \notin Special
    BY <1>t, <1>p, <1>24 DEF WithdrawCommit, Typed, SessionsFit, Fits, Personal, Guarded
  <2>2. \A t \in Sessions : session'[t].at \notin Special
    BY <1>t, <1>p, <1>24, <2>1, DoneMoves DEF WithdrawCommit
  <2>3. CASE Frees(e, seatsRequested)
    BY <1>t, <1>24, <2>1, <2>2, <2>3, FreesSeat DEF WithdrawCommit, Gives
  <2>4. CASE UNCHANGED <<assignment, seatsFilled>>
    BY <1>h, <1>24, <2>1, <2>2, <2>4 DEF WithdrawCommit, Gives
  <2> QED
    BY <1>24, <2>3, <2>4 DEF WithdrawCommit
<1>25. ASSUME NEW s \in Sessions, Crash(s)
       PROVE  Kind
  <2>1. UNCHANGED <<assignment, seatsFilled, seatsRequested>> /\ Done(s)
    BY <1>25 DEF Crash, projectVars, expertVars
  <2>2. CASE lock = s
    <3>1. \A t \in Sessions : session'[t].at \notin Special
      BY <1>t, <2>1, <2>2, DoneMoves DEF Guarded
    <3> QED
      BY <1>h, <2>1, <3>1 DEF Gives
  <2>3. CASE lock # s
    BY <1>t, <1>25, <2>1, <2>3, DoneMoves DEF Crash, Calm
  <2> QED
    BY <2>2, <2>3
<1>26. ASSUME NEW s \in Sessions, Request(s)
       PROVE  Kind
  <2> HIDE DEF Kind
  <2>1. \A e \in Experts : ~CompleteRead(s, e)
    BY DEF CompleteRead, Arrives
  <2> QED
    BY <1>26, <2>1, <1>2, <1>4, <1>5, <1>7, <1>9, <1>11, <1>13, <1>23 DEF Request
<1>27. ASSUME NEW s \in Sessions, Continue(s)
       PROVE  Kind
  <2> HIDE DEF Kind
  <2>1. ~CompleteWrite(s)
    BY <1>t DEF CompleteWrite, Guarded, Absent
  <2> QED
    BY <1>27, <2>1, <1>1, <1>3, <1>18, <1>6, <1>8, <1>10, <1>19, <1>20, <1>21, <1>12, <1>22, <1>24
       DEF Continue
<1> HIDE DEF Kind
<1>28. Kind
  BY <1>14, <1>15, <1>16, <1>17, <1>25, <1>26, <1>27 DEF Next
<1> QED
  BY <1>28 DEF Kind

-----------------------------------------------------------------------------
(***************************************************************************)
(* The count.                                                              *)
(***************************************************************************)

LEMMA Fewer ==
  ASSUME Held' \subseteq Held
  PROVE  SeatsTaken' \in Nat /\ SeatsTaken' <= SeatsTaken
BY HeldFinite, FS_Subset, FS_CardinalityType DEF SeatsTaken

LEMMA OneMore ==
  ASSUME NEW e, e \notin Held, Held' = Held \cup {e}
  PROVE  SeatsTaken' = SeatsTaken + 1
BY HeldFinite, FS_AddElement DEF SeatsTaken

LEMMA SameHeld == ASSUME UNCHANGED assignment PROVE Held' = Held /\ SeatsTaken' = SeatsTaken
BY DEF Held, SeatsTaken

LEMMA CountedStep ==
  ASSUME Counted, "complete" \notin Calls, [Next]_vars
  PROVE  Counted'
<1>1. Typed'
  BY TypedStep DEF Counted
<1>2. /\ Guarded /\ SeatsTaken <= seatsFilled
      /\ SeatsTaken \in Nat /\ seatsFilled \in Nat /\ seatsRequested \in Nat
      /\ \A s \in Sessions : session[s].n \in Nat
  BY HeldFinite DEF Counted, FilledCoversTaken, Typed, TypeOK, Session
<1>3. \A s \in Sessions : s # NoSession
  BY StaffingAssumption
<1>4. CASE Calm
  <2>1. Guarded'
    BY <1>2, <1>4, SameHeld DEF Calm, Moved, Guarded, Special, Absent
  <2> QED
    BY <1>1, <1>2, <1>4, <2>1, SameHeld DEF Calm, FilledCoversTaken, Counted
<1>5. CASE Gives
  <2>1. SeatsTaken' \in Nat /\ SeatsTaken' <= SeatsTaken
    <3>1. Held' \subseteq Held
      BY <1>5 DEF Gives
    <3> QED
      BY <3>1, Fewer
  <2>2. Guarded'
    BY <1>2, <1>5, <2>1 DEF Gives, Guarded, Special, Absent
  <2> QED
    BY <1>2, <1>5, <2>1, <2>2, <1>1 DEF Gives, FilledCoversTaken, Counted
<1>6. CASE Resizes
  <2>1. \A t \in Sessions : session[t].at \notin Special
    BY <1>2, <1>3, <1>6 DEF Resizes, Unlocked, Guarded
  <2>2. Guarded'
    BY <1>6, <2>1 DEF Resizes, Moved, Guarded, Special, Absent
  <2> QED
    BY <1>1, <1>2, <1>6, <2>2, SameHeld DEF Resizes, FilledCoversTaken, Counted
<1>7. ASSUME NEW s \in Sessions, Claims(s)
      PROVE  Counted'
  <2>1. \A t \in Sessions : session[t].at \notin Special
    BY <1>2, <1>3, <1>7 DEF Claims, Unlocked, Guarded
  <2>2. SeatsTaken' = SeatsTaken
    BY <1>7, SameHeld DEF Claims
  <2>3. ASSUME NEW t \in Sessions
        PROVE  /\ session'[t].at \notin Absent
               /\ session'[t].at \in Special => t = s
    BY <1>7, <2>1, <2>3 DEF Claims, Special, Absent
  <2>4. Guarded'
    BY <1>2, <1>7, <2>1, <2>2, <2>3 DEF Claims, Guarded, Special, Absent
  <2> QED
    BY <1>1, <1>2, <1>7, <2>2, <2>4 DEF Claims, FilledCoversTaken, Counted
<1>8. ASSUME NEW s \in Sessions, Takes(s)
      PROVE  Counted'
  <2>1. \A t \in Sessions : session'[t].at \notin Special
    BY <1>2, <1>8 DEF Takes, Guarded
  <2>2. SeatsTaken' = SeatsTaken + 1
    BY <1>8, OneMore DEF Takes
  <2>3. Guarded'
    BY <2>1 DEF Guarded, Special, Absent
  <2> QED
    BY <1>1, <1>2, <1>8, <2>2, <2>3 DEF Takes, Guarded, FilledCoversTaken, Counted
<1> QED
  BY <1>1, <1>4, <1>5, <1>6, <1>7, <1>8, StepKinds DEF Counted

LEMMA CountedInit == Init => Counted
<1> SUFFICES ASSUME Init
             PROVE  Counted
  OBVIOUS
<1>1. Held = {} /\ SeatsTaken = 0
  BY FS_EmptySet DEF Init, Held, SeatsTaken
<1>2. \A s \in Sessions : session[s].at = "idle"
  BY IdleFits DEF Init
<1> QED
  BY <1>1, <1>2, TypedInit DEF Init, Counted, Guarded, Special, Absent, FilledCoversTaken

\* No interleaving of requests, withdrawals, edits and crashes makes the stored
\* counter smaller than the number of seats taken.
THEOREM FilledCovers ==
  ASSUME "complete" \notin Calls
  PROVE  Spec => []FilledCoversTaken
<1>1. Counted /\ [Next]_vars => Counted'
  BY CountedStep
<1> QED
  BY <1>1, CountedInit, PTL DEF Spec, Counted

\* With the number of seats fixed, seats taken never exceed seats requested.
THEOREM CapacityHolds ==
  ASSUME {"complete", "edit"} \cap Calls = {}
  PROVE  Spec => []CapacityHeld
<1>1. ASSUME Counted, CapacityHeld, [Next]_vars
      PROVE  CapacityHeld'
  <2>1. /\ Guarded /\ "edit" \notin Calls
        /\ SeatsTaken \in Nat /\ seatsRequested \in Nat
    BY <1>1, HeldFinite DEF Counted, Typed, TypeOK
  <2>2. CASE Calm
    BY <1>1, <2>2, SameHeld DEF Calm, CapacityHeld
  <2>3. CASE Gives
    <3>1. Held' \subseteq Held
      BY <2>3 DEF Gives
    <3> QED
      BY <1>1, <2>1, <2>3, <3>1, Fewer DEF Gives, CapacityHeld
  <2>4. ASSUME NEW s \in Sessions, Claims(s)
        PROVE  CapacityHeld'
    BY <1>1, <2>4, SameHeld DEF Claims, CapacityHeld
  <2>5. ASSUME NEW s \in Sessions, Takes(s)
        PROVE  CapacityHeld'
    <3>1. SeatsTaken' = SeatsTaken + 1
      BY <2>5, OneMore DEF Takes
    <3>2. session[s].n \in Nat /\ SeatsTaken <= session[s].n /\ session[s].n < seatsRequested
      BY <1>1, <2>1, <2>5 DEF Takes, Guarded, Counted, Typed, TypeOK, Session
    <3> QED
      BY <2>1, <2>5, <3>1, <3>2 DEF Takes, CapacityHeld
  <2> QED
    BY <1>1, <2>1, <2>2, <2>3, <2>4, <2>5, StepKinds DEF Resizes
<1>2. Init => CapacityHeld
  <2> SUFFICES ASSUME Init
               PROVE  CapacityHeld
    OBVIOUS
  <2>1. SeatsTaken = 0
    BY FS_EmptySet DEF Init, Held, SeatsTaken
  <2> QED
    BY <2>1 DEF Init, CapacityHeld
<1>3. Counted /\ [Next]_vars => Counted'
  BY CountedStep
<1>4. Counted /\ CapacityHeld /\ [Next]_vars => CapacityHeld'
  BY <1>1
<1> QED
  BY <1>2, <1>3, <1>4, CountedInit, PTL DEF Spec

\* Confirming, releasing, withdrawing and editing implement the pool of seats.
THEOREM PoolImplemented ==
  ASSUME "complete" \notin Calls
  PROVE  Spec => ImplementsPool
<1>1. Init => Pool!Init
  BY DEF Init, Held, Pool!Init
<1>2. ASSUME Counted, Counted', [Next]_vars
      PROVE  [Pool!Next]_(Pool!vars)
  <2>1. /\ SeatsTaken \in Nat /\ seatsRequested' \in 1 .. MaxSeats
        /\ \A s \in Sessions : session[s].n \in Nat
    BY <1>2, HeldFinite DEF Counted, Typed, TypeOK, Session
  <2>2. CASE Calm
    BY <2>2, SameHeld DEF Calm, Pool!vars
  <2>3. CASE Gives
    BY <2>3 DEF Gives, Pool!Next, Pool!Give, Pool!vars
  <2>4. CASE Resizes
    BY <2>1, <2>4, SameHeld DEF Resizes, Pool!Next, Pool!Resize
  <2>5. ASSUME NEW s \in Sessions, Claims(s)
        PROVE  UNCHANGED Pool!vars
    BY <2>5, SameHeld DEF Claims, Pool!vars
  <2>6. ASSUME NEW s \in Sessions, Takes(s)
        PROVE  Pool!Next
    <3>1. Cardinality(Held) < seatsRequested
      BY <1>2, <2>1, <2>6 DEF Takes, Counted, Guarded, Typed, TypeOK, SeatsTaken
    <3>2. PICK e \in Experts : e \notin Held /\ Held' = Held \cup {e}
      BY <2>6 DEF Takes
    <3>3. Pool!Cardinality(Held) = Cardinality(Held)
      BY DEF Pool!Cardinality, Cardinality
    <3>4. Pool!Take(e)
      BY <2>6, <3>1, <3>2, <3>3 DEF Takes, Pool!Take
    <3> QED
      BY <3>4 DEF Pool!Next
  <2> QED
    BY <1>2, <2>2, <2>3, <2>4, <2>5, <2>6, StepKinds
<1>3. Counted /\ [Next]_vars => Counted'
  BY CountedStep
<1>4. Counted /\ Counted' /\ [Next]_vars => [Pool!Next]_(Pool!vars)
  BY <1>2
<1> QED
  BY <1>1, <1>3, <1>4, CountedInit, PTL DEF Spec, ImplementsPool, Pool!Spec

-----------------------------------------------------------------------------
(***************************************************************************)
(* The rows agree, whatever requests are in progress, edits and            *)
(* completions among them.  Each part of RowsAgree is kept by leaving out  *)
(* the pairs that break it, and no others; the run staffing_rows leaves    *)
(* out all of Conflicting and checks two experts and two requests.         *)
(***************************************************************************)
Apart(pairs) == Overlapping \cap pairs = {}

CountSafe      == Apart(BreakCount)
AcceptanceSafe == Apart(BreakAcceptance)
Unedited       == "edit" \notin Calls
StatusSafe     == Unedited /\ CountSafe /\ Apart(BreakStatus)

\* What a request has found is still so when it writes.
Knows(r) ==
  /\ Unedited /\ r.at = "release" => r.n = seatsRequested
  /\ CountSafe =>
       /\ r.at = "confirmWrite" => r.n = SeatsTaken /\ SeatsTaken < seatsRequested
       /\ r.at = "proposeWrite" => assignment[r.e] \in {"NONE", "RELEASED"}
       /\ r.at = "complete" => r.e \in Held
  /\ AcceptanceSafe =>
       /\ r.at \in {"propose", "proposeWrite"} => invitation[r.e] = "ACCEPTED"
       /\ r.at = "inviteWrite" /\ r.seen = "WITHDRAWN" => invitation[r.e] = "WITHDRAWN"
       /\ r.at = "withdraw" /\ r.seen # "CONFIRMED" => ~Active(r.e)
  /\ StatusSafe =>
       (r.at \in {"advance", "statusWrite", "confirmEnqueue"} /\ r.to = "ACTIVE" =>
          SeatsTaken >= seatsRequested)
Informed == \A s \in Sessions : Knows(session[s])

\* A seat that is offered or taken rests on an accepted invitation.
ActiveAccepted == \A e \in Experts : Active(e) => invitation[e] = "ACCEPTED"

RowsFit ==
  /\ CountSafe => FilledIsTaken /\ (Unedited => CapacityHeld)
  /\ AcceptanceSafe => ActiveAccepted
  /\ StatusSafe => ActiveIsFull
Agreed  == InProgress /\ RowsFit /\ Informed

LEMMA LeavesActive == ASSUME status \in ProjectStatus PROVE Advanced("STAFFING") # "ACTIVE"
BY DEF Advanced, PROJECT_TRANSITIONS, ProjectStatus

\* The pairs one by one, in either order.
LEMMA Excluded ==
  /\ CountSafe =>
       /\ {"propose", "propose"} \notin Overlapping
       /\ \A leaves \in {"release", "withdraw"} : {leaves, "complete"} \notin Overlapping
  /\ AcceptanceSafe =>
       /\ {"propose", "withdraw"} \notin Overlapping /\ {"withdraw", "propose"} \notin Overlapping
       /\ {"reinvite", "reinvite"} \notin Overlapping
  /\ StatusSafe =>
       \A leaves \in {"release", "withdraw"}, fills \in {"confirm", "activate"} :
         {leaves, fills} \notin Overlapping
<1>1. (\A c : {c, c} = {c}) /\ \A c, d : {c, d} = {d, c}
  OBVIOUS
<1>2. {"propose", "propose"} \in BreakCount /\ {"reinvite", "reinvite"} \in BreakAcceptance
  BY <1>1 DEF BreakCount, BreakAcceptance
<1>3. {"propose", "withdraw"} \in BreakAcceptance /\ {"withdraw", "propose"} \in BreakAcceptance
  BY <1>1 DEF BreakAcceptance
<1>4. \A leaves \in {"release", "withdraw"} : {leaves, "complete"} \in BreakCount
  BY DEF BreakCount
<1>5. \A leaves \in {"release", "withdraw"}, fills \in {"confirm", "activate"} : {leaves, fills} \in BreakStatus
  BY DEF BreakStatus
<1>6. ASSUME NEW pairs, Apart(pairs)
      PROVE  \A pair \in pairs : pair \notin Overlapping
  BY <1>6 DEF Apart
<1> QED
  BY <1>2, <1>3, <1>4, <1>5, <1>6 DEF CountSafe, AcceptanceSafe, StatusSafe

\* What another session is not doing beside one that is about to write.
LEMMA Alone ==
  ASSUME InProgress, NEW s \in Sessions, NEW t \in Sessions \ {s}
  PROVE  /\ CountSafe =>
              /\ session[s].at = "proposeWrite" => session[t].at \notin {"propose", "proposeWrite"}
              /\ session[s].at \in {"release", "withdraw"} => session[t].at # "complete"
         /\ AcceptanceSafe =>
              /\ session[s].at = "inviteWrite" /\ session[s].seen = "WITHDRAWN" =>
                   ~(session[t].at = "inviteWrite" /\ session[t].seen = "WITHDRAWN")
              /\ session[s].at = "withdraw" => session[t].at \notin {"propose", "proposeWrite"}
              /\ session[s].at = "proposeWrite" => session[t].at # "withdraw"
         /\ StatusSafe =>
              (session[s].at \in {"release", "withdraw"} =>
                 /\ session[t].at # "confirmEnqueue"
                 /\ ~(session[t].at \in {"advance", "statusWrite"} /\ session[t].to = "ACTIVE"))
         /\ session[s].at \in Locked => session[t].at \notin Locked
<1>1. /\ Serves(session[s]) /\ Serves(session[t])
      /\ Busy(s) /\ Busy(t) => {session[s].call, session[t].call} \in Overlapping
      /\ session[s].at \in Locked => session[t].at \notin Locked
  BY DEF InProgress, Served, Disciplined, LockHeld
<1>2. ASSUME CountSafe
      PROVE  /\ session[s].at = "proposeWrite" => session[t].at \notin {"propose", "proposeWrite"}
             /\ session[s].at \in {"release", "withdraw"} => session[t].at # "complete"
  BY <1>1, <1>2, Excluded DEF Serves, Busy
<1>3. ASSUME AcceptanceSafe
      PROVE  /\ session[s].at = "inviteWrite" /\ session[s].seen = "WITHDRAWN" =>
                  ~(session[t].at = "inviteWrite" /\ session[t].seen = "WITHDRAWN")
             /\ session[s].at = "withdraw" => session[t].at \notin {"propose", "proposeWrite"}
             /\ session[s].at = "proposeWrite" => session[t].at # "withdraw"
  BY <1>1, <1>3, Excluded DEF Serves, Busy
<1>4. ASSUME StatusSafe, session[s].at \in {"release", "withdraw"}
      PROVE  /\ session[t].at # "confirmEnqueue"
             /\ ~(session[t].at \in {"advance", "statusWrite"} /\ session[t].to = "ACTIVE")
  BY <1>1, <1>4, Excluded DEF Serves, Busy
<1> QED
  BY <1>1, <1>2, <1>3, <1>4

\* A session that is done, or has the project left to advance to a status that
\* is not ACTIVE, need not know anything.
LEMMA NothingToKnow ==
  ASSUME NEW s, Done(s) \/ \E to \in ProjectStatus : to # "ACTIVE" /\ ThenAdvance(s, to)
  PROVE  \E r : Goes(s, r) /\ Knows(r) /\ Knows(r)'
<1>1. CASE Done(s)
  <2>1. Goes(s, Idle) /\ Idle.at = "idle"
    BY <1>1 DEF Done, Idle, At
  <2> QED
    BY <2>1 DEF Knows
<1>2. ASSUME NEW to \in ProjectStatus, to # "ACTIVE", ThenAdvance(s, to)
      PROVE  \E r : Goes(s, r) /\ Knows(r) /\ Knows(r)'
  <2> DEFINE r == [At(session[s].call, "advance", NoExpert) EXCEPT !.to = to]
  <2>1. PICK call : call = session[s].call
    OBVIOUS
  <2>2. PICK q : q = [At(call, "advance", NoExpert) EXCEPT !.to = to]
    OBVIOUS
  <2>3. Goes(s, q) /\ q.at = "advance" /\ q.to = to
    BY <1>2, <2>1, <2>2, Remembered DEF ThenAdvance
  <2>4. Knows(q) /\ Knows(q)'
    BY <1>2, <2>3 DEF Knows
  <2> QED
    BY <2>3, <2>4
<1> QED
  BY <1>1, <1>2

\* A session goes on, and the others still know what they knew.
LEMMA StillInformed ==
  ASSUME InProgress, NEW s \in Sessions, NEW r, Goes(s, r), Knows(r)',
         \A t \in Sessions \ {s} : Knows(session[t])'
  PROVE  Informed'
<1>1. session'[s] = r
  BY DEF InProgress, Typed, TypeOK, Goes
<1>2. Knows(session[s])'
  BY <1>1 DEF Knows
<1> QED
  BY <1>2 DEF Informed

LEMMA AgreedStep ==
  ASSUME Agreed, [Next]_vars
  PROVE  Agreed'
<1>t. InProgress /\ InProgress' /\ Typed /\ Typed'
  BY InProgressStep DEF Agreed, InProgress
<1>0. /\ SeatsTaken \in Nat /\ seatsFilled \in Nat /\ seatsRequested \in Nat
      /\ status \in ProjectStatus
      /\ invitation \in [Experts -> InvitationStatus] /\ assignment \in [Experts -> AssignmentStatus]
      /\ Held = {e \in Experts : assignment[e] \in {"CONFIRMED", "COMPLETED"}}
  BY <1>t, HeldFinite DEF Typed, TypeOK, Held
<1>a. /\ CountSafe => seatsFilled = SeatsTaken /\ FilledIsTaken /\ (Unedited => CapacityHeld)
      /\ AcceptanceSafe => ActiveAccepted
      /\ StatusSafe => ActiveIsFull /\ CountSafe /\ Unedited
  BY DEF Agreed, RowsFit, FilledIsTaken, StatusSafe
<1>k. ASSUME NEW s \in Sessions
      PROVE  /\ Knows(session[s]) /\ Serves(session[s]) /\ session[s].to \in ProjectStatus
             /\ session[s].at \in Personal => session[s].e \in Experts
             /\ session[s].at \in Locked => lock = s
  BY <1>t DEF Agreed, Informed, InProgress, Typed, TypeOK, SessionsFit, Fits, Session, Served, LockHeld
<1>o. ASSUME NEW s \in Sessions, NEW r, Goes(s, r)
      PROVE  \A t \in Sessions \ {s} : session'[t] = session[t]
  BY <1>o, <1>t DEF Goes, Typed, TypeOK
\* A step that reads.
<1>r. ASSUME NEW s \in Sessions, NEW r, Goes(s, r), Knows(r), UNCHANGED <<projectVars, invitation, assignment>>
      PROVE  Agreed'
  <2>1. Held' = Held /\ SeatsTaken' = SeatsTaken
    BY <1>r, SameHeld
  <2>2. RowsFit'
    BY <1>0, <1>a, <1>r, <2>1 DEF RowsFit, FilledIsTaken, ActiveAccepted, Active, ActiveIsFull, CapacityHeld, projectVars
  <2>3. Knows(r)' /\ \A t \in Sessions \ {s} : Knows(session[t])'
    BY <1>k, <1>o, <1>r, <2>1 DEF Knows, Active, projectVars
  <2> QED
    BY <1>r, <1>t, <2>2, <2>3, StillInformed DEF Agreed
<1>d. ASSUME NEW s \in Sessions, UNCHANGED <<projectVars, invitation, assignment>>,
             Done(s) \/ \E to \in ProjectStatus : to # "ACTIVE" /\ ThenAdvance(s, to)
      PROVE  Agreed'
  BY <1>d, <1>r, NothingToKnow
\* A step that writes, with nothing left to know.
<1>w. ASSUME NEW s \in Sessions, RowsFit',
             Done(s) \/ \E to \in ProjectStatus : to # "ACTIVE" /\ ThenAdvance(s, to),
             \A t \in Sessions \ {s} : session'[t] = session[t] => Knows(session[t])'
      PROVE  Agreed'
  <2>1. PICK r : Goes(s, r) /\ Knows(r)'
    BY <1>w, NothingToKnow
  <2> QED
    BY <1>o, <1>t, <1>w, <2>1, StillInformed DEF Agreed
\* A seat is given back, and the project is told if it is short of one.
<1>f. ASSUME NEW s \in Sessions, NEW e \in Experts, NEW n, Frees(e, n), UNCHANGED seatsRequested,
             Unedited => n = seatsRequested, Done(s), session[s].at \in {"release", "withdraw"},
             lock \in {s, NoSession},
             \A x \in Experts \ {e} : invitation'[x] = invitation[x],
             \A x \in Experts : invitation'[x] # invitation[x] =>
               session[s].at = "withdraw" /\ invitation[x] = "ACCEPTED"
      PROVE  Agreed'
  <2>1. Held' = Held \ {e} /\ seatsFilled' = SeatsTaken' /\ SeatsTaken' \in Nat /\ SeatsTaken' <= SeatsTaken
    <3>1. Held' = Held \ {e} /\ seatsFilled' = SeatsTaken'
      BY <1>f, <1>t, FreesSeat
    <3> QED
      BY <3>1, Fewer
  <2>2. assignment' = [assignment EXCEPT ![e] = "RELEASED"]
    BY <1>f DEF Frees
  <2>3. RowsFit'
    <3>1. AcceptanceSafe => ActiveAccepted'
      BY <1>0, <1>a, <1>f, <2>2 DEF ActiveAccepted, Active
    <3>2. StatusSafe => ActiveIsFull'
      BY <1>0, <1>a, <1>f, <2>1, LeavesActive DEF Frees, ActiveIsFull
    <3>3. CountSafe => FilledIsTaken' /\ (Unedited => CapacityHeld')
      BY <1>0, <1>a, <1>f, <2>1 DEF FilledIsTaken, CapacityHeld
    <3> QED
      BY <3>1, <3>2, <3>3 DEF RowsFit
  <2>4. ASSUME NEW t \in Sessions \ {s}, session'[t] = session[t]
        PROVE  Knows(session[t])'
    <3>1. session[t].at # "confirmWrite"
      BY <1>f, <1>k, StaffingAssumption DEF Locked
    <3>2. CountSafe =>
            /\ session[t].at # "complete"
            /\ session[t].at = "proposeWrite" => assignment'[session[t].e] \in {"NONE", "RELEASED"}
      <4>1. CountSafe => session[t].at # "complete"
        BY <1>f, <1>t, Alone
      <4> QED
        BY <1>0, <1>k, <2>2, <4>1 DEF Knows, Personal
    <3>3. AcceptanceSafe =>
            /\ session[t].at \in {"propose", "proposeWrite"} => invitation'[session[t].e] = "ACCEPTED"
            /\ session[t].at = "inviteWrite" /\ session[t].seen = "WITHDRAWN" =>
                 invitation'[session[t].e] = "WITHDRAWN"
            /\ session[t].at = "withdraw" /\ session[t].seen # "CONFIRMED" => ~Active(session[t].e)'
      <4>1. AcceptanceSafe /\ session[s].at = "withdraw" => session[t].at \notin {"propose", "proposeWrite"}
        BY <1>t, Alone
      <4>2. AcceptanceSafe =>
              /\ session[t].at \in {"propose", "proposeWrite"} => invitation'[session[t].e] = "ACCEPTED"
              /\ session[t].at = "inviteWrite" /\ session[t].seen = "WITHDRAWN" =>
                   invitation'[session[t].e] = "WITHDRAWN"
        BY <1>f, <1>k, <4>1 DEF Knows, Personal
      <4>3. AcceptanceSafe =>
              (session[t].at = "withdraw" /\ session[t].seen # "CONFIRMED" => ~Active(session[t].e)')
        BY <1>0, <1>k, <2>2, <2>4 DEF Knows, Personal, Active
      <4> QED
        BY <4>2, <4>3
    <3>4. StatusSafe => /\ session[t].at # "confirmEnqueue"
                        /\ ~(session[t].at \in {"advance", "statusWrite"} /\ session[t].to = "ACTIVE")
      BY <1>f, <1>t, Alone
    <3> QED
      BY <1>f, <1>k, <2>4, <3>1, <3>2, <3>3, <3>4 DEF Knows
  <2> QED
    BY <1>f, <1>w, <2>3, <2>4
<1>1. ASSUME NEW s \in Sessions, AdvanceRead(s)
      PROVE  Agreed'
  <2>1. PICK to, call : to = session[s].to /\ call = session[s].call
    OBVIOUS
  <2>2. PICK r : r = [At(call, "statusWrite", NoExpert) EXCEPT !.to = to]
    OBVIOUS
  <2>3. r.at = "statusWrite" /\ r.to = to
    BY <2>2, Remembered
  <2>4. Knows(r)
    BY <1>1, <1>k, <2>1, <2>3 DEF Knows, AdvanceRead
  <2>5. (Goes(s, r) \/ Done(s)) /\ UNCHANGED <<projectVars, invitation, assignment>>
    BY <1>1, <2>1, <2>2 DEF AdvanceRead, expertVars
  <2> QED
    BY <1>r, <1>d, <2>4, <2>5
<1>2. ASSUME NEW s \in Sessions, NEW to \in ProjectStatus, StatusRead(s, to)
      PROVE  Agreed'
  <2>1. PICK call : call = StatusCall(to)
    OBVIOUS
  <2>2. PICK r : r = [At(call, "statusWrite", NoExpert) EXCEPT !.to = to]
    OBVIOUS
  <2>3. r.at = "statusWrite" /\ r.to = to
    BY <2>2, Remembered
  <2>4. Knows(r)
    BY <1>0, <1>2, <1>a, <2>3 DEF Knows, StatusRead
  <2>5. Goes(s, r) /\ UNCHANGED <<projectVars, invitation, assignment>>
    BY <1>2, <2>1, <2>2 DEF StatusRead, expertVars
  <2> QED
    BY <1>r, <2>4, <2>5
<1>3. ASSUME NEW s \in Sessions, StatusWrite(s)
      PROVE  Agreed'
  <2>1. Done(s) /\ status' = session[s].to /\ UNCHANGED <<seatsRequested, seatsFilled, invitation, assignment>>
    BY <1>3 DEF StatusWrite, expertVars
  <2>2. Held' = Held /\ SeatsTaken' = SeatsTaken
    BY <2>1, SameHeld
  <2>3. RowsFit'
    BY <1>0, <1>a, <1>3, <1>k, <2>1, <2>2
       DEF Knows, StatusWrite, RowsFit, ActiveIsFull, CapacityHeld, FilledIsTaken, ActiveAccepted, Active
  <2>4. ASSUME NEW t \in Sessions \ {s}, session'[t] = session[t]
        PROVE  Knows(session[t])'
    BY <1>k, <2>1, <2>2, <2>4 DEF Knows, Active
  <2> QED
    BY <1>w, <2>1, <2>3, <2>4
<1>4. ASSUME NEW s \in Sessions, NEW n \in 1 .. MaxSeats, EditRead(s, n)
      PROVE  Agreed'
  <2>1. PICK r : r = [At("edit", "edit", NoExpert) EXCEPT !.n = n]
    OBVIOUS
  <2>2. r.at = "edit"
    BY <2>1, Remembered
  <2>3. Knows(r)
    BY <2>2 DEF Knows
  <2> QED
    BY <1>4, <1>r, <2>1, <2>3 DEF EditRead, expertVars
<1>5. ASSUME NEW s \in Sessions, EditWrite(s)
      PROVE  Agreed'
  <2>1. Done(s) /\ UNCHANGED <<status, seatsFilled, invitation, assignment>> /\ lock = NoSession /\ ~Unedited
    BY <1>5, <1>k DEF EditWrite, expertVars, Unlocked, Serves, Unedited
  <2>2. Held' = Held /\ SeatsTaken' = SeatsTaken
    BY <2>1, SameHeld
  <2>3. RowsFit'
    BY <1>0, <1>a, <2>1, <2>2 DEF RowsFit, FilledIsTaken, ActiveAccepted, Active, Unedited
  <2>4. ASSUME NEW t \in Sessions \ {s}, session'[t] = session[t]
        PROVE  Knows(session[t])'
    <3>1. session[t].at # "confirmWrite"
      BY <1>k, <2>1, StaffingAssumption DEF Locked
    <3> QED
      BY <1>a, <1>k, <2>1, <2>2, <2>4, <3>1 DEF Knows, Active, Unedited
  <2> QED
    BY <1>w, <2>1, <2>3, <2>4
<1>6. ASSUME NEW s \in Sessions, NEW e \in Experts, InviteRead(s, e)
      PROVE  Agreed'
  <2>1. PICK x, call : x = invitation[e] /\ call = InviteCall(e)
    OBVIOUS
  <2>2. PICK r : r = [At(call, "inviteWrite", e) EXCEPT !.seen = x]
    OBVIOUS
  <2>3. r.at = "inviteWrite" /\ r.e = e /\ r.seen = x
    BY <2>2, Remembered
  <2>4. Knows(r)
    BY <2>1, <2>3 DEF Knows
  <2>5. Goes(s, r) /\ UNCHANGED <<projectVars, invitation, assignment>>
    BY <1>6, <2>1, <2>2 DEF InviteRead, expertVars
  <2> QED
    BY <1>r, <2>4, <2>5
<1>7. ASSUME NEW s \in Sessions, InviteWrite(s)
      PROVE  Agreed'
  <2>1. /\ session[s].at = "inviteWrite" /\ session[s].e \in Experts
        /\ \/ session[s].seen = "NONE"
           \/ session[s].seen = "WITHDRAWN" /\ (AcceptanceSafe => invitation[session[s].e] = "WITHDRAWN")
    BY <1>7, <1>k DEF InviteWrite, Personal, Knows, Serves
  <2>2. /\ UNCHANGED <<status, seatsRequested, seatsFilled, assignment>>
        /\ \/ Done(s) /\ invitation' = invitation
           \/ /\ ThenAdvance(s, "INVITING") /\ invitation' = [invitation EXCEPT ![session[s].e] = "SENT"]
              /\ session[s].seen = "NONE" => invitation[session[s].e] = "NONE"
    BY <1>7, <2>1 DEF InviteWrite, projectVars
  <2>3. Held' = Held /\ SeatsTaken' = SeatsTaken
    BY <2>2, SameHeld
  <2>4. AcceptanceSafe =>
          /\ \A x \in Experts : invitation[x] = "ACCEPTED" => invitation'[x] = "ACCEPTED"
          /\ \A x \in Experts : invitation[x] = "WITHDRAWN" =>
               invitation'[x] = "WITHDRAWN" \/ (x = session[s].e /\ session[s].seen = "WITHDRAWN")
    BY <1>0, <2>1, <2>2
  <2>5. RowsFit'
    BY <1>0, <1>a, <2>2, <2>3, <2>4 DEF RowsFit, FilledIsTaken, ActiveIsFull, CapacityHeld, ActiveAccepted, Active
  <2>6. ASSUME NEW t \in Sessions \ {s}, session'[t] = session[t]
        PROVE  Knows(session[t])'
    <3>1. AcceptanceSafe /\ session[s].seen = "WITHDRAWN" =>
            ~(session[t].at = "inviteWrite" /\ session[t].seen = "WITHDRAWN")
      BY <1>t, <2>1, Alone
    <3>2. AcceptanceSafe =>
            /\ session[t].at \in {"propose", "proposeWrite"} => invitation'[session[t].e] = "ACCEPTED"
            /\ session[t].at = "inviteWrite" /\ session[t].seen = "WITHDRAWN" =>
                 invitation'[session[t].e] = "WITHDRAWN"
      BY <1>k, <2>4, <3>1 DEF Knows, Personal
    <3> QED
      BY <1>k, <2>2, <2>3, <2>6, <3>2 DEF Knows, Active
  <2>7. "INVITING" \in ProjectStatus
    BY DEF ProjectStatus
  <2> QED
    BY <1>w, <2>2, <2>5, <2>6, <2>7
\* An invitation that was sent is answered or ends: nobody relied on it.
<1>8. ASSUME NEW e \in Experts, invitation[e] = "SENT", NEW x,
             invitation' = [invitation EXCEPT ![e] = x],
             UNCHANGED <<status, seatsRequested, seatsFilled, assignment>>
      PROVE  /\ RowsFit'
             /\ \A t \in Sessions : session'[t] = session[t] => Knows(session[t])'
  <2>1. Held' = Held /\ SeatsTaken' = SeatsTaken
    BY <1>8, SameHeld
  <2>2. \A y \in Experts : invitation[y] \in {"ACCEPTED", "WITHDRAWN"} => invitation'[y] = invitation[y]
    BY <1>0, <1>8
  <2>3. RowsFit'
    BY <1>0, <1>a, <1>8, <2>1, <2>2 DEF RowsFit, FilledIsTaken, ActiveIsFull, CapacityHeld, ActiveAccepted, Active
  <2>4. ASSUME NEW t \in Sessions, session'[t] = session[t]
        PROVE  Knows(session[t])'
    <3>1. AcceptanceSafe =>
            /\ session[t].at \in {"propose", "proposeWrite"} => invitation'[session[t].e] = "ACCEPTED"
            /\ session[t].at = "inviteWrite" /\ session[t].seen = "WITHDRAWN" =>
                 invitation'[session[t].e] = "WITHDRAWN"
      BY <1>k, <2>2 DEF Knows, Personal
    <3> QED
      BY <1>8, <1>k, <2>1, <2>4, <3>1 DEF Knows, Active
  <2> QED
    BY <2>3, <2>4
<1>9. ASSUME NEW s \in Sessions, NEW e \in Experts, Accept(s, e)
      PROVE  Agreed'
  <2>1. PICK r : r = At("answer", "answerCount", e)
    OBVIOUS
  <2>2. /\ UNCHANGED <<status, seatsRequested, seatsFilled, assignment>> /\ Goes(s, r)
        /\ invitation[e] = "SENT" /\ invitation' = [invitation EXCEPT ![e] = "ACCEPTED"]
    BY <1>9, <2>1 DEF Accept, projectVars
  <2>3. r.at = "answerCount"
    BY <2>1, Remembered
  <2>4. Knows(r)'
    BY <2>3 DEF Knows
  <2> QED
    BY <1>8, <1>o, <1>t, <2>2, <2>4, StillInformed DEF Agreed
<1>10. ASSUME NEW e \in Experts, InvitationEnds(e)
       PROVE  Agreed'
  <2>1. /\ UNCHANGED <<status, seatsRequested, seatsFilled, assignment, session>>
        /\ invitation[e] = "SENT" /\ invitation' = [invitation EXCEPT ![e] = "WITHDRAWN"]
    BY <1>10 DEF InvitationEnds, projectVars
  <2> QED
    BY <1>8, <1>t, <2>1 DEF Agreed, Informed
<1>11. ASSUME NEW s \in Sessions, AnswerCount(s)
       PROVE  Agreed'
  <2>1. "STAFFING" \in ProjectStatus
    BY DEF ProjectStatus
  <2> QED
    BY <1>11, <1>d, <2>1 DEF AnswerCount, expertVars
<1>12. ASSUME NEW s \in Sessions, NEW e \in Experts, ProposeCheck(s, e)
       PROVE  Agreed'
  <2>1. PICK r : r = At("propose", "propose", e)
    OBVIOUS
  <2>2. r.at = "propose" /\ r.e = e
    BY <2>1, Remembered
  <2>3. Knows(r)
    BY <1>12, <2>2 DEF Knows, ProposeCheck
  <2> QED
    BY <1>12, <1>r, <2>1, <2>3 DEF ProposeCheck, expertVars
<1>13. ASSUME NEW s \in Sessions, ProposeRead(s)
       PROVE  Agreed'
  <2>1. PICK e, x : e = session[s].e /\ x = assignment[e]
    OBVIOUS
  <2>2. PICK r : r = [At("propose", "proposeWrite", e) EXCEPT !.seen = x]
    OBVIOUS
  <2>3. r.at = "proposeWrite" /\ r.e = e
    BY <2>2, Remembered
  <2>4. /\ UNCHANGED <<projectVars, invitation, assignment>> /\ (AcceptanceSafe => invitation[e] = "ACCEPTED")
        /\ Done(s) \/ (Goes(s, r) /\ x \in {"NONE", "RELEASED"})
    BY <1>13, <1>k, <2>1, <2>2 DEF ProposeRead, Knows, expertVars
  <2>5. x \in {"NONE", "RELEASED"} => Knows(r)
    BY <2>1, <2>3, <2>4 DEF Knows
  <2> QED
    BY <1>d, <1>r, <2>4, <2>5
<1>14. ASSUME NEW s \in Sessions, ProposeWrite(s)
       PROVE  Agreed'
  <2>1. PICK e \in Experts : /\ e = session[s].e /\ session[s].at = "proposeWrite"
                             /\ CountSafe => assignment[e] \in {"NONE", "RELEASED"}
                             /\ AcceptanceSafe => invitation[e] = "ACCEPTED"
    BY <1>14, <1>k DEF ProposeWrite, Personal, Knows
  <2>2. /\ UNCHANGED <<status, seatsRequested, seatsFilled, invitation>> /\ Done(s)
        /\ assignment' = assignment \/ assignment' = [assignment EXCEPT ![e] = "PROPOSED"]
    BY <1>14, <2>1 DEF ProposeWrite, projectVars
  <2>3. CountSafe => Held' = Held /\ SeatsTaken' = SeatsTaken
    BY <1>0, <2>1, <2>2 DEF Held, SeatsTaken
  <2>4. RowsFit'
    <3>1. CountSafe => FilledIsTaken' /\ (Unedited => CapacityHeld')
      BY <1>a, <2>2, <2>3 DEF FilledIsTaken, CapacityHeld
    <3>2. AcceptanceSafe => ActiveAccepted'
      BY <1>0, <1>a, <2>1, <2>2 DEF ActiveAccepted, Active
    <3>3. StatusSafe => ActiveIsFull'
      BY <1>a, <2>2, <2>3 DEF ActiveIsFull
    <3> QED
      BY <3>1, <3>2, <3>3 DEF RowsFit
  <2>5. ASSUME NEW t \in Sessions \ {s}, session'[t] = session[t]
        PROVE  Knows(session[t])'
    <3>1. /\ CountSafe => session[t].at \notin {"propose", "proposeWrite"}
          /\ AcceptanceSafe => session[t].at # "withdraw"
      BY <1>t, <2>1, Alone
    <3> QED
      BY <1>a, <1>k, <2>2, <2>3, <2>5, <3>1 DEF Knows
  <2> QED
    BY <1>w, <2>2, <2>4, <2>5
<1>15. ASSUME NEW s \in Sessions, NEW e \in Experts, ConfirmRead(s, e)
       PROVE  Agreed'
  <2>1. PICK r : r = At("confirm", "confirmLock", e)
    OBVIOUS
  <2>2. r.at = "confirmLock"
    BY <2>1, Remembered
  <2>3. Knows(r)
    BY <2>2 DEF Knows
  <2> QED
    BY <1>15, <1>r, <2>1, <2>3 DEF ConfirmRead, expertVars
<1>16. ASSUME NEW s \in Sessions, ConfirmLock(s)
       PROVE  Agreed'
  <2>1. PICK e, n, x : e = session[s].e /\ n = SeatsTaken /\ x = status
    OBVIOUS
  <2>2. PICK r : r = [At("confirm", "confirmWrite", e) EXCEPT !.n = n, !.seen = x]
    OBVIOUS
  <2>3. r.at = "confirmWrite" /\ r.n = n
    BY <2>2, Remembered
  <2>4. /\ UNCHANGED <<projectVars, invitation, assignment>>
        /\ Done(s) \/ (Goes(s, r) /\ SeatsTaken < seatsRequested)
    BY <1>16, <2>1, <2>2 DEF ConfirmLock, expertVars
  <2>5. SeatsTaken < seatsRequested => Knows(r)
    BY <2>1, <2>3 DEF Knows
  <2> QED
    BY <1>d, <1>r, <2>4, <2>5
<1>17. ASSUME NEW s \in Sessions, ConfirmWrite(s)
       PROVE  Agreed'
  <2>1. PICK e \in Experts : e = session[s].e
    BY <1>17, <1>k DEF ConfirmWrite, Personal
  <2>2. CASE assignment[e] # "PROPOSED"
    BY <1>17, <1>d, <2>1, <2>2 DEF ConfirmWrite, projectVars
  <2>3. CASE assignment[e] = "PROPOSED"
    <3>1. /\ assignment' = [assignment EXCEPT ![e] = "CONFIRMED"]
          /\ seatsFilled' = session[s].n + 1 /\ session[s].at = "confirmWrite"
          /\ UNCHANGED <<status, seatsRequested, invitation>>
          /\ CountSafe => session[s].n = SeatsTaken /\ SeatsTaken < seatsRequested
      BY <1>17, <1>k, <2>1, <2>3 DEF ConfirmWrite, Knows
    <3>2. e \notin Held /\ Held' = Held \cup {e}
      BY <1>0, <2>3, <3>1 DEF Held
    <3>3. SeatsTaken' = SeatsTaken + 1 /\ (CountSafe => seatsFilled' = SeatsTaken')
      BY <1>0, <3>1, <3>2, OneMore
    <3>4. RowsFit'
      <4>1. AcceptanceSafe => ActiveAccepted'
        BY <1>0, <1>a, <2>3, <3>1 DEF ActiveAccepted, Active
      <4>2. CountSafe => FilledIsTaken' /\ (Unedited => CapacityHeld')
        BY <1>0, <3>1, <3>3 DEF FilledIsTaken, CapacityHeld
      <4>3. StatusSafe => ActiveIsFull'
        BY <1>0, <1>a, <3>1, <3>3 DEF ActiveIsFull
      <4> QED
        BY <4>1, <4>2, <4>3 DEF RowsFit
    <3>5. ASSUME NEW t \in Sessions \ {s}, session'[t] = session[t]
          PROVE  Knows(session[t])'
      <4>1. session[t].at \notin {"confirmWrite", "withdraw"}
        BY <1>t, <3>1, Alone DEF Locked
      <4>2. CountSafe /\ session[t].at = "proposeWrite" => assignment'[session[t].e] = assignment[session[t].e]
        BY <1>0, <1>k, <2>3, <3>1 DEF Knows, Personal
      <4> QED
        BY <1>0, <1>a, <1>k, <3>1, <3>2, <3>3, <3>5, <4>1, <4>2 DEF Knows
    <3>6. PICK to : /\ Goes(s, [At("confirm", "confirmEnqueue", e) EXCEPT !.to = to])
                    /\ StatusSafe => (to = "ACTIVE" => SeatsTaken' >= seatsRequested')
      <4>1. CASE seatsFilled' >= seatsRequested /\ session[s].seen # "ACTIVE"
        BY <1>17, <1>a, <2>1, <2>3, <3>1, <3>3, <4>1 DEF ConfirmWrite
      <4>2. CASE ~(seatsFilled' >= seatsRequested /\ session[s].seen # "ACTIVE")
        <5>1. At("confirm", "confirmEnqueue", e).to = "DRAFT"
          BY DEF At
        <5>2. Goes(s, [At("confirm", "confirmEnqueue", e) EXCEPT !.to = "DRAFT"])
          BY <1>17, <2>1, <2>3, <4>2, <5>1 DEF ConfirmWrite, At
        <5> QED
          BY <5>2
      <4> QED
        BY <4>1, <4>2
    <3>7. PICK r : r = [At("confirm", "confirmEnqueue", e) EXCEPT !.to = to]
      OBVIOUS
    <3>8. r.at = "confirmEnqueue" /\ r.to = to
      BY <3>7, Remembered
    <3>9. Knows(r)'
      BY <3>6, <3>8 DEF Knows
    <3>10. Informed'
      BY <1>o, <1>t, <3>5, <3>6, <3>7, <3>9, StillInformed
    <3> QED
      BY <1>t, <3>4, <3>10 DEF Agreed
  <2> QED
    BY <2>2, <2>3
<1>18. ASSUME NEW s \in Sessions, ConfirmEnqueue(s)
       PROVE  Agreed'
  <2>1. UNCHANGED <<projectVars, invitation, assignment>>
    BY <1>18 DEF ConfirmEnqueue
  <2>2. CASE session[s].to = "ACTIVE"
    <3>1. PICK call : call = session[s].call
      OBVIOUS
    <3>2. PICK r : r = [At(call, "advance", NoExpert) EXCEPT !.to = "ACTIVE"]
      OBVIOUS
    <3>3. r.at = "advance" /\ r.to = "ACTIVE"
      BY <3>2, Remembered
    <3>4. Knows(r)
      BY <1>18, <1>k, <2>2, <3>3 DEF Knows, ConfirmEnqueue
    <3> QED
      BY <1>18, <1>r, <2>1, <2>2, <3>1, <3>2, <3>4 DEF ConfirmEnqueue, ThenAdvance
  <2>3. CASE session[s].to # "ACTIVE"
    BY <1>18, <1>d, <2>1, <2>3 DEF ConfirmEnqueue
  <2> QED
    BY <2>2, <2>3
<1>19. ASSUME NEW s \in Sessions, NEW e \in Experts, ReleaseRead(s, e)
       PROVE  Agreed'
  <2>1. PICK n : n = seatsRequested
    OBVIOUS
  <2>2. PICK r : r = [At("release", "release", e) EXCEPT !.n = n]
    OBVIOUS
  <2>3. r.at = "release" /\ r.n = n
    BY <2>2, Remembered
  <2>4. Knows(r)
    BY <2>1, <2>3 DEF Knows
  <2> QED
    BY <1>19, <1>r, <2>1, <2>2, <2>4 DEF ReleaseRead, expertVars
<1>20. ASSUME NEW s \in Sessions, ReleaseCommit(s)
       PROVE  Agreed'
  <2>1. PICK e \in Experts : e = session[s].e
    BY <1>20, <1>k DEF ReleaseCommit, Personal
  <2>2. CASE assignment[e] \in {"PROPOSED", "CONFIRMED"}
    <3>1. /\ Frees(e, session[s].n) /\ Done(s) /\ UNCHANGED <<seatsRequested, invitation>>
          /\ session[s].at = "release" /\ (Unedited => session[s].n = seatsRequested)
          /\ lock = NoSession
      BY <1>20, <1>k, <2>1, <2>2 DEF ReleaseCommit, Knows, Unlocked
    <3> QED
      BY <1>f, <3>1
  <2>3. CASE assignment[e] \notin {"PROPOSED", "CONFIRMED"}
    BY <1>20, <1>d, <2>1, <2>3 DEF ReleaseCommit, projectVars
  <2> QED
    BY <2>2, <2>3
<1>21. ASSUME NEW s \in Sessions, NEW e \in Experts, CompleteRead(s, e)
       PROVE  Agreed'
  <2>1. PICK r : r = At("complete", "complete", e)
    OBVIOUS
  <2>2. r.at = "complete" /\ r.e = e
    BY <2>1, Remembered
  <2>3. Knows(r)
    BY <1>0, <1>21, <2>2 DEF Knows, CompleteRead
  <2> QED
    BY <1>21, <1>r, <2>1, <2>3 DEF CompleteRead, expertVars
<1>22. ASSUME NEW s \in Sessions, CompleteWrite(s)
       PROVE  Agreed'
  <2>1. PICK e \in Experts : e = session[s].e /\ (CountSafe => e \in Held)
    BY <1>22, <1>k DEF CompleteWrite, Personal, Knows
  <2>2. /\ UNCHANGED <<status, seatsRequested, seatsFilled, invitation>> /\ Done(s)
        /\ assignment' = [assignment EXCEPT ![e] = "COMPLETED"]
    BY <1>22, <2>1 DEF CompleteWrite, projectVars
  <2>3. CountSafe => Held' = Held /\ SeatsTaken' = SeatsTaken
    BY <1>0, <2>1, <2>2 DEF Held, SeatsTaken
  <2>4. RowsFit'
    <3>1. CountSafe => FilledIsTaken' /\ (Unedited => CapacityHeld')
      BY <1>a, <2>2, <2>3 DEF FilledIsTaken, CapacityHeld
    <3>2. AcceptanceSafe => ActiveAccepted'
      BY <1>0, <1>a, <2>2 DEF ActiveAccepted, Active
    <3>3. StatusSafe => ActiveIsFull'
      BY <1>a, <2>2, <2>3 DEF ActiveIsFull
    <3> QED
      BY <3>1, <3>2, <3>3 DEF RowsFit
  <2>5. ASSUME NEW t \in Sessions \ {s}, session'[t] = session[t]
        PROVE  Knows(session[t])'
    <3>1. /\ CountSafe =>
               (session[t].at = "proposeWrite" => assignment'[session[t].e] \in {"NONE", "RELEASED"})
          /\ AcceptanceSafe =>
               (session[t].at = "withdraw" /\ session[t].seen # "CONFIRMED" => ~Active(session[t].e)')
      BY <1>0, <1>k, <2>1, <2>2, <2>5 DEF Knows, Personal, Active
    <3> QED
      BY <1>a, <1>k, <2>2, <2>3, <2>5, <3>1 DEF Knows
  <2> QED
    BY <1>w, <2>2, <2>4, <2>5
<1>23. ASSUME NEW s \in Sessions, NEW e \in Experts, WithdrawLock(s, e)
       PROVE  Agreed'
  <2>1. PICK x : x = (IF Active(e) THEN "CONFIRMED" ELSE "NONE")
    OBVIOUS
  <2>2. PICK r : r = [At("withdraw", "withdraw", e) EXCEPT !.seen = x]
    OBVIOUS
  <2>3. r.at = "withdraw" /\ r.e = e /\ r.seen = x
    BY <2>2, Remembered
  <2>4. Knows(r)
    BY <2>1, <2>3 DEF Knows
  <2> QED
    BY <1>23, <1>r, <2>1, <2>2, <2>4 DEF WithdrawLock, expertVars
<1>24. ASSUME NEW s \in Sessions, WithdrawCommit(s)
       PROVE  Agreed'
  <2>1. PICK e \in Experts : e = session[s].e /\ session[s].at = "withdraw"
    BY <1>24, <1>k DEF WithdrawCommit, Personal
  <2>2. Done(s) /\ UNCHANGED seatsRequested /\ lock = s
    BY <1>24, <1>k, <2>1 DEF WithdrawCommit, Locked
  <2>3. CASE session[s].seen = "CONFIRMED" /\ ~Active(e)
    BY <1>24, <1>d, <2>1, <2>3 DEF WithdrawCommit, projectVars
  <2>4. CASE ~(session[s].seen = "CONFIRMED" /\ ~Active(e))
    <3>1. invitation' = [invitation EXCEPT ![e] = IF @ = "ACCEPTED" THEN "WITHDRAWN" ELSE @]
      BY <1>24, <2>1, <2>4 DEF WithdrawCommit
    <3>2. /\ \A x \in Experts \ {e} : invitation'[x] = invitation[x]
          /\ \A x \in Experts : invitation'[x] # invitation[x] => invitation[x] = "ACCEPTED"
      BY <1>0, <3>1
    <3>3. CASE session[s].seen = "CONFIRMED"
      <4>1. Frees(e, seatsRequested)
        BY <1>24, <2>1, <2>4, <3>3 DEF WithdrawCommit
      <4> QED
        BY <1>f, <2>1, <2>2, <3>2, <4>1
    <3>4. CASE session[s].seen # "CONFIRMED"
      <4>1. /\ UNCHANGED <<assignment, seatsFilled>> /\ (AcceptanceSafe => ~Active(e))
            /\ status' = IF seatsFilled < seatsRequested THEN Advanced("STAFFING") ELSE status
        BY <1>24, <1>k, <2>1, <2>4, <3>4 DEF WithdrawCommit, Knows
      <4>2. Held' = Held /\ SeatsTaken' = SeatsTaken
        BY <4>1, SameHeld
      <4>3. RowsFit'
        <5>1. AcceptanceSafe => ActiveAccepted'
          BY <1>0, <1>a, <3>2, <4>1 DEF ActiveAccepted, Active
        <5>2. StatusSafe => ActiveIsFull'
          BY <1>0, <1>a, <2>2, <4>1, <4>2, LeavesActive DEF ActiveIsFull
        <5>3. CountSafe => FilledIsTaken' /\ (Unedited => CapacityHeld')
          BY <1>a, <2>2, <4>1, <4>2 DEF FilledIsTaken, CapacityHeld
        <5> QED
          BY <5>1, <5>2, <5>3 DEF RowsFit
      <4>4. ASSUME NEW t \in Sessions \ {s}, session'[t] = session[t]
            PROVE  Knows(session[t])'
        <5>1. AcceptanceSafe => session[t].at \notin {"propose", "proposeWrite"}
          BY <1>t, <2>1, Alone
        <5>2. AcceptanceSafe =>
                (session[t].at = "inviteWrite" /\ session[t].seen = "WITHDRAWN" =>
                   invitation'[session[t].e] = "WITHDRAWN")
          BY <1>k, <3>2 DEF Knows, Personal
        <5> QED
          BY <1>k, <2>2, <4>1, <4>2, <4>4, <5>1, <5>2 DEF Knows, Active
      <4> QED
        BY <1>w, <2>2, <4>3, <4>4
    <3> QED
      BY <3>3, <3>4
  <2> QED
    BY <2>3, <2>4
<1>25. ASSUME UNCHANGED <<projectVars, invitation, assignment, session>>
       PROVE  Agreed'
  <2>1. Held' = Held /\ SeatsTaken' = SeatsTaken
    BY <1>25, SameHeld
  <2>2. RowsFit'
    BY <1>0, <1>a, <1>25, <2>1 DEF RowsFit, FilledIsTaken, ActiveIsFull, CapacityHeld, ActiveAccepted, Active, projectVars
  <2>3. Informed'
    BY <1>25, <1>k, <2>1 DEF Informed, Knows, Active, projectVars
  <2> QED
    BY <1>t, <2>2, <2>3 DEF Agreed
<1>26. ASSUME NEW s \in Sessions, Crash(s)
       PROVE  Agreed'
  BY <1>26, <1>d DEF Crash, expertVars
<1>27. ASSUME NEW s \in Sessions, Request(s)
       PROVE  Agreed'
  BY <1>27, <1>2, <1>4, <1>6, <1>9, <1>12, <1>15, <1>19, <1>21, <1>23 DEF Request
<1>28. ASSUME NEW s \in Sessions, Continue(s)
       PROVE  Agreed'
  BY <1>28, <1>1, <1>3, <1>5, <1>7, <1>11, <1>13, <1>14, <1>16, <1>17, <1>18, <1>20, <1>22, <1>24
     DEF Continue
<1>29. ASSUME NEW e \in Experts, StartTasks(e) \/ Reverify(e)
       PROVE  Agreed'
  BY <1>25, <1>29 DEF StartTasks, Reverify
<1>30. CASE UNCHANGED vars
  BY <1>25, <1>30 DEF vars, expertVars
<1> QED
  BY <1>10, <1>26, <1>27, <1>28, <1>29, <1>30 DEF Next

LEMMA AgreedInit == Init => Agreed
<1> SUFFICES ASSUME Init
             PROVE  Agreed
  OBVIOUS
<1>1. SeatsTaken = 0
  BY FS_EmptySet DEF Init, Held, SeatsTaken
<1>2. Informed /\ ActiveAccepted
  BY DEF Init, Informed, Knows, Idle, At, ActiveAccepted, Active
<1> QED
  BY <1>1, <1>2, InProgressInit DEF Init, Agreed, RowsFit, FilledIsTaken, ActiveIsFull, CapacityHeld

LEMMA AgreedAlways == Spec => []Agreed
<1>1. Agreed /\ [Next]_vars => Agreed'
  BY AgreedStep
<1> QED
  BY <1>1, AgreedInit, PTL DEF Spec

\* With any number of requests at once, edits among them, and crashes at any step:
\* the counter is the number of seats taken, if no two requests are a pair of
\* BreakCount.
THEOREM SeatsCounted ==
  ASSUME Apart(BreakCount)
  PROVE  Spec => []FilledIsTaken
<1>1. Agreed => FilledIsTaken
  BY DEF Agreed, RowsFit, CountSafe
<1> QED
  BY <1>1, AgreedAlways, PTL

\* Nor is a seat ever taken that the project has not asked for, while nobody edits
\* the number: completions are among the requests.
THEOREM NeverOverbooked ==
  ASSUME Apart(BreakCount), "edit" \notin Calls
  PROVE  Spec => []CapacityHeld
<1>1. Agreed => CapacityHeld
  BY DEF Agreed, RowsFit, CountSafe, Unedited
<1> QED
  BY <1>1, AgreedAlways, PTL

\* A step takes a free seat, gives one back, resizes, or leaves the pool alone.
LEMMA PoolStep ==
  ASSUME Agreed, Typed', CountSafe, [Next]_vars
  PROVE  [Pool!Next]_(Pool!vars)
<1>t. /\ assignment \in [Experts -> AssignmentStatus] /\ seatsRequested' \in 1 .. MaxSeats
      /\ Held = {e \in Experts : assignment[e] \in {"CONFIRMED", "COMPLETED"}}
  BY DEF Agreed, InProgress, Typed, TypeOK, Held
<1>k. ASSUME NEW s \in Sessions
      PROVE  /\ session[s].at \in Personal => session[s].e \in Experts
             /\ session[s].at = "confirmWrite" => SeatsTaken < seatsRequested
             /\ session[s].at = "proposeWrite" => assignment[session[s].e] \in {"NONE", "RELEASED"}
             /\ session[s].at = "complete" => session[s].e \in Held
  BY DEF Agreed, Informed, Knows, InProgress, Typed, SessionsFit, Fits
<1>h. UNCHANGED <<assignment, seatsRequested>> => UNCHANGED Pool!vars
  BY SameHeld DEF Pool!vars
<1>g. ASSUME NEW e \in Experts, NEW n, Frees(e, n), UNCHANGED seatsRequested
      PROVE  Pool!Next
  BY <1>g, FreesSeat DEF Agreed, InProgress, Pool!Next, Pool!Give
<1>1. ASSUME NEW s \in Sessions, AdvanceRead(s) \/ StatusWrite(s) \/ InviteWrite(s) \/ AnswerCount(s)
                                 \/ ProposeRead(s) \/ ConfirmLock(s) \/ ConfirmEnqueue(s)
      PROVE  UNCHANGED Pool!vars
  BY <1>1, <1>h DEF AdvanceRead, StatusWrite, InviteWrite, AnswerCount, ProposeRead, ConfirmLock,
                    ConfirmEnqueue, projectVars, expertVars
<1>2. ASSUME NEW s \in Sessions, EditWrite(s)
      PROVE  Pool!Next
  <2>1. UNCHANGED assignment
    BY <1>2 DEF EditWrite, expertVars
  <2>2. Pool!Resize(seatsRequested')
    BY <2>1, SameHeld DEF Pool!Resize
  <2> QED
    BY <1>t, <2>2 DEF Pool!Next
<1>3. ASSUME NEW s \in Sessions, ProposeWrite(s) \/ CompleteWrite(s)
      PROVE  UNCHANGED Pool!vars
  <2>1. UNCHANGED seatsRequested
    BY <1>3 DEF ProposeWrite, CompleteWrite, projectVars
  <2>2. Held' = Held
    <3>1. CASE ProposeWrite(s)
      <4>1. session[s].e \in Experts /\ assignment[session[s].e] \in {"NONE", "RELEASED"}
        BY <1>k, <3>1 DEF ProposeWrite, Personal
      <4> QED
        BY <1>t, <3>1, <4>1 DEF ProposeWrite, Held
    <3>2. CASE CompleteWrite(s)
      <4>1. session[s].e \in Held
        BY <1>k, <3>2 DEF CompleteWrite
      <4> QED
        BY <1>t, <3>2, <4>1 DEF CompleteWrite, Held
    <3> QED
      BY <1>3, <3>1, <3>2
  <2> QED
    BY <2>1, <2>2 DEF Pool!vars
<1>4. ASSUME NEW s \in Sessions, ConfirmWrite(s)
      PROVE  [Pool!Next]_(Pool!vars)
  <2>1. session[s].e \in Experts /\ SeatsTaken < seatsRequested /\ UNCHANGED seatsRequested
    BY <1>4, <1>k DEF ConfirmWrite, Personal
  <2>2. CASE assignment[session[s].e] = "PROPOSED"
    <3>1. session[s].e \notin Held /\ Held' = Held \cup {session[s].e}
      BY <1>4, <1>t, <2>1, <2>2 DEF ConfirmWrite, Held
    <3>2. Pool!Cardinality(Held) = Cardinality(Held)
      BY DEF Pool!Cardinality, Cardinality
    <3>3. Pool!Take(session[s].e)
      BY <2>1, <3>1, <3>2 DEF Pool!Take, SeatsTaken
    <3> QED
      BY <2>1, <3>3 DEF Pool!Next
  <2>3. CASE assignment[session[s].e] # "PROPOSED"
    BY <1>4, <1>h, <2>1, <2>3 DEF ConfirmWrite
  <2> QED
    BY <2>2, <2>3
<1>5. ASSUME NEW s \in Sessions, ReleaseCommit(s) \/ WithdrawCommit(s)
      PROVE  [Pool!Next]_(Pool!vars)
  <2>1. session[s].e \in Experts /\ UNCHANGED seatsRequested
    BY <1>5, <1>k DEF ReleaseCommit, WithdrawCommit, Personal
  <2>2. UNCHANGED assignment \/ \E n : Frees(session[s].e, n)
    BY <1>5 DEF ReleaseCommit, WithdrawCommit
  <2> QED
    BY <1>g, <1>h, <2>1, <2>2
<1>6. ASSUME NEW s \in Sessions, Request(s) \/ Crash(s)
      PROVE  UNCHANGED Pool!vars
  <2>1. UNCHANGED <<assignment, seatsRequested>>
    BY <1>6 DEF Request, StatusRead, EditRead, InviteRead, Accept, ProposeCheck, ConfirmRead, ReleaseRead,
                CompleteRead, WithdrawLock, Crash, projectVars, expertVars
  <2> QED
    BY <1>h, <2>1
<1>7. ASSUME NEW e \in Experts, InvitationEnds(e) \/ StartTasks(e) \/ Reverify(e)
      PROVE  UNCHANGED Pool!vars
  BY <1>7, <1>h DEF InvitationEnds, StartTasks, Reverify, projectVars
<1>8. CASE UNCHANGED vars
  BY <1>8, <1>h DEF vars, projectVars, expertVars
<1> QED
  BY <1>1, <1>2, <1>3, <1>4, <1>5, <1>6, <1>7, <1>8 DEF Next, Continue

\* The pool of seats is implemented with completions among the requests, which
\* PoolImplemented leaves out, if no two requests are a pair of BreakCount.
THEOREM PoolWithCompletions ==
  ASSUME Apart(BreakCount)
  PROVE  Spec => ImplementsPool
<1>1. Init => Pool!Init
  BY DEF Init, Held, Pool!Init
<1>2. Agreed /\ Agreed' /\ [Next]_vars => [Pool!Next]_(Pool!vars)
  BY PoolStep DEF CountSafe, Agreed, InProgress
<1> QED
  BY <1>1, <1>2, AgreedAlways, PTL DEF Spec, ImplementsPool, Pool!Spec

\* Whoever holds a confirmed seat has accepted, if no two requests are a pair of
\* BreakAcceptance.
THEOREM AcceptanceKept ==
  ASSUME Apart(BreakAcceptance)
  PROVE  Spec => []ConfirmedAccepted
<1>1. Agreed => ConfirmedAccepted
  BY DEF Agreed, RowsFit, AcceptanceSafe, ConfirmedAccepted, ActiveAccepted, Active
<1> QED
  BY <1>1, AgreedAlways, PTL

\* ACTIVE means all seats filled, if nobody edits their number and no two
\* requests are a pair that breaks the count or the status.
THEOREM FullWhileActive ==
  ASSUME Apart(BreakCount \cup BreakStatus), "edit" \notin Calls
  PROVE  Spec => []ActiveIsFull
<1>1. StatusSafe
  BY DEF StatusSafe, CountSafe, Unedited, Apart
<1>2. Agreed => ActiveIsFull
  BY <1>1 DEF Agreed, RowsFit
<1> QED
  BY <1>2, AgreedAlways, PTL

\* The rows agree, of any number of experts, seats and requests in progress.
THEOREM RowsAgreeHolds ==
  ASSUME Apart(Conflicting), "edit" \notin Calls
  PROVE  Spec => []RowsAgree
<1>1. Apart(BreakCount) /\ Apart(BreakAcceptance) /\ Apart(BreakCount \cup BreakStatus)
  BY DEF Apart, Conflicting
<1>2. ActiveIsFull /\ FilledIsTaken /\ ConfirmedAccepted => RowsAgree
  BY DEF RowsAgree
<1>3. Spec => []ActiveIsFull
  BY <1>1, FullWhileActive
<1>4. Spec => []FilledIsTaken
  BY <1>1, SeatsCounted
<1>5. Spec => []ConfirmedAccepted
  BY <1>1, AcceptanceKept
<1> QED
  BY <1>2, <1>3, <1>4, <1>5, PTL
-----------------------------------------------------------------------------
(***************************************************************************)
(* Withdrawals, with any number of requests at once.  What a withdrawal    *)
(* has read under the lock stays so until it commits: an acceptance ends   *)
(* only in a withdrawal, which has the lock, or in the reopening of an     *)
(* invitation, by id and without the lock, that another reopening has      *)
(* overtaken.  That pair is left out.                                      *)
(***************************************************************************)
Reopens(r) == r.at = "inviteWrite" /\ r.seen = "WITHDRAWN"

Stands(r) ==
  /\ r.at = "withdraw" /\ r.seen # "CONFIRMED" => invitation[r.e] = "ACCEPTED"
  /\ Reopens(r) => invitation[r.e] = "WITHDRAWN"
Undisturbed == \A s \in Sessions : Stands(session[s])

Kept(answer) == \A e \in Experts : invitation[e] = answer => invitation'[e] = answer

\* Points at which nothing has been read that matters here.
Elsewhere == Points \ {"withdraw", "inviteWrite"}

LEMMA GoesElsewhere ==
  ASSUME NEW s, NEW call, NEW point \in Elsewhere, NEW e, NEW x,
         \/ Goes(s, At(call, point, e)) \/ Goes(s, [At(call, point, e) EXCEPT !.seen = x])
         \/ Goes(s, [At(call, point, e) EXCEPT !.to = x]) \/ Goes(s, [At(call, point, e) EXCEPT !.n = x])
  PROVE  \E r : Goes(s, r) /\ r.at \in Elsewhere
<1>1. CASE Goes(s, At(call, point, e))
  BY <1>1, Remembered
<1>2. CASE Goes(s, [At(call, point, e) EXCEPT !.seen = x])
  <2>1. [At(call, point, e) EXCEPT !.seen = x].at = point
    BY PointKept
  <2> QED
    BY <1>2, <2>1
<1>3. CASE Goes(s, [At(call, point, e) EXCEPT !.to = x])
  <2>1. [At(call, point, e) EXCEPT !.to = x].at = point
    BY PointKept
  <2> QED
    BY <1>3, <2>1
<1>4. CASE Goes(s, [At(call, point, e) EXCEPT !.n = x])
  <2>1. [At(call, point, e) EXCEPT !.n = x].at = point
    BY PointKept
  <2> QED
    BY <1>4, <2>1
<1> QED
  BY <1>1, <1>2, <1>3, <1>4

\* A session goes on to r, and ends no acceptance without the lock, and no
\* withdrawn invitation unless it reopens it.
LEMMA UndisturbedStep ==
  ASSUME InProgress, Undisturbed, {"reinvite"} \notin Overlapping,
         NEW s \in Sessions, NEW r, Goes(s, r), Stands(r)',
         lock = s \/ Kept("ACCEPTED"), Reopens(session[s]) \/ Kept("WITHDRAWN")
  PROVE  Undisturbed'
<1>1. session'[s] = r /\ \A t \in Sessions \ {s} : session'[t] = session[t]
  BY DEF Goes, InProgress, Typed, TypeOK
<1>2. ASSUME NEW t \in Sessions \ {s}
      PROVE  Stands(session[t])'
  <2>1. /\ session[t].at \in {"withdraw", "inviteWrite"} => session[t].e \in Experts
        /\ session'[t] = session[t]
    BY <1>1 DEF InProgress, Typed, SessionsFit, Fits, Personal
  <2>2. session[t].at = "withdraw" => lock # s
    BY DEF InProgress, LockHeld, Locked
  <2>3. ~(Reopens(session[s]) /\ Reopens(session[t]))
    <3>1. \A c : {c, c} = {c}
      OBVIOUS
    <3> QED
      BY <3>1 DEF InProgress, Served, Serves, Disciplined, Busy, Reopens
  <2>4. Stands(session[t])
    BY DEF Undisturbed
  <2> QED
    BY <2>1, <2>2, <2>3, <2>4 DEF Stands, Reopens, Kept
<1>3. \A t \in Sessions : Stands(session[t])'
  <2>1. Stands(session[s])'
    BY <1>1 DEF Stands, Reopens
  <2> QED
    BY <1>2, <2>1
<1> QED
  BY <1>3 DEF Undisturbed

\* What a step may do to the withdrawals.
RecordedOnce ==
  \A e \in Experts :
    withdrawals'[e] # withdrawals[e] =>
      withdrawals'[e] = withdrawals[e] + 1 /\ Standing(e) /\ invitation'[e] # "ACCEPTED"

LEMMA WithdrawalStep ==
  ASSUME {"reinvite"} \notin Overlapping, InProgress, Undisturbed, [Next]_vars
  PROVE  Undisturbed' /\ RecordedOnce
<1>0. /\ invitation \in [Experts -> InvitationStatus] /\ withdrawals \in [Experts -> Nat]
      /\ \A s \in Sessions : session[s].at = "withdraw" => session[s].e \in Experts
      /\ \A s \in Sessions : session[s].at = "inviteWrite" => session[s].e \in Experts
  BY DEF InProgress, Typed, TypeOK, SessionsFit, Fits, Personal
\* A step to an ordinary point.
<1>g. ASSUME NEW s \in Sessions, \E r : Goes(s, r) /\ r.at \in Elsewhere,
             lock = s \/ Kept("ACCEPTED"), Reopens(session[s]) \/ Kept("WITHDRAWN")
      PROVE  Undisturbed'
  <2>1. PICK r : Goes(s, r) /\ r.at \in Elsewhere
    BY <1>g
  <2>2. Stands(r)'
    BY <2>1 DEF Stands, Reopens, Elsewhere
  <2> QED
    BY <1>g, <2>1, <2>2, UndisturbedStep
<1>d. ASSUME NEW s \in Sessions, Done(s)
      PROVE  \E r : Goes(s, r) /\ r.at \in Elsewhere
  BY <1>d DEF Done, Idle, At, Elsewhere, Points
<1>a. ASSUME NEW s \in Sessions, NEW to, ThenAdvance(s, to)
      PROVE  \E r : Goes(s, r) /\ r.at \in Elsewhere
  <2>1. "advance" \in Elsewhere
    BY DEF Elsewhere, Points
  <2> QED
    BY <1>a, <2>1, GoesElsewhere DEF ThenAdvance
<1>k. UNCHANGED withdrawals => RecordedOnce
  BY DEF RecordedOnce
<1>u. UNCHANGED invitation => Kept("ACCEPTED") /\ Kept("WITHDRAWN")
  BY DEF Kept
<1>1. ASSUME NEW s \in Sessions,
             \/ AdvanceRead(s) \/ StatusWrite(s) \/ EditWrite(s) \/ AnswerCount(s)
             \/ ProposeRead(s) \/ ProposeWrite(s) \/ ConfirmEnqueue(s) \/ ReleaseCommit(s)
             \/ CompleteWrite(s) \/ (\E to \in ProjectStatus : StatusRead(s, to))
             \/ (\E n \in 1 .. MaxSeats : EditRead(s, n))
             \/ (\E e \in Experts : ProposeCheck(s, e) \/ ConfirmRead(s, e)
                                    \/ ReleaseRead(s, e) \/ CompleteRead(s, e))
      PROVE  Undisturbed' /\ UNCHANGED withdrawals
  <2>1. UNCHANGED <<lock, invitation, withdrawals>>
    BY <1>1 DEF AdvanceRead, StatusWrite, EditWrite, AnswerCount, ProposeRead, ProposeWrite,
                ConfirmEnqueue, ReleaseCommit, CompleteWrite, StatusRead, EditRead, ProposeCheck,
                ConfirmRead, ReleaseRead, CompleteRead, expertVars
  <2>2. \E r : Goes(s, r) /\ r.at \in Elsewhere
    <3>1. \/ Done(s) \/ (\E to : ThenAdvance(s, to))
          \/ \E point \in {"statusWrite", "edit", "propose", "proposeWrite", "confirmLock", "release", "complete"} :
             \E call, e, x :
               \/ Goes(s, At(call, point, e)) \/ Goes(s, [At(call, point, e) EXCEPT !.seen = x])
               \/ Goes(s, [At(call, point, e) EXCEPT !.to = x]) \/ Goes(s, [At(call, point, e) EXCEPT !.n = x])
      <4>1. CASE \/ AdvanceRead(s) \/ StatusWrite(s) \/ EditWrite(s) \/ AnswerCount(s)
        BY <4>1 DEF AdvanceRead, StatusWrite, EditWrite, AnswerCount
      <4>2. CASE \/ ProposeRead(s) \/ ProposeWrite(s) \/ ConfirmEnqueue(s) \/ ReleaseCommit(s)
                 \/ CompleteWrite(s)
        BY <4>2 DEF ProposeRead, ProposeWrite, ConfirmEnqueue, ReleaseCommit, CompleteWrite
      <4>3. CASE \/ (\E to \in ProjectStatus : StatusRead(s, to))
                 \/ (\E n \in 1 .. MaxSeats : EditRead(s, n))
        BY <4>3 DEF StatusRead, EditRead
      <4>4. CASE \E e \in Experts : ProposeCheck(s, e) \/ ConfirmRead(s, e)
                                    \/ ReleaseRead(s, e) \/ CompleteRead(s, e)
        BY <4>4 DEF ProposeCheck, ConfirmRead, ReleaseRead, CompleteRead
      <4> QED
        BY <1>1, <4>1, <4>2, <4>3, <4>4
    <3> QED
      BY <3>1, <1>d, <1>a, GoesElsewhere DEF Elsewhere, Points
  <2> QED
    BY <1>g, <1>u, <2>1, <2>2
<1>2. ASSUME NEW s \in Sessions, NEW e \in Experts, InviteRead(s, e)
      PROVE  Undisturbed' /\ UNCHANGED withdrawals
  <2>0. PICK call, x : call = InviteCall(e) /\ x = invitation[e]
    OBVIOUS
  <2> DEFINE r == [At(call, "inviteWrite", e) EXCEPT !.seen = x]
  <2>1. UNCHANGED <<invitation, withdrawals>> /\ Goes(s, r)
    BY <1>2, <2>0 DEF InviteRead, expertVars
  <2>2. r.at = "inviteWrite" /\ r.e = e /\ r.seen = invitation[e]
    BY <2>0, Remembered
  <2> HIDE DEF r
  <2>3. Stands(r)'
    BY <2>1, <2>2 DEF Stands, Reopens
  <2> QED
    BY <1>u, <2>1, <2>3, UndisturbedStep
<1>3. ASSUME NEW s \in Sessions, InviteWrite(s)
      PROVE  Undisturbed' /\ UNCHANGED withdrawals
  <2>1. session[s].e \in Experts /\ (Reopens(session[s]) => invitation[session[s].e] = "WITHDRAWN")
    BY <1>0, <1>3 DEF InviteWrite, Undisturbed, Stands
  <2>2. session[s].seen = "NONE" \/ Reopens(session[s])
    BY <1>3 DEF InviteWrite, Reopens, InProgress, Served, Serves
  <2>3. Kept("ACCEPTED") /\ (Reopens(session[s]) \/ Kept("WITHDRAWN"))
    BY <1>0, <1>3, <2>1, <2>2 DEF InviteWrite, Kept
  <2>4. UNCHANGED withdrawals /\ (Done(s) \/ ThenAdvance(s, "INVITING"))
    BY <1>3 DEF InviteWrite
  <2> QED
    BY <1>a, <1>d, <1>g, <2>3, <2>4
<1>4. ASSUME NEW s \in Sessions, NEW e \in Experts, Accept(s, e)
      PROVE  Undisturbed' /\ UNCHANGED withdrawals
  <2>1. UNCHANGED withdrawals /\ Goes(s, At("answer", "answerCount", e))
    BY <1>4 DEF Accept
  <2>2. Kept("ACCEPTED") /\ Kept("WITHDRAWN")
    BY <1>0, <1>4 DEF Accept, Kept
  <2>3. \E r : Goes(s, r) /\ r.at \in Elsewhere
    BY <2>1, GoesElsewhere DEF Elsewhere, Points
  <2> QED
    BY <1>g, <2>1, <2>2, <2>3
<1>5. ASSUME NEW s \in Sessions, ConfirmLock(s) \/ ConfirmWrite(s) \/ Crash(s)
      PROVE  Undisturbed' /\ UNCHANGED withdrawals
  <2>1. UNCHANGED <<invitation, withdrawals>>
    BY <1>5 DEF ConfirmLock, ConfirmWrite, Crash, expertVars
  <2>2. CASE Done(s)
    BY <1>d, <1>g, <1>u, <2>1, <2>2
  <2>3. CASE ConfirmLock(s) /\ ~Done(s)
    <3>1. PICK e, n, x : Goes(s, [At("confirm", "confirmWrite", e) EXCEPT !.n = n, !.seen = x])
      BY <2>3 DEF ConfirmLock
    <3>2. [At("confirm", "confirmWrite", e) EXCEPT !.n = n, !.seen = x].at = "confirmWrite"
      BY Remembered
    <3>3. "confirmWrite" \in Elsewhere
      BY DEF Elsewhere, Points
    <3> QED
      BY <1>g, <1>u, <2>1, <3>1, <3>2, <3>3
  <2>4. CASE ConfirmWrite(s) /\ ~Done(s)
    <3>1. PICK e, x : Goes(s, [At("confirm", "confirmEnqueue", e) EXCEPT !.to = x])
      BY <2>4 DEF ConfirmWrite
    <3>2. \E r : Goes(s, r) /\ r.at \in Elsewhere
      BY <3>1, GoesElsewhere DEF Elsewhere, Points
    <3> QED
      BY <1>g, <1>u, <2>1, <3>2
  <2> QED
    BY <1>5, <2>2, <2>3, <2>4 DEF Crash
<1>7. ASSUME NEW s \in Sessions, NEW e \in Experts, WithdrawLock(s, e)
      PROVE  Undisturbed' /\ UNCHANGED withdrawals
  <2>1. UNCHANGED <<invitation, withdrawals>> /\ Standing(e)
    BY <1>7 DEF WithdrawLock, expertVars
  <2>2. PICK x : x = (IF Active(e) THEN "CONFIRMED" ELSE "NONE")
    OBVIOUS
  <2> DEFINE r == [At("withdraw", "withdraw", e) EXCEPT !.seen = x]
  <2>3. Goes(s, r)
    BY <1>7, <2>2 DEF WithdrawLock
  <2>4. r.at = "withdraw" /\ r.seen = x /\ r.e = e
    BY Remembered
  <2> HIDE DEF r
  <2>5. x # "CONFIRMED" => invitation[e] = "ACCEPTED"
    BY <2>1, <2>2 DEF Standing
  <2>6. Stands(r)'
    BY <2>1, <2>4, <2>5 DEF Stands, Reopens
  <2> QED
    BY <1>u, <2>1, <2>3, <2>6, UndisturbedStep
<1>8. ASSUME NEW s \in Sessions, WithdrawCommit(s)
      PROVE  Undisturbed' /\ RecordedOnce
  <2>1. lock = s /\ session[s].e \in Experts /\ Done(s)
        /\ (session[s].seen # "CONFIRMED" => invitation[session[s].e] = "ACCEPTED")
    BY <1>0, <1>8 DEF WithdrawCommit, Undisturbed, Stands, InProgress, LockHeld, Locked
  <2>2. Undisturbed'
    <3>1. Kept("WITHDRAWN")
      BY <1>0, <1>8, <2>1 DEF WithdrawCommit, Kept
    <3> QED
      BY <1>d, <1>g, <2>1, <3>1
  <2>3. CASE session[s].seen = "CONFIRMED" /\ ~Active(session[s].e)
    BY <1>8, <1>k, <2>2, <2>3 DEF WithdrawCommit
  <2>4. CASE ~(session[s].seen = "CONFIRMED" /\ ~Active(session[s].e))
    <3>1. Standing(session[s].e)
      BY <2>1, <2>4 DEF Standing
    <3>2. /\ invitation' = [invitation EXCEPT ![session[s].e] = IF @ = "ACCEPTED" THEN "WITHDRAWN" ELSE @]
          /\ withdrawals' = [withdrawals EXCEPT ![session[s].e] = @ + 1]
      BY <1>8, <2>4 DEF WithdrawCommit
    <3>3. /\ withdrawals'[session[s].e] = withdrawals[session[s].e] + 1
          /\ invitation'[session[s].e] # "ACCEPTED"
          /\ \A e \in Experts \ {session[s].e} : withdrawals'[e] = withdrawals[e]
      BY <1>0, <2>1, <3>2
    <3> QED
      BY <2>2, <3>1, <3>3 DEF RecordedOnce
  <2> QED
    BY <2>3, <2>4
<1>9. ASSUME NEW e \in Experts, InvitationEnds(e) \/ StartTasks(e) \/ Reverify(e)
      PROVE  Undisturbed' /\ UNCHANGED withdrawals
  <2>1. UNCHANGED <<withdrawals, session>> /\ Kept("ACCEPTED") /\ Kept("WITHDRAWN")
    BY <1>0, <1>9 DEF InvitationEnds, StartTasks, Reverify, Kept
  <2> QED
    BY <1>0, <2>1 DEF Undisturbed, Stands, Reopens, Kept
<1>11. CASE UNCHANGED vars
  <2>1. UNCHANGED <<invitation, withdrawals, session>>
    BY <1>11 DEF vars, expertVars
  <2> QED
    BY <1>k, <2>1 DEF Undisturbed, Stands, Reopens
<1>12. ASSUME NEW s \in Sessions, Request(s)
       PROVE  Undisturbed' /\ RecordedOnce
  BY <1>12, <1>k, <1>1, <1>2, <1>4, <1>7 DEF Request
<1>13. ASSUME NEW s \in Sessions, Continue(s)
       PROVE  Undisturbed' /\ RecordedOnce
  BY <1>13, <1>k, <1>1, <1>3, <1>5, <1>8 DEF Continue
<1> QED
  BY <1>k, <1>5, <1>9, <1>11, <1>12, <1>13 DEF Next

\* A withdrawal is recorded by a step that ends a standing the expert still had,
\* however often the button is pressed, wherever a request dies and whatever
\* else is going on, except two reopenings of an invitation at once.
THEOREM WithdrawnOnce ==
  ASSUME {"reinvite"} \notin Overlapping
  PROVE  Spec => WithdrawalOnce
<1>1. Init => Undisturbed
  <2> SUFFICES ASSUME Init
               PROVE  Undisturbed
    OBVIOUS
  <2>1. Idle.at = "idle"
    BY DEF Idle, At
  <2> QED
    BY <2>1 DEF Init, Undisturbed, Stands, Reopens
<1>2. InProgress /\ Undisturbed /\ [Next]_vars => Undisturbed'
  BY WithdrawalStep
<1>3. InProgress /\ Undisturbed /\ [Next]_vars =>
        [\A e \in Experts :
           withdrawals'[e] # withdrawals[e] =>
             withdrawals'[e] = withdrawals[e] + 1 /\ Standing(e) /\ invitation'[e] # "ACCEPTED"]_vars
  BY WithdrawalStep DEF RecordedOnce
<1> QED
  BY <1>1, <1>2, <1>3, InProgressInit, InProgressStep, PTL DEF Spec, WithdrawalOnce
=============================================================================
