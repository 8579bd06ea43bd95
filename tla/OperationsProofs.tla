-------------------------- MODULE OperationsProofs --------------------------
(***************************************************************************)
(* What the day-to-day components of MCOperations promise, for any number  *)
(* of experts, operators, requests, workers and links: that what a support *)
(* request claims is borne out by a reply, that a link lets in one session *)
(* and failures are counted although requests race, that a decision on an  *)
(* offboarding task stands, and that an invitation ends once.              *)
(*                                                                         *)
(* The components share no state, so each has an inductive invariant of    *)
(* its own; the last section puts them together.                           *)
(***************************************************************************)
EXTENDS MCOperations, FiniteSetTheorems, SequenceTheorems, TLAPS

-----------------------------------------------------------------------------
(***************************************************************************)
(* Support.  A request claims nothing that its replies do not bear out,    *)
(* and neither does what another request remembers of having read it.      *)
(***************************************************************************)

ReplyKinds == {"public", "internal", "expert", "resolution"}
Ticket == [status : S!SupportStatus, responded : BOOLEAN, late : BOOLEAN,
           blocksReadiness : BOOLEAN, blocksDelivery : BOOLEAN, owned : BOOLEAN]
Serving == [at : {"idle", "row", "update"}, does : {"none", "reply", "resolve", "close", "block"},
            kind : ReplyKinds, read : Ticket]

\* What is read in t, the replies written bear out.
BorneOut(t, written) ==
  /\ t.status \in {"RESOLVED", "CLOSED"} => written["resolution"] > 0
  /\ t.responded => written["public"] > 0 \/ written["resolution"] > 0
  /\ t.status = "WAITING_ON_EXPERT" => written["public"] > 0

\* A request writes the reply before it updates the row.
ServingFits(r, written) ==
  /\ r.does = "reply" => r.kind # "resolution" /\ BorneOut(r.read, written)
  /\ r.does \in {"resolve", "close"} => r.kind = "resolution"
  /\ r.at = "row" => r.does \in {"reply", "resolve", "close"}
  /\ r.at = "update" => r.does # "none" /\ (r.does # "block" => written[r.kind] > 0)

SupportInv ==
  /\ ticket \in Ticket
  /\ replies \in [ReplyKinds -> Nat]
  /\ serving \in [Sessions -> Serving]
  /\ BorneOut(ticket, replies)
  /\ \A s \in Sessions : ServingFits(serving[s], replies)

LEMMA SupportInit == ASSUME S!Init PROVE SupportInv
<1>1. S!NoTicket \in Ticket /\ S!NoTicket.status = "NONE" /\ ~S!NoTicket.responded
  BY DEF S!NoTicket, Ticket, S!SupportStatus
<1>2. replies \in [ReplyKinds -> Nat]
  BY DEF S!Init, S!NoReplies, ReplyKinds
<1>3. S!Free \in Serving /\ S!Free.at = "idle" /\ S!Free.does = "none"
  BY <1>1 DEF S!Free, Serving, ReplyKinds
<1> QED
  BY <1>1, <1>2, <1>3 DEF S!Init, SupportInv, BorneOut, ServingFits

\* A session that goes on to r.
LEMMA ServingStep ==
  ASSUME SupportInv, NEW s \in Sessions, NEW r \in Serving, S!Goes(s, r),
         replies' \in [ReplyKinds -> Nat], \A k \in ReplyKinds : replies'[k] >= replies[k],
         ticket' \in Ticket, BorneOut(ticket', replies'), ServingFits(r, replies')
  PROVE  SupportInv'
<1>1. /\ serving' \in [Sessions -> Serving] /\ serving'[s] = r
      /\ \A t \in Sessions \ {s} : serving'[t] = serving[t]
  BY DEF S!Goes, SupportInv
<1>2. \A t \in Sessions \ {s} : ServingFits(serving'[t], replies')
  BY <1>1 DEF SupportInv, ServingFits, BorneOut, Serving, ReplyKinds
<1> QED
  BY <1>1, <1>2 DEF SupportInv

LEMMA SupportStep == ASSUME SupportInv, [S!Next]_(S!vars) PROVE SupportInv'
<1> USE DEF ReplyKinds
<1>1. CASE UNCHANGED S!vars
  BY <1>1 DEF S!vars, SupportInv, BorneOut, ServingFits
<1>2. ASSUME UNCHANGED <<replies, serving>>, ticket' \in Ticket, BorneOut(ticket, replies)
             , ticket'.status = ticket.status /\ ticket'.responded = ticket.responded
      PROVE  SupportInv'
  BY <1>2 DEF SupportInv, BorneOut, ServingFits
<1>3. CASE S!RaiseSupportRequest
  <2>1. /\ UNCHANGED <<replies, serving>> /\ ticket' \in Ticket
        /\ ticket'.status = "OPEN" /\ ~ticket'.responded
    BY <1>3 DEF S!RaiseSupportRequest, S!NoTicket, Ticket, S!SupportStatus
  <2> QED
    BY <2>1 DEF SupportInv, BorneOut, ServingFits
<1>4. CASE S!TargetPasses
  <2>1. /\ UNCHANGED <<replies, serving>> /\ ticket' \in Ticket
        /\ ticket'.status = ticket.status /\ ticket'.responded = ticket.responded
    BY <1>4 DEF S!TargetPasses, SupportInv, Ticket
  <2> QED
    BY <1>2, <2>1 DEF SupportInv
<1>5. CASE \E owned \in BOOLEAN : S!AssignSupport(owned)
  <2>1. /\ UNCHANGED <<replies, serving>> /\ ticket' \in Ticket
        /\ ticket'.status = ticket.status /\ ticket'.responded = ticket.responded
    BY <1>5 DEF S!AssignSupport, SupportInv, Ticket
  <2> QED
    BY <1>2, <2>1 DEF SupportInv
<1>6. S!Free \in Serving /\ S!Free.at = "idle" /\ S!Free.does = "none" /\ S!NoTicket \in Ticket
  BY DEF S!Free, S!NoTicket, Serving, Ticket, S!SupportStatus
<1>7. ASSUME NEW s \in Sessions, NEW kind \in {"public", "internal", "expert"}, S!ReplyRead(s, kind)
      PROVE  SupportInv'
  <2> DEFINE r == [at |-> "row", does |-> "reply", kind |-> kind, read |-> S!ReadForReply]
  <2>1. /\ S!ReadForReply \in Ticket /\ S!ReadForReply.status = ticket.status
        /\ S!ReadForReply.responded = ticket.responded
    BY DEF S!ReadForReply, S!NoTicket, SupportInv, Ticket
  <2>2. r \in Serving /\ S!Goes(s, r) /\ UNCHANGED <<ticket, replies>>
    BY <1>7, <2>1 DEF S!ReplyRead, Serving
  <2>3. ServingFits(r, replies')
    BY <2>1, <2>2 DEF SupportInv, ServingFits, BorneOut
  <2> QED
    BY <2>2, <2>3, ServingStep DEF SupportInv, BorneOut
<1>8. ASSUME NEW s \in Sessions, NEW close \in BOOLEAN, S!ResolveRead(s, close)
      PROVE  SupportInv'
  <2> DEFINE r == [at |-> "row", does |-> IF close THEN "close" ELSE "resolve",
                   kind |-> "resolution", read |-> S!NoTicket]
  <2>1. r \in Serving /\ S!Goes(s, r) /\ UNCHANGED <<ticket, replies>>
    BY <1>6, <1>8 DEF S!ResolveRead, Serving
  <2>2. ServingFits(r, replies')
    BY DEF ServingFits
  <2> QED
    BY <2>1, <2>2, ServingStep DEF SupportInv, BorneOut
<1>9. ASSUME NEW s \in Sessions, S!WriteReply(s)
      PROVE  SupportInv'
  <2> DEFINE k == serving[s].kind
             r == [serving[s] EXCEPT !.at = "update"]
  <2>1. /\ serving[s] \in Serving /\ serving[s].at = "row" /\ ServingFits(serving[s], replies)
        /\ S!Goes(s, r) /\ UNCHANGED ticket /\ replies' = [replies EXCEPT ![k] = @ + 1]
    BY <1>9 DEF S!WriteReply, SupportInv
  <2>2. /\ r \in Serving /\ r.at = "update" /\ r.does = serving[s].does
        /\ r.kind = k /\ k = serving[s].kind /\ r.read = serving[s].read /\ k \in ReplyKinds
    BY <2>1 DEF Serving
  <2> HIDE DEF k, r
  <2>3. /\ replies' \in [ReplyKinds -> Nat] /\ replies'[k] > 0
        /\ \A x \in ReplyKinds : replies'[x] >= replies[x]
    BY <2>1, <2>2 DEF SupportInv
  <2>4. BorneOut(ticket', replies') /\ (\A t : BorneOut(t, replies) => BorneOut(t, replies'))
    BY <2>1, <2>3 DEF SupportInv, BorneOut
  <2>5. ServingFits(r, replies')
    BY <2>1, <2>2, <2>3, <2>4 DEF ServingFits, Serving
  <2> QED
    BY <2>1, <2>2, <2>3, <2>4, <2>5, ServingStep DEF SupportInv
<1>10. ASSUME NEW s \in Sessions, S!UpdateTicket(s)
       PROVE  SupportInv'
  <2>1. /\ serving[s] \in Serving /\ serving[s].at = "update" /\ ServingFits(serving[s], replies)
        /\ serving[s].does # "block" /\ replies[serving[s].kind] > 0
        /\ S!Goes(s, S!Free) /\ UNCHANGED replies
    BY <1>10 DEF S!UpdateTicket, SupportInv, ServingFits
  <2>2. CASE serving[s].does = "reply"
    <3>1. ticket' = S!AfterReply(serving[s])
      BY <1>10, <2>2 DEF S!UpdateTicket
    <3>2. /\ ticket' \in Ticket
          /\ ticket'.responded = (serving[s].read.responded \/ serving[s].kind = "public")
          /\ ticket'.status = S!StatusAfter(serving[s].kind, serving[s].read)
      BY <2>1, <3>1 DEF S!AfterReply, S!StopsClock, S!StatusAfter, SupportInv, Ticket, Serving,
         S!SupportStatus
    <3>3. BorneOut(ticket', replies')
      BY <2>1, <2>2, <3>2 DEF ServingFits, BorneOut, S!StatusAfter
    <3> QED
      BY <1>6, <2>1, <3>2, <3>3, ServingStep DEF SupportInv, ServingFits
  <2>3. CASE serving[s].does # "reply"
    <3>1. serving[s].kind = "resolution" /\ ticket' = S!AfterResolution(serving[s])
      BY <1>10, <2>1, <2>3 DEF S!UpdateTicket, ServingFits, Serving
    <3>2. ticket' \in Ticket /\ ticket'.status \in {"CLOSED", "RESOLVED"}
      BY <3>1 DEF S!AfterResolution, SupportInv, Ticket, S!SupportStatus
    <3>3. BorneOut(ticket', replies')
      BY <2>1, <3>1, <3>2 DEF BorneOut
    <3> QED
      BY <1>6, <2>1, <3>2, <3>3, ServingStep DEF SupportInv, ServingFits
  <2> QED
    BY <2>2, <2>3
<1>11. ASSUME NEW s \in Sessions, S!BlockRead(s)
       PROVE  SupportInv'
  <2> DEFINE r == [S!Free EXCEPT !.at = "update", !.does = "block"]
  <2>1. /\ r \in Serving /\ r.at = "update" /\ r.does = "block"
        /\ S!Goes(s, r) /\ UNCHANGED <<ticket, replies>>
    BY <1>6, <1>11 DEF S!BlockRead, S!Free, Serving
  <2> HIDE DEF r
  <2>2. ServingFits(r, replies')
    BY <2>1 DEF ServingFits
  <2> QED
    BY <2>1, <2>2, ServingStep DEF SupportInv
<1>12. ASSUME NEW s \in Sessions, S!BlockWrite(s)
       PROVE  SupportInv'
  <2>1. /\ ticket' \in Ticket /\ ticket'.status = ticket.status /\ ticket'.responded = ticket.responded
        /\ S!Goes(s, S!Free) /\ UNCHANGED replies
    BY <1>12 DEF S!BlockWrite, SupportInv, Ticket
  <2> QED
    BY <1>6, <2>1, ServingStep DEF SupportInv, BorneOut, ServingFits
<1>13. ASSUME NEW s \in Sessions, S!Dies(s)
       PROVE  SupportInv'
  BY <1>6, <1>13, ServingStep DEF S!Dies, SupportInv, BorneOut, ServingFits
<1> QED
  BY <1>1, <1>3, <1>4, <1>5, <1>7, <1>8, <1>9, <1>10, <1>11, <1>12, <1>13 DEF S!Next

LEMMA SupportAnswered == ASSUME SupportInv PROVE Answered
BY DEF SupportInv, BorneOut, Answered, S!Answered, S!ResolvedIsAnswered, S!ClockStoppedByAnswer,
   S!AskedBeforeWaiting, ReplyKinds

-----------------------------------------------------------------------------
(***************************************************************************)
(* Offboarding.  A task is decided as often as its row says, and only a    *)
(* decided task carries a name.                                            *)
(***************************************************************************)

Outcomes == {"CONFIRMED", "NOT_APPLICABLE"}
TaskRow == [status : F!TaskStatus, owner : Operators \cup {Unowned}, by : Operators \cup {Unowned}]

CountsAgree(row, count) == count = IF row.status \in Outcomes THEN 1 ELSE 0
Signed(row) == row.by # Unowned => row.status \in Outcomes

OffboardingInv ==
  /\ task \in [F!Tasks -> TaskRow]
  /\ deciding \in [Operators -> [at : {"idle", "confirm", "assign"}, task : SUBSET F!Tasks]]
  /\ decisions \in [F!Tasks -> Nat]
  /\ \A t \in F!Tasks : CountsAgree(task[t], decisions[t]) /\ Signed(task[t])

\* What no step may do to a statement.
Stands(t) == task[t].by # Unowned => task'[t].by = task[t].by /\ task'[t].status = task[t].status

LEMMA OffboardingInit == ASSUME F!Init PROVE OffboardingInv
BY DEF F!Init, OffboardingInv, F!NoTask, F!NoDecision, TaskRow, F!TaskStatus, CountsAgree, Signed,
   Outcomes

LEMMA OffboardingStep ==
  ASSUME OffboardingInv, [F!Next]_(F!vars)
  PROVE  OffboardingInv' /\ \A t \in F!Tasks : Stands(t)
<1>1. ASSUME UNCHANGED <<task, decisions>>,
             deciding' \in [Operators -> [at : {"idle", "confirm", "assign"}, task : SUBSET F!Tasks]]
      PROVE  OffboardingInv' /\ \A t \in F!Tasks : Stands(t)
  BY <1>1 DEF OffboardingInv, Stands
<1>2. CASE UNCHANGED F!vars
  BY <1>1, <1>2 DEF F!vars, OffboardingInv
<1>3. CASE \/ F!CloseProject \/ F!QueueOpening \/ F!CloseDies \/ F!OpenRead \/ F!OpenDies
           \/ \E e \in Staff : F!ReleaseSeat(e)
  BY <1>1, <1>3 DEF F!CloseProject, F!QueueOpening, F!CloseDies, F!OpenRead, F!OpenDies, F!ReleaseSeat,
     OffboardingInv
<1>4. CASE F!OpenCommit
  <2> DEFINE fresh == [F!NoTask EXCEPT !.status = "PENDING"]
  <2>1. fresh \in TaskRow /\ fresh.status = "PENDING" /\ fresh.by = Unowned
    BY DEF F!NoTask, TaskRow, F!TaskStatus
  <2>2. /\ UNCHANGED <<deciding, decisions>>
        /\ task' = [t \in F!Tasks |-> IF t[1] \in seats /\ task[t].status = "NONE"
                                      THEN fresh ELSE task[t]]
    BY <1>4 DEF F!OpenCommit, F!Opened
  <2> HIDE DEF fresh
  <2>3. task' \in [F!Tasks -> TaskRow]
    BY <2>1, <2>2 DEF OffboardingInv
  <2>4. ASSUME NEW t \in F!Tasks
        PROVE  CountsAgree(task'[t], decisions[t]) /\ Signed(task'[t]) /\ Stands(t)
    <3>1. CountsAgree(task[t], decisions[t]) /\ Signed(task[t])
      BY DEF OffboardingInv
    <3>2. task'[t] = task[t] \/ (task[t].status = "NONE" /\ task'[t] = fresh)
      BY <2>2
    <3> QED
      BY <2>1, <3>1, <3>2 DEF CountsAgree, Signed, Stands, Outcomes
  <2> QED
    BY <2>2, <2>3, <2>4 DEF OffboardingInv
<1>5. ASSUME NEW o \in Operators, NEW t \in F!Tasks, NEW what \in {"confirm", "assign"},
             F!DecideRead(o, t, what)
      PROVE  OffboardingInv' /\ \A u \in F!Tasks : Stands(u)
  BY <1>1, <1>5 DEF F!DecideRead, OffboardingInv
<1>6. F!NoDecision \in [at : {"idle", "confirm", "assign"}, task : SUBSET F!Tasks]
  BY DEF F!NoDecision
<1>7. ASSUME NEW o \in Operators, NEW outcome \in Outcomes, F!ConfirmTask(o, outcome)
      PROVE  OffboardingInv' /\ \A t \in F!Tasks : Stands(t)
  <2>1. deciding' \in [Operators -> [at : {"idle", "confirm", "assign"}, task : SUBSET F!Tasks]]
    BY <1>6, <1>7 DEF F!ConfirmTask, OffboardingInv
  <2>2. PICK t \in F!Tasks :
          IF F!ConfirmClaims(t)
          THEN /\ task' = [task EXCEPT ![t].status = outcome, ![t].by = o]
               /\ decisions' = [decisions EXCEPT ![t] = @ + 1]
          ELSE UNCHANGED <<task, decisions>>
    BY <1>7 DEF F!ConfirmTask, OffboardingInv
  <2>3. CASE ~F!ConfirmClaims(t)
    BY <1>1, <2>1, <2>2, <2>3
  <2>4. CASE F!ConfirmClaims(t)
    <3> DEFINE row == [task[t] EXCEPT !.status = outcome, !.by = o]
    <3>1. /\ task[t] \in TaskRow /\ task[t].status = "PENDING"
          /\ CountsAgree(task[t], decisions[t]) /\ Signed(task[t]) /\ decisions[t] \in Nat
      BY <2>4 DEF F!ConfirmClaims, OffboardingInv
    <3>2. row \in TaskRow /\ row.status = outcome
      BY <3>1 DEF TaskRow, F!TaskStatus, Outcomes
    <3>3. task' = [task EXCEPT ![t] = row] /\ decisions' = [decisions EXCEPT ![t] = @ + 1]
      BY <2>2, <2>4 DEF OffboardingInv
    <3> HIDE DEF row
    <3>4. /\ task' \in [F!Tasks -> TaskRow] /\ task'[t] = row
          /\ \A u \in F!Tasks \ {t} : task'[u] = task[u] /\ decisions'[u] = decisions[u]
          /\ decisions' \in [F!Tasks -> Nat] /\ decisions'[t] = decisions[t] + 1
      BY <3>1, <3>2, <3>3 DEF OffboardingInv
    <3>5. CountsAgree(row, decisions'[t]) /\ Signed(row)
      BY <3>1, <3>2, <3>4 DEF CountsAgree, Signed, Outcomes
    <3>6. \A u \in F!Tasks : Stands(u)
      BY <3>1, <3>4 DEF Stands, Signed, Outcomes
    <3> QED
      BY <2>1, <3>4, <3>5, <3>6 DEF OffboardingInv
  <2> QED
    BY <2>3, <2>4
<1>8. ASSUME NEW o \in Operators, NEW whom \in Operators \cup {Unowned}, F!AssignTask(o, whom)
      PROVE  OffboardingInv' /\ \A t \in F!Tasks : Stands(t)
  <2>1. deciding' \in [Operators -> [at : {"idle", "confirm", "assign"}, task : SUBSET F!Tasks]]
    BY <1>6, <1>8 DEF F!AssignTask, OffboardingInv
  <2>2. PICK t \in F!Tasks : task' = [task EXCEPT ![t].owner = whom]
    BY <1>8 DEF F!AssignTask, OffboardingInv
  <2>3. task' \in [F!Tasks -> TaskRow]
    BY <2>2 DEF OffboardingInv, TaskRow
  <2>4. \A u \in F!Tasks : task'[u].status = task[u].status /\ task'[u].by = task[u].by
    BY <2>2 DEF OffboardingInv, TaskRow
  <2> QED
    BY <1>8, <2>1, <2>3, <2>4 DEF F!AssignTask, OffboardingInv, CountsAgree, Signed, Stands
<1> QED
  BY <1>2, <1>3, <1>4, <1>5, <1>7, <1>8 DEF F!Next, Outcomes

-----------------------------------------------------------------------------
(***************************************************************************)
(* The links of the portals.  Whoever claimed a link has it to himself.    *)
(***************************************************************************)

LinkRow == [used : BOOLEAN, revoked : BOOLEAN, expired : BOOLEAN, gone : BOOLEAN]
RedeemRow == [at : {"idle", "read", "claimed"}, link : SUBSET Links]

\* The requests that claimed k and have not created its session yet.
HasClaimed(r, k) == redeem[r].at = "claimed" /\ k \in redeem[r].link

LinksInv ==
  /\ link \in [Links -> LinkRow]
  /\ redeem \in [Redeemers -> RedeemRow]
  /\ portalSessions \in [Links -> Nat]
  /\ \A r \in Redeemers : \A j, k \in redeem[r].link : j = k
  /\ \A k \in Links :
       /\ portalSessions[k] \in {0, 1}
       /\ portalSessions[k] = 1 => link[k].used
       /\ ~(link[k].used /\ link[k].revoked)
       /\ \A r \in Redeemers : HasClaimed(r, k) => link[k].used /\ portalSessions[k] = 0
       /\ \A r, s \in Redeemers : HasClaimed(r, k) /\ HasClaimed(s, k) => r = s

LEMMA LinksInit == ASSUME G!Init PROVE LinksInv
BY DEF G!Init, LinksInv, LinkRow, RedeemRow, G!Absent, HasClaimed

\* A request that is given up, or a link that changes but for its use.
LEMMA LinksKept ==
  ASSUME LinksInv, link' \in [Links -> LinkRow], redeem' \in [Redeemers -> RedeemRow],
         UNCHANGED portalSessions,
         \A k \in Links : /\ link'[k].used = link[k].used
                          /\ link'[k].revoked => ~link[k].used,
         \A r \in Redeemers : \/ redeem'[r] = redeem[r]
                              \/ redeem'[r].at # "claimed" /\ \A j, k \in redeem'[r].link : j = k
  PROVE  LinksInv'
<1>1. \A r \in Redeemers, k \in Links : HasClaimed(r, k)' => HasClaimed(r, k)
  BY DEF HasClaimed
<1> QED
  BY <1>1 DEF LinksInv, LinkRow

LEMMA PortalStep == ASSUME LinksInv, [G!PortalNext]_(G!portalVars) PROVE LinksInv'
<1>1. G!Absent \in RedeemRow /\ G!Absent.at = "idle" /\ G!Absent.link = {}
  BY DEF G!Absent, RedeemRow
<1>2. CASE UNCHANGED G!portalVars
  BY <1>2 DEF G!portalVars, LinksInv, HasClaimed
<1>3. ASSUME NEW r \in Redeemers, NEW k \in Links, G!RedeemRead(r, k)
      PROVE  LinksInv'
  <2> DEFINE row == [at |-> "read", link |-> {k}]
  <2>1. /\ row \in RedeemRow /\ row.at = "read" /\ row.link = {k}
        /\ redeem' = [redeem EXCEPT ![r] = row] /\ UNCHANGED <<link, portalSessions>>
    BY <1>3 DEF G!RedeemRead, RedeemRow
  <2> HIDE DEF row
  <2>2. redeem' \in [Redeemers -> RedeemRow] /\ \A s \in Redeemers : redeem'[s] = IF s = r THEN row ELSE redeem[s]
    BY <2>1 DEF LinksInv
  <2> QED
    BY <2>1, <2>2, LinksKept DEF LinksInv
<1>4. ASSUME NEW r \in Redeemers, G!RedeemClaim(r)
      PROVE  LinksInv'
  <2>1. PICK k \in redeem[r].link :
          IF G!ClaimsLink(k)
          THEN /\ link' = [link EXCEPT ![k].used = TRUE]
               /\ redeem' = [redeem EXCEPT ![r].at = "claimed"]
          ELSE redeem' = [redeem EXCEPT ![r] = G!Absent] /\ UNCHANGED link
    BY <1>4 DEF G!RedeemClaim
  <2>2. /\ k \in Links /\ redeem[r] \in RedeemRow /\ redeem[r].at = "read" /\ redeem[r].link = {k}
        /\ UNCHANGED portalSessions
    BY <1>4, <2>1 DEF G!RedeemClaim, LinksInv, RedeemRow
  <2>3. CASE ~G!ClaimsLink(k)
    <3>1. /\ redeem' \in [Redeemers -> RedeemRow] /\ link' = link
          /\ \A s \in Redeemers : redeem'[s] = IF s = r THEN G!Absent ELSE redeem[s]
      BY <1>1, <2>1, <2>3 DEF LinksInv
    <3> QED
      BY <1>1, <2>2, <3>1, LinksKept DEF LinksInv
  <2>4. CASE G!ClaimsLink(k)
    <3>1. /\ ~link[k].used /\ ~link[k].revoked /\ link[k] \in LinkRow
          /\ portalSessions[k] = 0 /\ \A s \in Redeemers : ~HasClaimed(s, k)
      BY <2>2, <2>4 DEF G!ClaimsLink, LinksInv
    <3>2. /\ link' \in [Links -> LinkRow] /\ link'[k].used /\ ~link'[k].revoked
          /\ \A j \in Links \ {k} : link'[j] = link[j]
      <4> DEFINE row == [link[k] EXCEPT !.used = TRUE]
      <4>1. row \in LinkRow /\ row.used = TRUE /\ row.revoked = link[k].revoked
        BY <3>1 DEF LinkRow
      <4>2. link' = [link EXCEPT ![k] = row]
        BY <2>1, <2>4
      <4> HIDE DEF row
      <4>3. link' \in [Links -> LinkRow] /\ link'[k] = row /\ \A j \in Links \ {k} : link'[j] = link[j]
        BY <2>2, <4>1, <4>2 DEF LinksInv
      <4> QED
        BY <3>1, <4>1, <4>3
    <3>3. /\ redeem' \in [Redeemers -> RedeemRow] /\ redeem'[r].link = {k}
          /\ \A s \in Redeemers \ {r} : redeem'[s] = redeem[s]
      BY <2>1, <2>2, <2>4 DEF LinksInv, RedeemRow
    <3>4. \A s \in Redeemers, j \in Links :
            HasClaimed(s, j)' => IF s = r THEN j = k ELSE j # k /\ HasClaimed(s, j)
      BY <3>1, <3>3 DEF HasClaimed
    <3>5. \A s \in Redeemers : \A i, j \in redeem'[s].link : i = j
      BY <3>3 DEF LinksInv
    <3>6. ASSUME NEW j \in Links
          PROVE  /\ portalSessions'[j] \in {0, 1}
                 /\ portalSessions'[j] = 1 => link'[j].used
                 /\ ~(link'[j].used /\ link'[j].revoked)
                 /\ \A s \in Redeemers : HasClaimed(s, j)' => link'[j].used /\ portalSessions'[j] = 0
                 /\ \A s, t \in Redeemers : HasClaimed(s, j)' /\ HasClaimed(t, j)' => s = t
      BY <2>2, <3>1, <3>2, <3>4 DEF LinksInv
    <3> QED
      BY <2>2, <3>2, <3>3, <3>5, <3>6 DEF LinksInv
  <2> QED
    BY <2>3, <2>4
<1>5. ASSUME NEW r \in Redeemers, G!RedeemSession(r)
      PROVE  LinksInv'
  <2>1. PICK k \in redeem[r].link : portalSessions' = [portalSessions EXCEPT ![k] = @ + 1]
    BY <1>5 DEF G!RedeemSession
  <2>2. /\ k \in Links /\ HasClaimed(r, k) /\ UNCHANGED link
        /\ portalSessions[k] = 0 /\ link[k].used
    BY <1>5, <2>1 DEF G!RedeemSession, LinksInv, RedeemRow, HasClaimed
  <2>3. /\ redeem' \in [Redeemers -> RedeemRow]
        /\ \A s \in Redeemers : redeem'[s] = IF s = r THEN G!Absent ELSE redeem[s]
    BY <1>1, <1>5 DEF G!RedeemSession, LinksInv
  <2>4. /\ portalSessions' \in [Links -> Nat] /\ portalSessions'[k] = 1
        /\ \A j \in Links \ {k} : portalSessions'[j] = portalSessions[j]
    BY <2>1, <2>2 DEF LinksInv
  <2>5. \A s \in Redeemers, j \in Links : HasClaimed(s, j)' => HasClaimed(s, j) /\ s # r
    BY <1>1, <2>3 DEF HasClaimed
  <2>6. \A s \in Redeemers : ~HasClaimed(s, k)'
    BY <2>2, <2>5 DEF LinksInv
  <2> QED
    BY <1>1, <2>2, <2>3, <2>4, <2>5, <2>6 DEF LinksInv
<1>6. ASSUME NEW r \in Redeemers, G!RedeemDies(r)
      PROVE  LinksInv'
  <2>1. /\ redeem' \in [Redeemers -> RedeemRow] /\ UNCHANGED <<link, portalSessions>>
        /\ \A s \in Redeemers : redeem'[s] = IF s = r THEN G!Absent ELSE redeem[s]
    BY <1>1, <1>6 DEF G!RedeemDies, LinksInv
  <2> QED
    BY <1>1, <2>1, LinksKept DEF LinksInv
<1>7. ASSUME NEW k \in Links, G!LinkExpires(k) \/ G!RevokePortalTokens(k)
      PROVE  LinksInv'
  <2>1. UNCHANGED <<redeem, portalSessions>> /\ link' \in [Links -> LinkRow]
    <3>1. /\ [link[k] EXCEPT !.expired = TRUE] \in LinkRow
          /\ [link[k] EXCEPT !.revoked = TRUE] \in LinkRow
      BY DEF LinksInv, LinkRow
    <3>2. \/ link' = [link EXCEPT ![k] = [link[k] EXCEPT !.expired = TRUE]]
          \/ link' = [link EXCEPT ![k] = [link[k] EXCEPT !.revoked = TRUE]]
      BY <1>7 DEF G!LinkExpires, G!RevokePortalTokens
    <3>3. link' \in [Links -> LinkRow]
      BY <3>1, <3>2 DEF LinksInv
    <3> QED
      BY <1>7, <3>3 DEF G!LinkExpires, G!RevokePortalTokens
  <2>2. \A j \in Links : /\ link'[j].used = link[j].used
                         /\ link'[j].revoked => ~link[j].used
    BY <1>7 DEF G!LinkExpires, G!RevokePortalTokens, LinksInv, LinkRow
  <2> QED
    BY <2>1, <2>2, LinksKept DEF LinksInv
<1>8. CASE G!PurgeTokens
  <2>1. UNCHANGED <<redeem, portalSessions>> /\ link' \in [Links -> LinkRow]
    BY <1>8 DEF G!PurgeTokens, LinksInv, LinkRow
  <2>2. \A j \in Links : link'[j].used = link[j].used /\ link'[j].revoked = link[j].revoked
    BY <1>8 DEF G!PurgeTokens, LinksInv, LinkRow
  <2> QED
    BY <2>1, <2>2, LinksKept DEF LinksInv
<1>9. ASSUME NEW k \in Links, G!OwnerLeaves(k)
      PROVE  LinksInv'
  BY <1>9 DEF G!OwnerLeaves, LinksInv, HasClaimed
<1> QED
  BY <1>2, <1>3, <1>4, <1>5, <1>6, <1>7, <1>8, <1>9 DEF G!PortalNext

LEMMA LinksHeld == ASSUME LinksInv PROVE G!LinksHold
BY DEF LinksInv, G!LinksHold, G!OneSessionPerLink, G!RevokedStaysShut

-----------------------------------------------------------------------------
(***************************************************************************)
(* The throttle.  Every request that passed the check and has not recorded *)
(* its outcome may still add one failure to the limit it saw.              *)
(***************************************************************************)

LoginRow == [at : {"idle", "checked", "compared", "recorded"},
             email : SUBSET Accounts, typed : G!Passwords, ok : BOOLEAN]

\* The failures of u in the window q, after his last success, for which his
\* password was compared.
Vain(q, u) ==
  {i \in 1 .. Len(q) : /\ q[i].email = u /\ ~q[i].ok /\ q[i].compared
                       /\ \A j \in 1 .. Len(q) : q[j].email = u /\ q[j].ok => j < i}

\* The requests that may still compare his password, or record that they have.
Pending(rows, u) == {l \in Logins : rows[l].at \in {"checked", "compared"} /\ u \in rows[l].email}

Bounded(q, rows, u) ==
  Cardinality(Vain(q, u)) + Cardinality(Pending(rows, u))
    <= EMAIL_ATTEMPT_LIMIT + Cardinality(Logins) - 1

SignInInv ==
  /\ attempts \in Seq(G!Attempt)
  /\ login \in [Logins -> LoginRow]
  /\ \A l \in Logins : login[l].at # "idle" => \E u \in Accounts : login[l].email = {u}
  /\ \A u \in Accounts : Bounded(attempts, login, u)

LEMMA VainFinite ==
  ASSUME NEW q \in Seq(G!Attempt), NEW u
  PROVE  IsFiniteSet(Vain(q, u)) /\ Cardinality(Vain(q, u)) \in Nat
<1>1. IsFiniteSet(1 .. Len(q))
  BY FS_Interval, LenProperties
<1>2. Vain(q, u) \in SUBSET (1 .. Len(q))
  BY DEF Vain
<1> QED
  BY <1>1, <1>2, FS_Subset, FS_CardinalityType

\* The components have their own copies of the module of finite sets.
LEMMA SameFinite == ASSUME NEW X PROVE G!IsFiniteSet(X) <=> IsFiniteSet(X)
BY DEF G!IsFiniteSet, IsFiniteSet

LEMMA SameCard == ASSUME NEW X PROVE G!Cardinality(X) = Cardinality(X)
BY Zenon DEF G!Cardinality, Cardinality

LEMMA PendingFinite ==
  ASSUME NEW rows, NEW u
  PROVE  /\ IsFiniteSet(Pending(rows, u)) /\ Cardinality(Pending(rows, u)) \in Nat
         /\ IsFiniteSet(Logins) /\ Cardinality(Logins) \in Nat
         /\ Cardinality(Pending(rows, u)) <= Cardinality(Logins)
<1>1. IsFiniteSet(Logins)
  BY SameFinite, OperationsAssumption DEF G!AccessAssumption
<1>2. Pending(rows, u) \in SUBSET Logins
  BY DEF Pending
<1> QED
  BY <1>1, <1>2, FS_Subset, FS_CardinalityType

LEMMA LimitPositive == EMAIL_ATTEMPT_LIMIT \in Nat /\ EMAIL_ATTEMPT_LIMIT >= 1
BY OperationsAssumption DEF G!AccessAssumption

\* An attempt that is recorded: of somebody else or not compared, a success,
\* or one more failure.
LEMMA VainAppend ==
  ASSUME NEW q \in Seq(G!Attempt), NEW a \in G!Attempt, NEW u
  PROVE  /\ a.email # u \/ (~a.ok /\ ~a.compared) => Vain(Append(q, a), u) = Vain(q, u)
         /\ a.email = u /\ a.ok => Vain(Append(q, a), u) = {}
         /\ a.email = u /\ ~a.ok /\ a.compared =>
              Vain(Append(q, a), u) = Vain(q, u) \cup {Len(q) + 1}
<1> DEFINE p == Append(q, a)
           n == Len(q)
<1>1. /\ n \in Nat /\ Len(p) = n + 1 /\ p[n + 1] = a
      /\ \A i \in 1 .. n : p[i] = q[i]
  BY AppendProperties, LenProperties
<1>2. 1 .. n + 1 = (1 .. n) \cup {n + 1} /\ n + 1 \notin 1 .. n
  BY <1>1
<1>3. \A i \in 1 .. n : i < n + 1 /\ ~(n + 1 < i)
  BY <1>1
<1> HIDE DEF p, n
<1>4. \A i \in 1 .. n : i \in Vain(p, u) <=> i \in Vain(q, u) /\ ~(a.email = u /\ a.ok)
  BY <1>1, <1>2, <1>3 DEF Vain, n
<1>5. n + 1 \in Vain(p, u) <=> a.email = u /\ ~a.ok /\ a.compared
  BY <1>1, <1>2, <1>3 DEF Vain
<1>6. Vain(p, u) \subseteq (1 .. n) \cup {n + 1} /\ Vain(q, u) \subseteq 1 .. n
  BY <1>1, <1>2 DEF Vain, n
<1> QED
  BY <1>2, <1>4, <1>5, <1>6 DEF p, n

\* The window passes over the oldest attempt.
LEMMA VainTail ==
  ASSUME NEW q \in Seq(G!Attempt), q # <<>>, NEW u
  PROVE  Cardinality(Vain(Tail(q), u)) <= Cardinality(Vain(q, u))
<1> DEFINE p == Tail(q)
           f == [i \in Vain(p, u) |-> i + 1]
<1>1. /\ p \in Seq(G!Attempt) /\ Len(q) \in Nat /\ Len(p) \in Nat /\ Len(p) = Len(q) - 1
      /\ \A i \in 1 .. Len(p) : p[i] = q[i + 1]
  BY HeadTailProperties, LenProperties
<1> HIDE DEF p
<1>2. ASSUME NEW i \in Vain(p, u)
      PROVE  i + 1 \in Vain(q, u)
  <2>1. /\ i \in 1 .. Len(p) /\ i + 1 \in 1 .. Len(q) /\ q[i + 1] = p[i]
        /\ q[i + 1].email = u /\ ~q[i + 1].ok /\ q[i + 1].compared
    BY <1>1 DEF Vain
  <2>2. ASSUME NEW j \in 1 .. Len(q), q[j].email = u, q[j].ok
        PROVE  j < i + 1
    <3>1. CASE j = 1
      BY <2>1, <3>1
    <3>2. CASE j # 1
      <4>1. j - 1 \in 1 .. Len(p) /\ (j - 1) + 1 = j
        BY <1>1, <3>2
      <4>2. p[j - 1].email = u /\ p[j - 1].ok
        BY <1>1, <2>2, <4>1
      <4>3. j - 1 < i
        BY <4>1, <4>2 DEF Vain
      <4> QED
        BY <2>1, <4>3
    <3> QED
      BY <3>1, <3>2
  <2> QED
    BY <2>1, <2>2 DEF Vain
<1>3. f \in Injection(Vain(p, u), Vain(q, u))
  <2>1. Vain(p, u) \subseteq Int
    BY DEF Vain
  <2> QED
    BY <1>2, <2>1 DEF Injection, IsInjective
<1>4. IsFiniteSet(Vain(q, u))
  BY VainFinite
<1> QED
  BY <1>3, <1>4, FS_Injection DEF p

LEMMA SignInInit == ASSUME G!Init PROVE SignInInv
<1>1. attempts = <<>> /\ login = [l \in Logins |-> G!Away]
  BY DEF G!Init
<1>2. 0 \in G!Passwords
  BY OperationsAssumption DEF G!Passwords, G!AccessAssumption
<1>3. G!Away \in LoginRow /\ G!Away.at = "idle"
  BY <1>2 DEF G!Away, LoginRow
<1>4. ASSUME NEW u \in Accounts
      PROVE  Bounded(attempts, login, u)
  <2>1. Vain(attempts, u) = {} /\ Pending(login, u) = {}
    BY <1>1, <1>3 DEF Vain, Pending
  <2>2. Cardinality(Logins) \in Nat
    BY PendingFinite
  <2> QED
    BY <2>1, <2>2, FS_EmptySet, LimitPositive DEF Bounded
<1> QED
  BY <1>1, <1>3, <1>4 DEF SignInInv

\* Nobody new is pending, and no failure of a compared password is added.
LEMMA BoundKept ==
  ASSUME NEW u, NEW p \in Seq(G!Attempt), NEW q \in Seq(G!Attempt), NEW rows, NEW next,
         Cardinality(Vain(p, u)) <= Cardinality(Vain(q, u)),
         Pending(next, u) \subseteq Pending(rows, u), Bounded(q, rows, u)
  PROVE  Bounded(p, next, u)
<1>1. Cardinality(Pending(next, u)) <= Cardinality(Pending(rows, u))
  BY PendingFinite, FS_Subset
<1> QED
  BY <1>1, PendingFinite, VainFinite, LimitPositive DEF Bounded

LEMMA SignInStep == ASSUME SignInInv, [G!SignInNext]_(G!loginVars) PROVE SignInInv'
<1>1. G!Away \in LoginRow /\ G!Away.at = "idle"
  <2>1. 0 \in G!Passwords
    BY OperationsAssumption DEF G!Passwords, G!AccessAssumption
  <2> QED
    BY <2>1 DEF G!Away, LoginRow
<1>2. ASSUME UNCHANGED <<attempts, login>>
      PROVE  SignInInv'
  BY <1>2 DEF SignInInv
<1>3. CASE UNCHANGED G!loginVars
  BY <1>2, <1>3 DEF G!loginVars
<1>4. CASE \/ \E u \in Accounts : \/ G!RotateOperatorPassword(u) \/ G!DeactivateOperator(u)
                                  \/ G!RevokeSessionsFor(u)
           \/ \E s \in operatorSessions : G!Logout(s) \/ G!SessionExpires(s)
           \/ G!PurgeExpiredSessions
  BY <1>2, <1>4 DEF G!RotateOperatorPassword, G!DeactivateOperator, G!RevokeSessionsFor, G!Logout,
     G!SessionExpires, G!PurgeExpiredSessions
<1>5. CASE G!WindowPasses
  <2>1. attempts # <<>> /\ attempts' = Tail(attempts) /\ login' = login
    BY <1>5 DEF G!WindowPasses
  <2>2. attempts' \in Seq(G!Attempt)
    BY <2>1, HeadTailProperties DEF SignInInv
  <2>3. ASSUME NEW u \in Accounts
        PROVE  Bounded(attempts', login', u)
    BY <2>1, <2>2, VainTail, BoundKept DEF SignInInv
  <2> QED
    BY <2>1, <2>2, <2>3 DEF SignInInv
<1>6. ASSUME NEW l \in Logins, NEW v \in Accounts, NEW typed \in G!Passwords,
             G!LoginCheck(l, v, typed)
      PROVE  SignInInv'
  <2>1. CASE G!Locked(v)
    <3> DEFINE a == [email |-> v, ok |-> FALSE, compared |-> FALSE]
    <3>1. attempts' = Append(attempts, a) /\ login' = login /\ a \in G!Attempt
      BY <1>6, <2>1 DEF G!LoginCheck, G!Records, G!Attempt
    <3>2. attempts' \in Seq(G!Attempt)
      BY <3>1, AppendProperties DEF SignInInv
    <3>3. ASSUME NEW u \in Accounts
          PROVE  Vain(attempts', u) = Vain(attempts, u)
      BY <3>1, VainAppend DEF SignInInv
    <3> QED
      BY <3>1, <3>2, <3>3 DEF SignInInv, Bounded
  <2>2. CASE ~G!Locked(v)
    <3> DEFINE row == [G!Away EXCEPT !.at = "checked", !.email = {v}, !.typed = typed]
    <3>1. /\ row \in LoginRow /\ row.at = "checked" /\ row.email = {v}
          /\ login' = [login EXCEPT ![l] = row] /\ attempts' = attempts /\ login[l].at = "idle"
      BY <1>1, <1>6, <2>2 DEF G!LoginCheck, G!Away, LoginRow
    <3> HIDE DEF row
    <3>2. /\ login' \in [Logins -> LoginRow] /\ login'[l] = row
          /\ \A k \in Logins \ {l} : login'[k] = login[k]
      BY <3>1 DEF SignInInv
    <3>3. Cardinality(Vain(attempts, v)) < EMAIL_ATTEMPT_LIMIT
      <4> DEFINE E == {i \in G!Failures(v) : \A j \in G!Successes(v) : j < i}
      <4>1. attempts \in Seq(G!Attempt) /\ DOMAIN attempts = 1 .. Len(attempts)
        BY LenProperties DEF SignInInv
      <4>2. Vain(attempts, v) \subseteq E /\ E \in SUBSET (1 .. Len(attempts))
        BY <4>1 DEF Vain, G!Failures, G!Successes
      <4>3. IsFiniteSet(1 .. Len(attempts))
        BY <4>1, FS_Interval, LenProperties
      <4>4. IsFiniteSet(E) /\ Cardinality(E) \in Nat
        BY <4>2, <4>3, FS_Subset, FS_CardinalityType
      <4>5. Cardinality(Vain(attempts, v)) <= Cardinality(E)
        BY <4>2, <4>4, FS_Subset
      <4>6. Cardinality(E) < EMAIL_ATTEMPT_LIMIT
        <5>1. ~(G!Cardinality(E) >= EMAIL_ATTEMPT_LIMIT)
          BY <2>2 DEF G!Locked, G!EmailFailures
        <5> QED
          BY <4>4, <5>1, SameCard, LimitPositive
      <4> QED
        BY <4>1, <4>4, <4>5, <4>6, VainFinite, LimitPositive
    <3>4. ASSUME NEW u \in Accounts
          PROVE  Bounded(attempts', login', u)
      <4>1. CASE u = v
        BY <3>1, <3>3, <4>1, PendingFinite, VainFinite, LimitPositive DEF Bounded, SignInInv
      <4>2. CASE u # v
        <5>1. Pending(login', u) = Pending(login, u)
          BY <3>1, <3>2, <4>2 DEF Pending
        <5> QED
          BY <3>1, <5>1, Zenon DEF Bounded, SignInInv
      <4> QED
        BY <4>1, <4>2
    <3> QED
      BY <3>1, <3>2, <3>4 DEF SignInInv
  <2> QED
    BY <2>1, <2>2
<1>7. ASSUME NEW l \in Logins, G!LoginCompare(l)
      PROVE  SignInInv'
  <2>1. PICK u \in login[l].email :
          login' = [login EXCEPT ![l].at = "compared",
                      ![l].ok = account[u].active /\ account[u].password = login[l].typed]
    BY <1>7 DEF G!LoginCompare
  <2> DEFINE row == [login[l] EXCEPT !.at = "compared",
                       !.ok = account[u].active /\ account[u].password = login[l].typed]
  <2>2. login[l] \in LoginRow /\ login[l].at = "checked" /\ attempts' = attempts
    BY <1>7 DEF G!LoginCompare, SignInInv
  <2>3. row.at = "compared" /\ row.email = login[l].email
    BY <2>2 DEF LoginRow
  <2>4. (account[u].active /\ account[u].password = login[l].typed) \in BOOLEAN
    OBVIOUS
  <2>5. row \in LoginRow
    BY <2>2, <2>4 DEF LoginRow
  <2>6. login' = [login EXCEPT ![l] = row]
    BY <2>1 DEF SignInInv
  <2> HIDE DEF row
  <2>7. /\ login' \in [Logins -> LoginRow] /\ login'[l] = row
        /\ \A k \in Logins \ {l} : login'[k] = login[k]
    BY <2>5, <2>6 DEF SignInInv
  <2>8. \A v : Pending(login', v) = Pending(login, v)
    BY <2>2, <2>3, <2>7 DEF Pending
  <2> QED
    BY <2>2, <2>3, <2>7, <2>8 DEF SignInInv, Bounded
<1>8. ASSUME NEW l \in Logins, G!LoginRecord(l)
      PROVE  SignInInv'
  <2> DEFINE row == IF login[l].ok THEN [login[l] EXCEPT !.at = "recorded"] ELSE G!Away
  <2>1. login[l] \in LoginRow /\ login[l].at = "compared"
    BY <1>8 DEF G!LoginRecord, SignInInv
  <2>2. PICK v \in Accounts : login[l].email = {v}
    BY <2>1 DEF SignInInv
  <2> DEFINE a == [email |-> v, ok |-> login[l].ok, compared |-> TRUE]
  <2>3. attempts' = Append(attempts, a) /\ a \in G!Attempt
    BY <1>8, <2>1, <2>2 DEF G!LoginRecord, G!Records, G!Attempt, LoginRow
  <2>4. login' = [login EXCEPT ![l] = row]
    BY <1>8 DEF G!LoginRecord, SignInInv
  <2>5. /\ row \in LoginRow /\ row.at \in {"recorded", "idle"}
        /\ row.at # "idle" => row.email = {v}
    BY <1>1, <2>1, <2>2 DEF LoginRow
  <2>6. a.email = v /\ a.ok = login[l].ok /\ a.compared
    OBVIOUS
  <2> HIDE DEF row, a
  <2>7. /\ login' \in [Logins -> LoginRow] /\ login'[l] = row
        /\ \A k \in Logins \ {l} : login'[k] = login[k]
    BY <2>4, <2>5 DEF SignInInv
  <2>8. attempts \in Seq(G!Attempt) /\ attempts' \in Seq(G!Attempt)
    BY <2>3, AppendProperties DEF SignInInv
  <2>9. ASSUME NEW u \in Accounts
        PROVE  Bounded(attempts', login', u)
    <3>1. Pending(login', u) = Pending(login, u) \ {l} /\ (u = v => l \in Pending(login, u))
      BY <2>1, <2>2, <2>5, <2>7 DEF Pending
    <3>2. CASE u # v
      <4>1. Vain(attempts', u) = Vain(attempts, u)
        BY <2>3, <2>6, <2>8, <3>2, VainAppend
      <4>2. Pending(login', u) \subseteq Pending(login, u)
        BY <3>1
      <4>3. Bounded(attempts, login, u) /\ Cardinality(Vain(attempts, u)) \in Nat
        BY <2>8, VainFinite DEF SignInInv
      <4> QED
        BY <2>8, <4>1, <4>2, <4>3, BoundKept
    <3>3. CASE u = v /\ a.ok
      <4>1. Cardinality(Vain(attempts', u)) = 0
        BY <2>3, <2>6, <2>8, <3>3, VainAppend, FS_EmptySet
      <4> QED
        BY <4>1, PendingFinite, LimitPositive DEF Bounded
    <3>4. CASE u = v /\ ~a.ok
      <4>1. Vain(attempts', u) = Vain(attempts, u) \cup {Len(attempts) + 1}
        BY <2>3, <2>6, <2>8, <3>4, VainAppend
      <4>2. Cardinality(Vain(attempts', u)) <= Cardinality(Vain(attempts, u)) + 1
        <5>1. IsFiniteSet(Vain(attempts, u)) /\ Cardinality(Vain(attempts, u)) \in Nat
          BY <2>8, VainFinite
        <5>2. \/ Cardinality(Vain(attempts, u) \cup {Len(attempts) + 1}) = Cardinality(Vain(attempts, u))
              \/ Cardinality(Vain(attempts, u) \cup {Len(attempts) + 1}) = Cardinality(Vain(attempts, u)) + 1
          BY <5>1, FS_AddElement
        <5> QED
          BY <4>1, <5>1, <5>2
      <4>3. Cardinality(Pending(login', u)) = Cardinality(Pending(login, u)) - 1
        BY <3>1, <3>4, PendingFinite, FS_RemoveElement
      <4>4. Bounded(attempts, login, u)
        BY DEF SignInInv
      <4> QED
        BY <2>8, <4>2, <4>3, <4>4, VainFinite, PendingFinite, LimitPositive DEF Bounded
    <3> QED
      BY <3>2, <3>3, <3>4
  <2> QED
    BY <2>5, <2>7, <2>8, <2>9 DEF SignInInv
<1>9. ASSUME NEW l \in Logins, G!LoginSession(l)
      PROVE  SignInInv'
  <2>1. /\ login' = [login EXCEPT ![l] = G!Away] /\ attempts' = attempts
        /\ login[l].at = "recorded"
    BY <1>9 DEF G!LoginSession
  <2>2. /\ login' \in [Logins -> LoginRow] /\ login'[l] = G!Away
        /\ \A k \in Logins \ {l} : login'[k] = login[k]
    BY <1>1, <2>1 DEF SignInInv
  <2>3. \A v : Pending(login', v) = Pending(login, v)
    BY <1>1, <2>1, <2>2 DEF Pending
  <2> QED
    BY <1>1, <2>1, <2>2, <2>3 DEF SignInInv, Bounded
<1> QED
  BY <1>3, <1>4, <1>5, <1>6, <1>7, <1>8, <1>9 DEF G!SignInNext

LEMMA Throttles == ASSUME SignInInv PROVE G!Throttled
<1> DEFINE E(u) == {i \in G!Failures(u) : attempts[i].compared /\ \A j \in G!Successes(u) : j < i}
<1>1. attempts \in Seq(G!Attempt) /\ DOMAIN attempts = 1 .. Len(attempts)
  BY LenProperties DEF SignInInv
<1>2. ASSUME NEW u \in Accounts
      PROVE  G!Cardinality(E(u)) <= EMAIL_ATTEMPT_LIMIT + G!Cardinality(Logins) - 1
  <2>1. E(u) = Vain(attempts, u)
    BY <1>1 DEF Vain, G!Failures, G!Successes
  <2>2. Bounded(attempts, login, u)
    BY DEF SignInInv
  <2> HIDE DEF E
  <2>3. G!Cardinality(E(u)) = Cardinality(Vain(attempts, u))
    BY <2>1, SameCard
  <2>4. G!Cardinality(Logins) = Cardinality(Logins)
    BY SameCard
  <2> QED
    BY <1>1, <2>2, <2>3, <2>4, VainFinite, PendingFinite, LimitPositive DEF Bounded
<1> QED
  BY <1>2 DEF G!Throttled

-----------------------------------------------------------------------------
(***************************************************************************)
(* Invitations.  A job keeps the row of an expert from its claim to its    *)
(* commit, so that no two claim the same one and nobody else moves it; for *)
(* each expert the books agree: what was opened, sent and ended with what  *)
(* was written to him; and a message a job is about to write is allowed by *)
(* what its addressee says now, or he said it after he was asked.          *)
(***************************************************************************)
InvitationRow == [status : I!InvitationStatus, sentAt : Nat, expiresAt : Nat, reminded : BOOLEAN]
MailRow == [I!Template -> Nat]
WorkerRow ==
  [at : {"idle", "send", "remind", "expire"}, todo : SUBSET Experts, claimed : SUBSET Experts,
   allowed : SUBSET Experts, due : SUBSET Experts, may : SUBSET Experts, out : SUBSET Experts]
GuestRow ==
  [at : {"idle", "create", "queue", "answer"}, e : Experts \cup {NoExpert}, seen : I!InvitationStatus]

\* The books of one expert: his invitation, the messages to him, and how often
\* it was opened, sent and ended.
Books(row, m, o, s, d) ==
  /\ d <= o /\ (row.status \in {"DRAFT", "SENT"} => d < o)
  /\ m["reminder"] <= s /\ (row.status = "SENT" /\ ~row.reminded => m["reminder"] < s)
  /\ m["expired"] <= d
  /\ row.status = "DRAFT" => ~row.reminded /\ row.sentAt = 0

\* The stage of one job: what it claimed, and what it wrote for it.
Stage(r) ==
  /\ r.at \in {"idle", "send"} => r.claimed = {}
  /\ r.at = "send" => \E e \in Experts : r.todo = {e}
  /\ r.at \in {"remind", "expire"} =>
       r.out \subseteq r.claimed /\ r.due \subseteq r.claimed /\ r.may \subseteq r.claimed

\* What a job claimed is still as it found it.
Held(r, inv) ==
  \A e \in r.claimed : inv[e].status = "SENT" /\ (r.at = "remind" => ~inv[e].reminded)

JobsInv(ws, inv) ==
  /\ ws \in [Workers -> WorkerRow]
  /\ \A w \in Workers : Stage(ws[w]) /\ Held(ws[w], inv)
  /\ \A w, x \in Workers : w # x => ws[w].claimed \cap ws[x].claimed = {}

\* The workers that are sending the invitation of e; each has a queued job.
Sending(ws, e) == {x \in Workers : ws[x].at = "send" /\ ws[x].todo = {e}}

Queued(ws, jobs) == \A e \in Experts : Cardinality(Sending(ws, e)) <= jobs[e]

\* The experts who may be sent what job r writes, if their preferences are p.
MayReach(p, r) ==
  {e \in Experts : I!MayContact(p[e], IF r.at = "remind" THEN "REMINDER" ELSE "OPERATIONAL")}

\* What a job is about to write is welcome, but for the workers in l.
Welcome(ws, p, l) == \A w \in Workers \ l : ws[w].may \subseteq MayReach(p, ws[w])

BooksInv ==
  /\ invitation \in [Experts -> InvitationRow]
  /\ mail \in [Experts -> MailRow]
  /\ opened \in [Experts -> Nat] /\ sends \in [Experts -> Nat] /\ ended \in [Experts -> Nat]
  /\ \A e \in Experts : Books(invitation[e], mail[e], opened[e], sends[e], ended[e])

GuestsInv ==
  /\ session \in [Guests -> GuestRow]
  /\ \A s \in Guests : /\ session[s].at # "idle" => session[s].e \in Experts
                       /\ session[s].at = "answer" => session[s].seen \in {"ACCEPTED", "DECLINED"}

QueueInv == sendJobs \in [Experts -> Nat] /\ Queued(worker, sendJobs)

ConsentInv == late \subseteq Workers /\ against = {} /\ Welcome(worker, preference, late)

DeskInv ==
  /\ now \in 0 .. MaxTime /\ crashes \in 0 .. MaxCrashes
  /\ preference \in [Experts -> I!ContactPreference]
  /\ stranded \subseteq Experts

InvitationsInv ==
  DeskInv /\ BooksInv /\ JobsInv(worker, invitation) /\ GuestsInv /\ QueueInv /\ ConsentInv

LEMMA Bounds ==
  /\ IsFiniteSet(Workers)
  /\ TtlHours \in Nat /\ MaxTime \in Nat /\ MaxOpenings \in Nat /\ MaxCrashes \in Nat
  /\ NoExpert \notin Experts
<1>1. I!IsFiniteSet(Workers)
  BY OperationsAssumption DEF I!InvitationsAssumption
<1> QED
  BY <1>1, OperationsAssumption DEF I!InvitationsAssumption, I!IsFiniteSet, IsFiniteSet

LEMMA SameCardI == ASSUME NEW X PROVE I!Cardinality(X) = Cardinality(X)
BY Zenon DEF I!Cardinality, Cardinality

LEMMA SendingFinite ==
  ASSUME NEW ws, NEW e
  PROVE  IsFiniteSet(Sending(ws, e)) /\ Cardinality(Sending(ws, e)) \in Nat
<1>1. Sending(ws, e) \in SUBSET Workers
  BY DEF Sending
<1> QED
  BY <1>1, Bounds, FS_Subset, FS_CardinalityType

LEMMA IdleRows ==
  /\ I!NoRow \in InvitationRow /\ I!NoRow.status = "NONE"
  /\ I!IdleWorker \in WorkerRow /\ Stage(I!IdleWorker) /\ I!IdleWorker.claimed = {}
  /\ I!IdleWorker.at = "idle" /\ I!IdleWorker.out = {} /\ I!IdleWorker.may = {} /\ I!IdleWorker.due = {}
  /\ I!IdleSession \in GuestRow /\ I!IdleSession.at = "idle"
<1>1. I!NoRow \in InvitationRow /\ I!NoRow.status = "NONE"
  BY DEF I!NoRow, InvitationRow, I!InvitationStatus
<1>2. /\ I!IdleWorker \in WorkerRow /\ I!IdleWorker.claimed = {}
      /\ I!IdleWorker.at = "idle" /\ I!IdleWorker.out = {} /\ I!IdleWorker.may = {} /\ I!IdleWorker.due = {}
  BY DEF I!IdleWorker, WorkerRow
<1>3. I!IdleSession \in GuestRow /\ I!IdleSession.at = "idle"
  BY DEF I!IdleSession, GuestRow, I!InvitationStatus
<1> QED
  BY <1>1, <1>2, <1>3 DEF Stage

\* A job moves on; what the others hold stays theirs.
LEMMA JobsKept ==
  ASSUME NEW ws, NEW inv, NEW next, JobsInv(ws, inv), NEW w \in Workers, NEW r \in WorkerRow,
         Stage(r), Held(r, next),
         \A x \in Workers \ {w} : \A e \in ws[x].claimed : next[e] = inv[e] /\ e \notin r.claimed
  PROVE  JobsInv([ws EXCEPT ![w] = r], next)
<1> DEFINE p == [ws EXCEPT ![w] = r]
<1>1. p \in [Workers -> WorkerRow] /\ p[w] = r /\ \A x \in Workers \ {w} : p[x] = ws[x]
  BY DEF JobsInv
<1> HIDE DEF p
<1>2. ASSUME NEW x \in Workers
      PROVE  Stage(p[x]) /\ Held(p[x], next)
  <2>1. CASE x = w
    BY <1>1, <2>1
  <2>2. CASE x # w
    BY <1>1, <2>2 DEF JobsInv, Held
  <2> QED
    BY <2>1, <2>2
<1>3. ASSUME NEW x \in Workers, NEW y \in Workers, x # y
      PROVE  p[x].claimed \cap p[y].claimed = {}
  <2>1. CASE x = w
    BY <1>1, <1>3, <2>1
  <2>2. CASE y = w
    BY <1>1, <1>3, <2>2
  <2>3. CASE x # w /\ y # w
    BY <1>1, <1>3, <2>3 DEF JobsInv
  <2> QED
    BY <2>1, <2>2, <2>3
<1> QED
  BY <1>1, <1>2, <1>3 DEF JobsInv, p

\* Nobody moves, and a row nobody holds is written.
LEMMA RowWritten ==
  ASSUME NEW ws, NEW inv, NEW next, JobsInv(ws, inv), NEW e \in Experts,
         \A w \in Workers : e \notin ws[w].claimed,
         \A x \in Experts \ {e} : next[x] = inv[x]
  PROVE  JobsInv(ws, next)
<1>1. ASSUME NEW w \in Workers
      PROVE  Held(ws[w], next)
  <2>1. ws[w].claimed \subseteq Experts \ {e}
    BY DEF JobsInv, WorkerRow
  <2> QED
    BY <2>1 DEF JobsInv, Held
<1> QED
  BY <1>1 DEF JobsInv

\* A job moves on to anything but a sending.
LEMMA SendingKept ==
  ASSUME NEW ws \in [Workers -> WorkerRow], NEW w \in Workers, NEW r, r.at # "send", NEW e
  PROVE  Cardinality(Sending([ws EXCEPT ![w] = r], e)) <= Cardinality(Sending(ws, e))
<1> DEFINE new == Sending([ws EXCEPT ![w] = r], e)
           old == Sending(ws, e)
<1>1. new = old \ {w}
  BY DEF Sending
<1>2. IsFiniteSet(old) /\ Cardinality(old) \in Nat
  BY SendingFinite
<1> HIDE DEF new, old
<1>3. Cardinality(old \ {w}) = IF w \in old THEN Cardinality(old) - 1 ELSE Cardinality(old)
  BY <1>2, FS_RemoveElement
<1>4. Cardinality(new) <= Cardinality(old)
  BY <1>1, <1>2, <1>3
<1> QED
  BY <1>4 DEF new, old

LEMMA QueuedKept ==
  ASSUME NEW ws \in [Workers -> WorkerRow], NEW jobs \in [Experts -> Nat],
         Queued(ws, jobs), NEW w \in Workers, NEW r, r.at # "send"
  PROVE  Queued([ws EXCEPT ![w] = r], jobs)
<1>1. ASSUME NEW e \in Experts
      PROVE  Cardinality(Sending([ws EXCEPT ![w] = r], e)) <= jobs[e]
  <2>1. Cardinality(Sending([ws EXCEPT ![w] = r], e)) <= Cardinality(Sending(ws, e))
    BY SendingKept
  <2>2. Cardinality(Sending([ws EXCEPT ![w] = r], e)) \in Nat /\ Cardinality(Sending(ws, e)) \in Nat
    BY SendingFinite
  <2>3. Cardinality(Sending(ws, e)) <= jobs[e] /\ jobs[e] \in Nat
    BY DEF Queued
  <2> QED
    BY <2>1, <2>2, <2>3
<1> QED
  BY <1>1 DEF Queued

\* A job moves on within a sending, or within anything else.
LEMMA SendingSame ==
  ASSUME NEW ws \in [Workers -> WorkerRow], NEW jobs, Queued(ws, jobs), NEW w \in Workers, NEW r,
         r.at = ws[w].at, r.todo = ws[w].todo
  PROVE  Queued([ws EXCEPT ![w] = r], jobs)
<1>1. \A e : Sending([ws EXCEPT ![w] = r], e) = Sending(ws, e)
  BY DEF Sending
<1> QED
  BY <1>1 DEF Queued

\* A job moves on to where it is about to write nothing, or what is welcome.
LEMMA WelcomeKept ==
  ASSUME NEW ws \in [Workers -> WorkerRow], NEW p, NEW l, Welcome(ws, p, l), NEW w \in Workers, NEW r,
         r.may \subseteq MayReach(p, r), NEW k, l \subseteq k \cup {w}
  PROVE  Welcome([ws EXCEPT ![w] = r], p, k)
BY DEF Welcome

LEMMA InvitationsInit == ASSUME I!Init PROVE InvitationsInv
<1>1. DeskInv
  BY Bounds DEF I!Init, DeskInv, I!ContactPreference
<1>2. BooksInv
  <2>1. I!NoRow \in InvitationRow /\ I!NoRow.status = "NONE"
    BY IdleRows
  <2>2. [t \in I!Template |-> 0] \in MailRow /\ {"reminder", "expired"} \subseteq I!Template
    BY DEF MailRow, I!Template
  <2> QED
    BY <2>1, <2>2 DEF I!Init, BooksInv, Books
<1>3. JobsInv(worker, invitation)
  BY IdleRows DEF I!Init, JobsInv, Held
<1>4. GuestsInv
  BY IdleRows DEF I!Init, GuestsInv
<1>5. QueueInv
  <2>1. \A e : Sending(worker, e) = {}
    BY IdleRows DEF I!Init, Sending
  <2>2. Cardinality({}) = 0
    BY FS_EmptySet
  <2>3. sendJobs \in [Experts -> Nat] /\ \A e \in Experts : sendJobs[e] = 0
    BY DEF I!Init
  <2>4. \A e \in Experts : Cardinality(Sending(worker, e)) = 0
    BY <2>1, <2>2, Zenon
  <2>5. ASSUME NEW e \in Experts PROVE Cardinality(Sending(worker, e)) <= sendJobs[e]
    <3>1. Cardinality(Sending(worker, e)) = 0 /\ sendJobs[e] = 0
      BY <2>3, <2>4
    <3> QED
      BY <3>1
  <2>6. Queued(worker, sendJobs)
    BY <2>5 DEF Queued
  <2> QED
    BY <2>3, <2>6 DEF QueueInv
<1>6. ConsentInv
  BY IdleRows DEF I!Init, ConsentInv, Welcome
<1> QED
  BY <1>1, <1>2, <1>3, <1>4, <1>5, <1>6 DEF InvitationsInv

\* A request is served, and a job begins: nothing else moves.
LEMMA GuestServed ==
  ASSUME GuestsInv, NEW s \in Guests, NEW r \in GuestRow, I!Serves(s, r),
         r.at # "idle" => r.e \in Experts, r.at = "answer" => r.seen \in {"ACCEPTED", "DECLINED"}
  PROVE  GuestsInv'
<1>1. session' \in [Guests -> GuestRow] /\ session'[s] = r /\ \A t \in Guests \ {s} : session'[t] = session[t]
  BY DEF I!Serves, GuestsInv
<1> QED
  BY <1>1 DEF GuestsInv

LEMMA JobBegins ==
  ASSUME InvitationsInv, NEW w \in Workers, NEW r \in WorkerRow, r.at # "send", r.claimed = {}, r.may = {},
         Stage(r), worker' = [worker EXCEPT ![w] = r], late' = late \/ late' = late \ {w},
         UNCHANGED <<now, preference, invitation, sendJobs, session, mail, opened, sends, ended,
                     against, stranded>>,
         crashes' \in 0 .. MaxCrashes
  PROVE  InvitationsInv'
<1>1. JobsInv(worker', invitation')
  BY JobsKept DEF InvitationsInv, Held
<1>2. QueueInv'
  BY QueuedKept DEF InvitationsInv, QueueInv, JobsInv
<1>3. DeskInv' /\ BooksInv' /\ GuestsInv'
  BY DEF InvitationsInv, DeskInv, BooksInv, GuestsInv
<1>4. ConsentInv'
  <2>1. late \subseteq late' \cup {w} /\ r.may \subseteq MayReach(preference, r)
    OBVIOUS
  <2> QED
    BY <2>1, WelcomeKept DEF InvitationsInv, ConsentInv, JobsInv
<1> QED
  BY <1>1, <1>2, <1>3, <1>4 DEF InvitationsInv

\* The row of one expert is written, and nobody holds it.
LEMMA BooksWritten ==
  ASSUME BooksInv, NEW e \in Experts, NEW row \in InvitationRow, NEW m \in MailRow,
         NEW o \in Nat, NEW n \in Nat, NEW d \in Nat, Books(row, m, o, n, d),
         invitation' = [invitation EXCEPT ![e] = row], mail' = [mail EXCEPT ![e] = m],
         opened' = [opened EXCEPT ![e] = o], sends' = [sends EXCEPT ![e] = n],
         ended' = [ended EXCEPT ![e] = d]
  PROVE  BooksInv'
<1>1. /\ invitation'[e] = row /\ mail'[e] = m /\ opened'[e] = o /\ sends'[e] = n /\ ended'[e] = d
      /\ \A x \in Experts \ {e} : /\ invitation'[x] = invitation[x] /\ mail'[x] = mail[x]
                                  /\ opened'[x] = opened[x] /\ sends'[x] = sends[x] /\ ended'[x] = ended[x]
  BY DEF BooksInv
<1>2. \A x \in Experts : Books(invitation'[x], mail'[x], opened'[x], sends'[x], ended'[x])
  BY <1>1, Zenon DEF BooksInv
<1> QED
  BY <1>2 DEF BooksInv

\* An invitation that is open, and that no job holds, is ended.
LEMMA EndKept ==
  ASSUME InvitationsInv, NEW e \in Experts, invitation[e].status \in {"DRAFT", "SENT"},
         I!Unlocked(e), NEW to \in {"ACCEPTED", "DECLINED", "WITHDRAWN"}, I!Ends(e, to),
         UNCHANGED <<now, preference, sendJobs, worker, mail, opened, sends, late, against, stranded,
                     crashes>>,
         GuestsInv'
  PROVE  InvitationsInv'
<1> DEFINE row == [invitation[e] EXCEPT !.status = to]
<1>1. /\ invitation[e] \in InvitationRow /\ mail[e] \in MailRow /\ opened[e] \in Nat
      /\ sends[e] \in Nat /\ ended[e] \in Nat
      /\ Books(invitation[e], mail[e], opened[e], sends[e], ended[e])
  BY DEF InvitationsInv, BooksInv
<1>2. row \in InvitationRow /\ row.status = to
  BY <1>1 DEF InvitationRow, I!InvitationStatus
<1>3. /\ invitation' = [invitation EXCEPT ![e] = row] /\ ended' = [ended EXCEPT ![e] = ended[e] + 1]
      /\ mail' = [mail EXCEPT ![e] = mail[e]] /\ opened' = [opened EXCEPT ![e] = opened[e]]
      /\ sends' = [sends EXCEPT ![e] = sends[e]]
  BY DEF I!Ends, InvitationsInv, BooksInv
<1>4. mail[e]["expired"] \in Nat
  BY <1>1 DEF MailRow, I!Template
<1> HIDE DEF row
<1>5. Books(row, mail[e], opened[e], sends[e], ended[e] + 1)
  BY <1>1, <1>2, <1>4 DEF Books
<1>6. BooksInv'
  <2>1. /\ invitation' \in [Experts -> InvitationRow] /\ invitation'[e] = row
        /\ ended' \in [Experts -> Nat] /\ ended'[e] = ended[e] + 1
        /\ \A x \in Experts \ {e} : invitation'[x] = invitation[x] /\ ended'[x] = ended[x]
    BY <1>1, <1>2, <1>3 DEF InvitationsInv, BooksInv
  <2>2. \A x \in Experts : Books(invitation'[x], mail[x], opened[x], sends[x], ended'[x])
    BY <1>5, <2>1, Zenon DEF InvitationsInv, BooksInv
  <2> QED
    BY <2>1, <2>2 DEF InvitationsInv, BooksInv
<1>7. JobsInv(worker', invitation')
  <2>1. \A x \in Experts \ {e} : invitation'[x] = invitation[x]
    BY <1>3 DEF InvitationsInv, BooksInv
  <2> QED
    BY <2>1, RowWritten DEF InvitationsInv, I!Unlocked
<1>8. DeskInv' /\ QueueInv' /\ ConsentInv'
  BY DEF InvitationsInv, DeskInv, QueueInv, ConsentInv
<1> QED
  BY <1>6, <1>7, <1>8 DEF InvitationsInv

LEMMA RequestStep ==
  ASSUME InvitationsInv, NEW s \in Guests, I!Request(s)
  PROVE  InvitationsInv'
<1>1. ASSUME NEW e \in Experts, I!CreateRead(s, e) \/ I!AnswerRead(s, e)
      PROVE  InvitationsInv'
  <2>1. /\ UNCHANGED <<now, preference, invitation, sendJobs, worker, mail, opened, sends, ended,
                       late, against, stranded, crashes>>
        /\ \E r \in GuestRow : /\ I!Serves(s, r) /\ r.e = e
                               /\ r.at = "answer" => r.seen \in {"ACCEPTED", "DECLINED"}
    <3>1. CASE I!CreateRead(s, e)
      <4> DEFINE r == [at |-> "create", e |-> e, seen |-> invitation[e].status]
      <4>1. r \in GuestRow /\ I!Serves(s, r) /\ r.e = e /\ r.at = "create"
        BY <3>1 DEF I!CreateRead, GuestRow, InvitationsInv, BooksInv, InvitationRow
      <4> HIDE DEF r
      <4> QED
        BY <3>1, <4>1 DEF I!CreateRead, I!rows, I!history
    <3>2. CASE I!AnswerRead(s, e)
      <4>1. PICK to \in {"ACCEPTED", "DECLINED"} : I!Serves(s, [at |-> "answer", e |-> e, seen |-> to])
        BY <3>2 DEF I!AnswerRead
      <4> DEFINE r == [at |-> "answer", e |-> e, seen |-> to]
      <4>2. r \in GuestRow /\ I!Serves(s, r) /\ r.e = e /\ r.seen = to
        BY <4>1 DEF GuestRow, I!InvitationStatus
      <4> HIDE DEF r
      <4> QED
        BY <3>2, <4>1, <4>2 DEF I!AnswerRead, I!rows, I!history
    <3> QED
      BY <1>1, <3>1, <3>2
  <2>2. GuestsInv'
    BY <2>1, GuestServed DEF InvitationsInv
  <2> QED
    BY <2>1, <2>2 DEF InvitationsInv, DeskInv, BooksInv, QueueInv, ConsentInv
<1>2. ASSUME I!CreateWrite(s)
      PROVE  InvitationsInv'
  <2> DEFINE e == session[s].e
             conflict == session[s].seen = "NONE" /\ invitation[e].status # "NONE"
  <2>1. /\ e \in Experts /\ I!Unlocked(e)
        /\ UNCHANGED <<now, preference, sendJobs, worker, mail, sends, ended, late, against, crashes>>
        /\ stranded' = stranded \/ stranded' = stranded \ {e}
    BY <1>2 DEF I!CreateWrite, InvitationsInv, GuestsInv
  <2>2. GuestsInv'
    <3> DEFINE r == [at |-> "queue", e |-> e, seen |-> "NONE"]
    <3>1. r \in GuestRow /\ r.e = e /\ r.at = "queue"
      BY <2>1 DEF GuestRow, I!InvitationStatus
    <3>2. I!Serves(s, I!IdleSession) \/ I!Serves(s, r)
      BY <1>2 DEF I!CreateWrite
    <3> HIDE DEF r
    <3> QED
      BY <2>1, <3>1, <3>2, GuestServed, IdleRows DEF InvitationsInv
  <2>3. DeskInv' /\ QueueInv' /\ ConsentInv'
    BY <2>1 DEF InvitationsInv, DeskInv, QueueInv, ConsentInv
  <2>4. CASE conflict \/ opened[e] = MaxOpenings
    BY <1>2, <2>1, <2>2, <2>3, <2>4 DEF I!CreateWrite, InvitationsInv, BooksInv
  <2>5. CASE ~(conflict \/ opened[e] = MaxOpenings)
    <3> DEFINE row == I!Reopened(invitation[e])
    <3>1. /\ invitation' = [invitation EXCEPT ![e] = row]
          /\ opened' = [opened EXCEPT ![e] = opened[e] + 1]
      BY <1>2, <2>5 DEF I!CreateWrite
    <3> HIDE DEF e
    <3>2. /\ mail[e] \in MailRow /\ opened[e] \in Nat /\ sends[e] \in Nat /\ ended[e] \in Nat
          /\ Books(invitation[e], mail[e], opened[e], sends[e], ended[e])
          /\ mail' = [mail EXCEPT ![e] = mail[e]] /\ sends' = [sends EXCEPT ![e] = sends[e]]
          /\ ended' = [ended EXCEPT ![e] = ended[e]]
      BY <2>1 DEF InvitationsInv, BooksInv
    <3>3. row \in InvitationRow /\ row.status = "DRAFT" /\ ~row.reminded /\ row.sentAt = 0
      <4>1. now + TtlHours \in Nat
        BY Bounds DEF InvitationsInv, DeskInv
      <4> QED
        BY <4>1 DEF I!Reopened, I!NoRow, InvitationRow, I!InvitationStatus
    <3> HIDE DEF row
    <3>4. Books(row, mail[e], opened[e] + 1, sends[e], ended[e])
      BY <3>2, <3>3 DEF Books
    <3>5. BooksInv'
      <4>1. BooksInv /\ opened[e] + 1 \in Nat /\ e \in Experts
        BY <2>1, <3>2 DEF InvitationsInv
      <4> QED
        BY <3>1, <3>2, <3>3, <3>4, <4>1, BooksWritten
    <3>6. JobsInv(worker', invitation')
      <4>1. \A x \in Experts \ {e} : invitation'[x] = invitation[x]
        BY <2>1, <3>1 DEF InvitationsInv, BooksInv
      <4> QED
        BY <2>1, <4>1, RowWritten DEF InvitationsInv, I!Unlocked
    <3> QED
      BY <2>2, <2>3, <3>5, <3>6 DEF InvitationsInv
  <2> QED
    BY <2>4, <2>5
<1>3. ASSUME I!AnswerWrite(s)
      PROVE  InvitationsInv'
  <2> DEFINE e == session[s].e
  <2>1. /\ e \in Experts /\ I!Unlocked(e) /\ session[s].seen \in {"ACCEPTED", "DECLINED"}
        /\ UNCHANGED <<now, preference, sendJobs, worker, mail, opened, sends, late, against, stranded,
                       crashes>>
        /\ I!Serves(s, I!IdleSession)
    BY <1>3 DEF I!AnswerWrite, InvitationsInv, GuestsInv
  <2>2. GuestsInv'
    BY <2>1, GuestServed, IdleRows DEF InvitationsInv
  <2>3. CASE invitation[e].status = "SENT"
    <3>1. I!Ends(e, session[s].seen)
      BY <1>3, <2>3 DEF I!AnswerWrite
    <3> HIDE DEF e
    <3> QED
      BY <2>1, <2>2, <2>3, <3>1, EndKept
  <2>4. CASE invitation[e].status # "SENT"
    BY <1>3, <2>1, <2>2, <2>4 DEF I!AnswerWrite, InvitationsInv, DeskInv, BooksInv, QueueInv, ConsentInv
  <2> QED
    BY <2>3, <2>4
<1>4. ASSUME I!ScheduleSend(s)
      PROVE  InvitationsInv'
  <2> DEFINE e == session[s].e
  <2>1. /\ e \in Experts /\ sendJobs' = [sendJobs EXCEPT ![e] = @ + 1] /\ I!Serves(s, I!IdleSession)
        /\ UNCHANGED <<now, preference, invitation, worker, mail, opened, sends, ended, late, against,
                       stranded, crashes>>
    BY <1>4 DEF I!ScheduleSend, I!history, InvitationsInv, GuestsInv
  <2> HIDE DEF e
  <2>2. GuestsInv'
    BY <2>1, GuestServed, IdleRows DEF InvitationsInv
  <2>3. QueueInv'
    <3>1. /\ sendJobs' \in [Experts -> Nat] /\ sendJobs'[e] = sendJobs[e] + 1
          /\ \A x \in Experts \ {e} : sendJobs'[x] = sendJobs[x]
      BY <2>1 DEF InvitationsInv, QueueInv
    <3>2. ASSUME NEW x \in Experts
          PROVE  Cardinality(Sending(worker', x)) <= sendJobs'[x]
      <4>1. /\ Cardinality(Sending(worker, x)) \in Nat /\ sendJobs[x] \in Nat
            /\ Cardinality(Sending(worker, x)) <= sendJobs[x] /\ worker' = worker
        BY <2>1, SendingFinite DEF InvitationsInv, QueueInv, Queued
      <4>2. sendJobs'[x] = sendJobs[x] \/ sendJobs'[x] = sendJobs[x] + 1
        BY <3>1
      <4> QED
        BY <4>1, <4>2
    <3> QED
      BY <3>1, <3>2 DEF QueueInv, Queued
  <2> QED
    BY <2>1, <2>2, <2>3 DEF InvitationsInv, DeskInv, BooksInv, ConsentInv
<1> QED
  BY <1>1, <1>2, <1>3, <1>4 DEF I!Request

\* A request dies and leaves a draft that nobody sends.
LEMMA CreateDiesStep ==
  ASSUME InvitationsInv, NEW s \in Guests, I!CreateDies(s)
  PROVE  InvitationsInv'
<1>1. /\ session[s].e \in Experts /\ crashes' = crashes + 1 /\ crashes < MaxCrashes
      /\ stranded' = stranded \cup {session[s].e} /\ I!Serves(s, I!IdleSession)
      /\ UNCHANGED <<now, preference, invitation, sendJobs, worker, mail, opened, sends, ended, late,
                     against>>
  BY DEF I!CreateDies, I!rows, InvitationsInv, GuestsInv
<1>2. GuestsInv'
  BY <1>1, GuestServed, IdleRows DEF InvitationsInv
<1>3. DeskInv'
  BY <1>1, Bounds DEF InvitationsInv, DeskInv
<1> QED
  BY <1>1, <1>2, <1>3 DEF InvitationsInv, BooksInv, QueueInv, ConsentInv

\* The worker's jobs.  A worker that sends e gives back the queued job it ran.
LEMMA Dequeued ==
  ASSUME QueueInv, worker \in [Workers -> WorkerRow], NEW e \in Experts, NEW ws, \A x \in Experts : Cardinality(Sending(ws, x)) <= Cardinality(Sending(worker, x)),
         Cardinality(Sending(ws, e)) < sendJobs[e],
         sendJobs' = [sendJobs EXCEPT ![e] = @ - 1], worker' = ws
  PROVE  QueueInv'
<1>1. sendJobs[e] \in Nat /\ Cardinality(Sending(ws, e)) \in Nat
  BY SendingFinite DEF QueueInv
<1>2. sendJobs' \in [Experts -> Nat] /\ sendJobs'[e] = sendJobs[e] - 1
      /\ \A x \in Experts \ {e} : sendJobs'[x] = sendJobs[x]
  BY <1>1 DEF QueueInv
<1>3. ASSUME NEW x \in Experts
      PROVE  Cardinality(Sending(worker', x)) <= sendJobs'[x]
  <2>1. /\ Cardinality(Sending(worker, x)) \in Nat /\ Cardinality(Sending(worker', x)) \in Nat
        /\ Cardinality(Sending(worker, x)) <= sendJobs[x] /\ sendJobs[x] \in Nat
    BY SendingFinite DEF QueueInv, Queued
  <2>2. Cardinality(Sending(worker', x)) <= Cardinality(Sending(worker, x))
    OBVIOUS
  <2>3. x = e => Cardinality(Sending(worker', x)) < sendJobs[x]
    OBVIOUS
  <2> QED
    BY <1>2, <2>1, <2>2, <2>3
<1> QED
  BY <1>2, <1>3 DEF QueueInv, Queued

LEMMA SendReadStep ==
  ASSUME InvitationsInv, NEW w \in Workers, NEW e \in Experts, I!SendRead(w, e)
  PROVE  InvitationsInv'
<1>1. /\ worker[w].at = "idle" /\ worker \in [Workers -> WorkerRow]
      /\ UNCHANGED <<now, preference, invitation, session, mail, opened, sends, ended, late, against,
                     stranded, crashes>>
  BY DEF I!SendRead, I!history, InvitationsInv, JobsInv
<1>2. Cardinality(Sending(worker, e)) < sendJobs[e]
  BY SameCardI DEF I!SendRead, Sending
<1>3. DeskInv' /\ BooksInv' /\ GuestsInv'
  BY <1>1 DEF InvitationsInv, DeskInv, BooksInv, GuestsInv
<1>4. CASE invitation[e].status = "DRAFT"
  <2> DEFINE r == [I!IdleWorker EXCEPT !.at = "send", !.todo = {e}, !.due = {e}]
  <2>1. worker' = [worker EXCEPT ![w] = r] /\ sendJobs' = sendJobs
    BY <1>4 DEF I!SendRead, I!Runs
  <2>2. r \in WorkerRow /\ r.at = "send" /\ r.todo = {e} /\ r.claimed = {} /\ r.may = {}
    BY DEF I!IdleWorker, WorkerRow
  <2> HIDE DEF r
  <2>3. Stage(r) /\ Held(r, invitation)
    BY <2>2 DEF Stage, Held
  <2>4. JobsInv(worker', invitation')
    BY <1>1, <2>1, <2>2, <2>3, JobsKept DEF InvitationsInv
  <2>5. QueueInv'
    <3>1. ASSUME NEW x \in Experts
          PROVE  Cardinality(Sending(worker', x)) <= sendJobs[x]
      <4>1. /\ Cardinality(Sending(worker, x)) \in Nat /\ Cardinality(Sending(worker', x)) \in Nat
            /\ Cardinality(Sending(worker, x)) <= sendJobs[x] /\ sendJobs[x] \in Nat
        BY SendingFinite DEF InvitationsInv, QueueInv, Queued
      <4>2. CASE x = e
        <5>1. Sending(worker', e) = Sending(worker, e) \cup {w}
          BY <1>1, <2>1, <2>2 DEF Sending
        <5>2. IsFiniteSet(Sending(worker, e))
          BY SendingFinite
        <5>3. Cardinality(Sending(worker, e) \cup {w}) =
                IF w \in Sending(worker, e) THEN Cardinality(Sending(worker, e))
                                            ELSE Cardinality(Sending(worker, e)) + 1
          BY <5>2, FS_AddElement
        <5> QED
          BY <1>2, <4>1, <4>2, <5>1, <5>3
      <4>3. CASE x # e
        <5>1. Sending(worker', x) = Sending(worker, x)
          BY <1>1, <2>1, <2>2, <4>3 DEF Sending
        <5> QED
          BY <4>1, <5>1
      <4> QED
        BY <4>2, <4>3
    <3> QED
      BY <1>1, <2>1, <3>1 DEF InvitationsInv, QueueInv, Queued
  <2>6. ConsentInv'
    <3>1. Welcome([worker EXCEPT ![w] = r], preference, late)
      BY <1>1, <2>2, WelcomeKept DEF InvitationsInv, ConsentInv
    <3> QED
      BY <1>1, <2>1, <3>1 DEF InvitationsInv, ConsentInv
  <2> QED
    BY <1>3, <2>4, <2>5, <2>6 DEF InvitationsInv
<1>5. CASE invitation[e].status # "DRAFT"
  <2>1. worker' = worker /\ sendJobs' = [sendJobs EXCEPT ![e] = @ - 1]
    BY <1>5 DEF I!SendRead
  <2>2. \A x \in Experts : Cardinality(Sending(worker, x)) <= Cardinality(Sending(worker, x))
    BY SendingFinite
  <2>3. QueueInv'
    BY <1>1, <1>2, <2>1, <2>2, Dequeued DEF InvitationsInv
  <2> QED
    BY <1>1, <1>3, <2>1, <2>3 DEF InvitationsInv, ConsentInv
<1> QED
  BY <1>4, <1>5

LEMMA SendCommitStep ==
  ASSUME InvitationsInv, NEW w \in Workers, I!SendCommit(w)
  PROVE  InvitationsInv'
<1>1. /\ worker[w].at = "send" /\ worker \in [Workers -> WorkerRow] /\ worker[w].claimed = {}
      /\ UNCHANGED <<now, preference, session, opened, ended, late, against, stranded, crashes>>
      /\ worker' = [worker EXCEPT ![w] = I!IdleWorker]
  BY DEF I!SendCommit, I!Runs, InvitationsInv, JobsInv, Stage
<1>2. PICK e \in worker[w].todo :
        /\ I!Unlocked(e)
        /\ IF invitation[e].status = "DRAFT"
           THEN /\ invitation' = [invitation EXCEPT ![e].status = "SENT", ![e].sentAt = now]
                /\ sends' = [sends EXCEPT ![e] = @ + 1]
           ELSE UNCHANGED <<invitation, sends>>
        /\ sendJobs' = [sendJobs EXCEPT ![e] = @ - 1]
  BY DEF I!SendCommit
<1>3. e \in Experts /\ worker[w].todo = {e} /\ w \in Sending(worker, e)
  BY <1>1, <1>2 DEF InvitationsInv, JobsInv, Stage, Sending
<1>4. DeskInv' /\ GuestsInv' /\ ConsentInv'
  <2>1. Welcome([worker EXCEPT ![w] = I!IdleWorker], preference, late)
    BY <1>1, IdleRows, WelcomeKept DEF InvitationsInv, ConsentInv
  <2> QED
    BY <1>1, <2>1 DEF InvitationsInv, DeskInv, GuestsInv, ConsentInv
<1>5. \A x \in Experts : Cardinality(Sending(worker', x)) <= Cardinality(Sending(worker, x))
  BY <1>1, IdleRows, SendingKept
<1>6. QueueInv'
  <2>1. Cardinality(Sending(worker', e)) = Cardinality(Sending(worker, e)) - 1
    <3>1. Sending(worker', e) = Sending(worker, e) \ {w}
      BY <1>1, IdleRows DEF Sending
    <3>2. IsFiniteSet(Sending(worker, e))
      BY SendingFinite
    <3> QED
      BY <1>3, <3>1, <3>2, FS_RemoveElement
  <2>2. /\ Cardinality(Sending(worker, e)) \in Nat /\ Cardinality(Sending(worker, e)) <= sendJobs[e]
        /\ sendJobs[e] \in Nat
    BY <1>3, SendingFinite DEF InvitationsInv, QueueInv, Queued
  <2>3. Cardinality(Sending(worker', e)) < sendJobs[e]
    BY <2>1, <2>2
  <2>4. QueueInv
    BY DEF InvitationsInv
  <2> DEFINE ws == [worker EXCEPT ![w] = I!IdleWorker]
  <2>5. worker' = ws
    BY <1>1
  <2>6. /\ \A x \in Experts : Cardinality(Sending(ws, x)) <= Cardinality(Sending(worker, x))
        /\ Cardinality(Sending(ws, e)) < sendJobs[e]
    BY <1>5, <2>3, <2>5
  <2> HIDE DEF ws
  <2> QED
    BY <1>1, <1>2, <1>3, <2>4, <2>5, <2>6, Dequeued
<1>7. /\ mail' \in [Experts -> MailRow]
      /\ \A x \in Experts : /\ mail'[x]["reminder"] = mail[x]["reminder"]
                            /\ mail'[x]["expired"] = mail[x]["expired"]
  BY DEF I!SendCommit, I!Posts, InvitationsInv, BooksInv, MailRow, I!Template
<1>8. CASE invitation[e].status # "DRAFT"
  <2>1. invitation' = invitation /\ sends' = sends
    BY <1>2, <1>8
  <2>2. BooksInv'
    BY <1>1, <1>7, <2>1 DEF InvitationsInv, BooksInv, Books
  <2>3. JobsInv(worker', invitation')
    BY <1>1, <2>1, IdleRows, JobsKept DEF InvitationsInv, Held
  <2> QED
    BY <1>4, <1>6, <2>2, <2>3 DEF InvitationsInv
<1>9. CASE invitation[e].status = "DRAFT"
  <2> DEFINE row == [invitation[e] EXCEPT !.status = "SENT", !.sentAt = now]
  <2>1. /\ invitation' = [invitation EXCEPT ![e] = row] /\ sends' = [sends EXCEPT ![e] = sends[e] + 1]
        /\ invitation[e] \in InvitationRow /\ now \in Nat
    <3>1. invitation \in [Experts -> InvitationRow] /\ now \in Nat
      BY Bounds DEF InvitationsInv, BooksInv, DeskInv
    <3>2. /\ invitation' = [invitation EXCEPT ![e].status = "SENT", ![e].sentAt = now]
          /\ sends' = [sends EXCEPT ![e] = @ + 1]
      BY <1>2, <1>9
    <3> QED
      BY <1>3, <3>1, <3>2
  <2>2. row \in InvitationRow /\ row.status = "SENT" /\ row.reminded = invitation[e].reminded
    BY <2>1 DEF InvitationRow, I!InvitationStatus
  <2> HIDE DEF row
  <2>3. /\ invitation' \in [Experts -> InvitationRow] /\ invitation'[e] = row
        /\ sends' \in [Experts -> Nat] /\ sends'[e] = sends[e] + 1
        /\ \A x \in Experts \ {e} : invitation'[x] = invitation[x] /\ sends'[x] = sends[x]
    BY <1>3, <2>1, <2>2 DEF InvitationsInv, BooksInv
  <2>4. BooksInv'
    <3>1. ASSUME NEW x \in Experts
          PROVE  Books(invitation'[x], mail'[x], opened'[x], sends'[x], ended'[x])
      <4>1. /\ Books(invitation[x], mail[x], opened[x], sends[x], ended[x])
            /\ mail[x]["reminder"] \in Nat /\ sends[x] \in Nat
        BY DEF InvitationsInv, BooksInv, MailRow, I!Template
      <4>2. CASE x = e
        BY <1>1, <1>7, <1>9, <2>2, <2>3, <4>1, <4>2 DEF Books
      <4>3. CASE x # e
        BY <1>1, <1>7, <2>3, <4>1, <4>3 DEF Books
      <4> QED
        BY <4>2, <4>3
    <3> QED
      BY <1>1, <1>7, <2>3, <3>1 DEF InvitationsInv, BooksInv
  <2>5. JobsInv(worker', invitation')
    <3>1. JobsInv(worker, invitation')
      BY <1>2, <1>3, <2>3, RowWritten DEF InvitationsInv, I!Unlocked
    <3> QED
      BY <1>1, <3>1, IdleRows, JobsKept DEF Held
  <2> QED
    BY <1>4, <1>6, <2>4, <2>5 DEF InvitationsInv
<1> QED
  BY <1>8, <1>9

\* A job commits: its rows are written, its letters are posted, its locks go.
LEMMA JobCommits ==
  ASSUME InvitationsInv, NEW w \in Workers, worker' = [worker EXCEPT ![w] = I!IdleWorker],
         invitation' \in [Experts -> InvitationRow],
         \A e \in Experts \ worker[w].claimed : invitation'[e] = invitation[e],
         UNCHANGED <<now, preference, sendJobs, session, opened, sends, late, against, stranded, crashes>>,
         BooksInv'
  PROVE  InvitationsInv'
<1>1. JobsInv(worker', invitation')
  <2>1. JobsInv(worker, invitation)
    BY DEF InvitationsInv
  <2>2. ASSUME NEW x \in Workers \ {w}, NEW e \in worker[x].claimed
        PROVE  invitation'[e] = invitation[e] /\ e \notin I!IdleWorker.claimed
    <3>1. e \in Experts /\ e \notin worker[w].claimed
      BY <2>1, <2>2 DEF JobsInv, WorkerRow
    <3> QED
      BY <3>1, IdleRows
  <2>3. Held(I!IdleWorker, invitation')
    BY IdleRows DEF Held
  <2> QED
    BY <2>1, <2>2, <2>3, IdleRows, JobsKept
<1>2. QueueInv'
  <2>1. Queued([worker EXCEPT ![w] = I!IdleWorker], sendJobs)
    <3>1. /\ worker \in [Workers -> WorkerRow] /\ sendJobs \in [Experts -> Nat]
          /\ Queued(worker, sendJobs)
      BY DEF InvitationsInv, JobsInv, QueueInv
    <3>2. I!IdleWorker.at # "send"
      BY IdleRows
    <3> QED
      BY <3>1, <3>2, QueuedKept
  <2> QED
    BY <2>1 DEF InvitationsInv, QueueInv
<1>3. DeskInv' /\ GuestsInv' /\ ConsentInv'
  <2>1. Welcome([worker EXCEPT ![w] = I!IdleWorker], preference, late)
    BY IdleRows, WelcomeKept DEF InvitationsInv, ConsentInv, JobsInv
  <2> QED
    BY <2>1 DEF InvitationsInv, DeskInv, GuestsInv, ConsentInv
<1> QED
  BY <1>1, <1>2, <1>3 DEF InvitationsInv

\* A job takes up the next expert of its list: it claims him, or passes over him.
LEMMA JobClaims ==
  ASSUME InvitationsInv, NEW w \in Workers, worker[w].at \in {"remind", "expire"},
         I!Written(w), NEW e \in worker[w].todo, I!Unlocked(e), NEW C \in SUBSET {e},
         C # {} => /\ invitation[e].status = "SENT"
                   /\ worker[w].at = "remind" => ~invitation[e].reminded,
         worker' = [worker EXCEPT ![w] = [worker[w] EXCEPT !.todo = @ \ {e},
                      !.claimed = @ \cup C, !.due = C]],
         UNCHANGED <<now, preference, invitation, sendJobs, session, mail, opened, sends, ended,
                     late, against, stranded, crashes>>
  PROVE  InvitationsInv'
<1> DEFINE r == [worker[w] EXCEPT !.todo = @ \ {e}, !.claimed = @ \cup C, !.due = C]
<1>1. worker[w] \in WorkerRow /\ Stage(worker[w]) /\ Held(worker[w], invitation)
  BY DEF InvitationsInv, JobsInv
<1>2. e \in Experts
  BY <1>1 DEF WorkerRow
<1>3. /\ r \in WorkerRow /\ r.at = worker[w].at /\ r.claimed = worker[w].claimed \cup C
      /\ r.out = worker[w].out /\ r.due = C /\ r.may = {}
  BY <1>1, <1>2 DEF WorkerRow, I!Written
<1>4. worker' = [worker EXCEPT ![w] = r]
  OBVIOUS
<1> HIDE DEF r
<1>5. Stage(r) /\ Held(r, invitation) /\ r.at # "send"
  BY <1>1, <1>3 DEF Stage, Held
<1>6. JobsInv(worker', invitation')
  <2>1. JobsInv(worker, invitation)
    BY DEF InvitationsInv
  <2>2. ASSUME NEW x \in Workers \ {w}, NEW y \in worker[x].claimed
        PROVE  y \notin r.claimed
    BY <1>3, <2>1, <2>2 DEF JobsInv, I!Unlocked
  <2>3. JobsInv([worker EXCEPT ![w] = r], invitation)
    BY <1>3, <1>5, <2>1, <2>2, JobsKept
  <2> QED
    BY <1>4, <2>3
<1>7. QueueInv'
  <2>1. /\ worker \in [Workers -> WorkerRow] /\ sendJobs \in [Experts -> Nat]
        /\ Queued(worker, sendJobs)
    BY DEF InvitationsInv, JobsInv, QueueInv
  <2>2. Queued([worker EXCEPT ![w] = r], sendJobs)
    BY <1>5, <2>1, QueuedKept
  <2> QED
    BY <1>4, <2>1, <2>2 DEF QueueInv
<1>8. DeskInv' /\ BooksInv' /\ GuestsInv'
  BY DEF InvitationsInv, DeskInv, BooksInv, GuestsInv
<1>9. ConsentInv'
  <2>1. Welcome([worker EXCEPT ![w] = r], preference, late)
    BY <1>3, WelcomeKept DEF InvitationsInv, ConsentInv, JobsInv
  <2> QED
    BY <1>4, <2>1 DEF InvitationsInv, ConsentInv
<1> QED
  BY <1>6, <1>7, <1>8, <1>9 DEF InvitationsInv

\* A job writes one message: what it is about moves on, and nothing else.
LEMMA WritingKept ==
  ASSUME InvitationsInv, NEW w \in Workers, NEW r \in WorkerRow,
         r.at = worker[w].at, r.todo = worker[w].todo, r.claimed = worker[w].claimed,
         Stage(worker[w]) => Stage(r), worker' = [worker EXCEPT ![w] = r],
         UNCHANGED <<now, preference, invitation, sendJobs, session, mail, opened, sends, ended,
                     stranded, crashes>>,
         ConsentInv'
  PROVE  InvitationsInv'
<1>1. worker \in [Workers -> WorkerRow] /\ JobsInv(worker, invitation)
  BY DEF InvitationsInv, JobsInv
<1>2. Stage(r) /\ Held(r, invitation)
  BY <1>1 DEF JobsInv, Held
<1>3. JobsInv([worker EXCEPT ![w] = r], invitation)
  <2>1. \A x \in Workers \ {w} : \A e \in worker[x].claimed : e \notin r.claimed
    BY <1>1 DEF JobsInv
  <2> QED
    BY <1>1, <1>2, <2>1, JobsKept
<1>4. Queued([worker EXCEPT ![w] = r], sendJobs)
  BY <1>1, SendingSame DEF InvitationsInv, QueueInv
<1> QED
  BY <1>3, <1>4 DEF InvitationsInv, DeskInv, BooksInv, GuestsInv, QueueInv

\* queueExpertMessage: the answer it reads is the one it goes by ...
LEMMA AskStep ==
  ASSUME InvitationsInv, NEW w \in Workers, I!AskPreference(w)
  PROVE  InvitationsInv'
<1>1. PICK e \in worker[w].due :
        I!Runs(w, [worker[w] EXCEPT !.due = {}, !.may = IF I!Permitted(w, e) THEN {e} ELSE {}])
  BY DEF I!AskPreference
<1> DEFINE m == IF I!Permitted(w, e) THEN {e} ELSE {}
           r == [worker[w] EXCEPT !.due = {}, !.may = m]
<1>2. worker[w] \in WorkerRow
  BY DEF InvitationsInv, JobsInv
<1>3. /\ r \in WorkerRow /\ r.at = worker[w].at /\ r.todo = worker[w].todo /\ r.claimed = worker[w].claimed
      /\ r.due = {} /\ r.may = m /\ r.out = worker[w].out /\ m \subseteq worker[w].due
  BY <1>2 DEF WorkerRow
<1>4. r.may \subseteq MayReach(preference, r)
  BY <1>2, <1>3 DEF WorkerRow, MayReach, I!Permitted, I!Reachable, I!Kind
<1>5. worker' = [worker EXCEPT ![w] = r]
  BY <1>1 DEF I!Runs
<1> HIDE DEF m, r
<1>6. UNCHANGED <<now, preference, invitation, sendJobs, session, mail, opened, sends, ended, late,
                  against, stranded, crashes>>
  BY DEF I!AskPreference, I!rows, I!history
<1>7. ConsentInv'
  <2>1. Welcome([worker EXCEPT ![w] = r], preference, late)
    BY <1>4, WelcomeKept DEF InvitationsInv, ConsentInv, JobsInv
  <2> QED
    BY <1>5, <1>6, <2>1 DEF InvitationsInv, ConsentInv
<1>8. Stage(worker[w]) => Stage(r)
  BY <1>3 DEF Stage
<1> QED
  BY <1>3, <1>5, <1>6, <1>7, <1>8, WritingKept

\* ... and when it writes, the answer is the same, or was given since.
LEMMA QueueMessageStep ==
  ASSUME InvitationsInv, NEW w \in Workers, I!QueueMessage(w)
  PROVE  InvitationsInv'
<1> DEFINE r == [worker[w] EXCEPT !.may = {}, !.out = @ \cup worker[w].may]
<1>1. worker[w] \in WorkerRow
  BY DEF InvitationsInv, JobsInv
<1>2. /\ r \in WorkerRow /\ r.at = worker[w].at /\ r.todo = worker[w].todo /\ r.claimed = worker[w].claimed
      /\ r.due = worker[w].due /\ r.may = {} /\ r.out = worker[w].out \cup worker[w].may
  BY <1>1 DEF WorkerRow
<1>3. worker' = [worker EXCEPT ![w] = r]
  BY DEF I!QueueMessage, I!Runs
<1> HIDE DEF r
<1>4. /\ UNCHANGED <<now, preference, invitation, sendJobs, session, mail, opened, sends, ended,
                     stranded, crashes>>
      /\ late' = late \ {w}
  BY DEF I!QueueMessage, I!rows
<1>5. against' = {}
  <2>1. w \notin late => worker[w].may \subseteq I!Reachable(I!Kind(w))
    BY DEF InvitationsInv, ConsentInv, Welcome, MayReach, I!Reachable, I!Kind
  <2> QED
    BY <2>1 DEF I!QueueMessage, InvitationsInv, ConsentInv
<1>6. ConsentInv'
  <2>1. Welcome([worker EXCEPT ![w] = r], preference, late \ {w})
    BY <1>2, WelcomeKept DEF InvitationsInv, ConsentInv, JobsInv
  <2> QED
    BY <1>3, <1>4, <1>5, <2>1 DEF InvitationsInv, ConsentInv
<1>7. Stage(worker[w]) => Stage(r)
  BY <1>2 DEF Stage
<1> QED
  BY <1>2, <1>3, <1>4, <1>6, <1>7, WritingKept

LEMMA RemindStep ==
  ASSUME InvitationsInv, NEW w \in Workers, I!RemindRead(w) \/ I!RemindOne(w) \/ I!RemindCommit(w)
  PROVE  InvitationsInv'
<1>1. worker[w] \in WorkerRow /\ Stage(worker[w]) /\ Held(worker[w], invitation)
  BY DEF InvitationsInv, JobsInv
<1>2. ASSUME I!RemindRead(w)
      PROVE  InvitationsInv'
  <2> DEFINE r == [I!IdleWorker EXCEPT !.at = "remind", !.todo = {e \in Experts : I!Chasable(e)},
                     !.allowed = I!Reachable("REMINDER")]
  <2>1. r \in WorkerRow /\ r.at = "remind" /\ r.claimed = {} /\ r.out = {} /\ r.due = {} /\ r.may = {}
    BY DEF I!IdleWorker, WorkerRow, I!Reachable
  <2>2. worker' = [worker EXCEPT ![w] = r]
    BY <1>2 DEF I!RemindRead, I!Runs
  <2> HIDE DEF r
  <2>3. /\ UNCHANGED <<now, preference, invitation, sendJobs, session, mail, opened, sends, ended, late,
                       against, stranded>>
        /\ crashes' \in 0 .. MaxCrashes
    BY <1>2 DEF I!RemindRead, I!rows, I!history, InvitationsInv, DeskInv
  <2>4. Stage(r) /\ r.at # "send"
    BY <2>1 DEF Stage
  <2> QED
    BY <2>1, <2>2, <2>3, <2>4, JobBegins
<1>3. ASSUME I!RemindOne(w)
      PROVE  InvitationsInv'
  <2>1. PICK e \in worker[w].todo :
          /\ I!Unlocked(e)
          /\ IF e \in worker[w].allowed /\ I!ClaimsReminder(e)
             THEN I!Runs(w, [worker[w] EXCEPT !.todo = @ \ {e}, !.claimed = @ \cup {e}, !.due = {e}])
             ELSE I!Runs(w, [worker[w] EXCEPT !.todo = @ \ {e}])
    BY <1>3 DEF I!RemindOne
  <2>2. /\ worker[w].at = "remind" /\ I!Written(w)
        /\ UNCHANGED <<now, preference, invitation, sendJobs, session, mail, opened, sends, ended,
                       late, against, stranded, crashes>>
    BY <1>3 DEF I!RemindOne, I!rows, I!history
  <2>4. CASE e \in worker[w].allowed /\ I!ClaimsReminder(e)
    <3> DEFINE one == {e}
    <3>1. one \in SUBSET {e} /\ worker' = [worker EXCEPT ![w] = [worker[w] EXCEPT !.todo = @ \ {e},
                                             !.claimed = @ \cup one, !.due = one]]
      BY <2>1, <2>4 DEF I!Runs
    <3> HIDE DEF one
    <3>3. invitation[e].status = "SENT" /\ ~invitation[e].reminded
      BY <2>4 DEF I!ClaimsReminder
    <3> QED
      BY <2>1, <2>2, <3>1, <3>3, JobClaims
  <2>5. CASE ~(e \in worker[w].allowed /\ I!ClaimsReminder(e))
    <3>1. [worker[w] EXCEPT !.todo = @ \ {e}] =
            [worker[w] EXCEPT !.todo = @ \ {e}, !.claimed = @ \cup {}, !.due = {}]
      BY <1>1, <2>2 DEF WorkerRow, I!Written
    <3>2. worker' = [worker EXCEPT ![w] = [worker[w] EXCEPT !.todo = @ \ {e},
                       !.claimed = @ \cup {}, !.due = {}]]
      BY <2>1, <2>5, <3>1 DEF I!Runs
    <3> DEFINE none == {}
    <3>3. none \in SUBSET {e} /\ none = {}
      OBVIOUS
    <3>4. worker' = [worker EXCEPT ![w] = [worker[w] EXCEPT !.todo = @ \ {e},
                       !.claimed = @ \cup none, !.due = none]]
      BY <3>2
    <3> HIDE DEF none
    <3> QED
      BY <2>1, <2>2, <3>3, <3>4, JobClaims
  <2> QED
    BY <2>4, <2>5
<1>4. ASSUME I!RemindCommit(w)
      PROVE  InvitationsInv'
  <2> DEFINE done == worker[w].claimed
  <2>1. /\ worker[w].at = "remind" /\ worker' = [worker EXCEPT ![w] = I!IdleWorker]
        /\ UNCHANGED <<now, preference, sendJobs, session, opened, sends, ended, late, against, stranded,
                       crashes>>
        /\ invitation' = [e \in Experts |-> IF e \in done
                            THEN [invitation[e] EXCEPT !.reminded = TRUE] ELSE invitation[e]]
        /\ mail' = [e \in Experts |-> IF e \in worker[w].out
                      THEN [mail[e] EXCEPT !["reminder"] = @ + 1] ELSE mail[e]]
    BY <1>4 DEF I!RemindCommit, I!Runs, I!Posts
  <2>2. worker[w].out \subseteq done
    BY <1>1, <2>1 DEF Stage
  <2>3. \A e \in done : invitation[e].status = "SENT" /\ ~invitation[e].reminded
    BY <1>1, <2>1 DEF Held
  <2> HIDE DEF done
  <2>4. ASSUME NEW e \in Experts
        PROVE  /\ invitation'[e] \in InvitationRow /\ mail'[e] \in MailRow
               /\ Books(invitation'[e], mail'[e], opened[e], sends[e], ended[e])
    <3>1. /\ invitation[e] \in InvitationRow /\ mail[e] \in MailRow /\ sends[e] \in Nat
          /\ Books(invitation[e], mail[e], opened[e], sends[e], ended[e])
          /\ mail[e]["reminder"] \in Nat
      BY DEF InvitationsInv, BooksInv, MailRow, I!Template
    <3>2. /\ mail'[e] \in MailRow /\ mail'[e]["expired"] = mail[e]["expired"]
          /\ mail'[e]["reminder"] = IF e \in worker[w].out THEN mail[e]["reminder"] + 1
                                                           ELSE mail[e]["reminder"]
      BY <2>1, <3>1 DEF MailRow, I!Template
    <3>3. CASE e \in done
      <4>1. /\ invitation'[e] \in InvitationRow /\ invitation'[e].status = "SENT"
            /\ invitation'[e].reminded = TRUE
        BY <2>1, <2>3, <3>1, <3>3 DEF InvitationRow
      <4>2. mail[e]["reminder"] < sends[e]
        BY <2>3, <3>1, <3>3 DEF Books
      <4> QED
        BY <2>3, <3>1, <3>2, <3>3, <4>1, <4>2 DEF Books
    <3>4. CASE e \notin done
      <4>1. invitation'[e] = invitation[e] /\ mail'[e] = mail[e]
        BY <2>1, <2>2, <3>4
      <4> QED
        BY <3>1, <4>1
    <3> QED
      BY <3>3, <3>4
  <2>5. invitation' \in [Experts -> InvitationRow] /\ mail' \in [Experts -> MailRow]
    BY <2>1, <2>4
  <2>6. BooksInv'
    BY <2>1, <2>4, <2>5 DEF InvitationsInv, BooksInv
  <2>7. \A e \in Experts \ worker[w].claimed : invitation'[e] = invitation[e]
    BY <2>1 DEF done
  <2> QED
    BY <2>1, <2>5, <2>6, <2>7, JobCommits
<1> QED
  BY <1>2, <1>3, <1>4

LEMMA ExpireStep ==
  ASSUME InvitationsInv, NEW w \in Workers, I!ExpireRead(w) \/ I!ExpireOne(w) \/ I!ExpireCommit(w)
  PROVE  InvitationsInv'
<1>1. worker[w] \in WorkerRow /\ Stage(worker[w]) /\ Held(worker[w], invitation)
  BY DEF InvitationsInv, JobsInv
<1>2. ASSUME I!ExpireRead(w)
      PROVE  InvitationsInv'
  <2> DEFINE r == [I!IdleWorker EXCEPT !.at = "expire", !.todo = {e \in Experts : I!Overdue(e)}]
  <2>1. r \in WorkerRow /\ r.at = "expire" /\ r.claimed = {} /\ r.out = {} /\ r.due = {} /\ r.may = {}
    BY DEF I!IdleWorker, WorkerRow
  <2>2. worker' = [worker EXCEPT ![w] = r]
    BY <1>2 DEF I!ExpireRead, I!Runs
  <2> HIDE DEF r
  <2>3. /\ UNCHANGED <<now, preference, invitation, sendJobs, session, mail, opened, sends, ended, late,
                       against, stranded>>
        /\ crashes' \in 0 .. MaxCrashes
    BY <1>2 DEF I!ExpireRead, I!rows, I!history, InvitationsInv, DeskInv
  <2>4. Stage(r) /\ r.at # "send"
    BY <2>1 DEF Stage
  <2> QED
    BY <2>1, <2>2, <2>3, <2>4, JobBegins
<1>3. ASSUME I!ExpireOne(w)
      PROVE  InvitationsInv'
  <2>1. PICK e \in worker[w].todo :
          /\ I!Unlocked(e)
          /\ IF I!ClaimsExpiry(e)
             THEN I!Runs(w, [worker[w] EXCEPT !.todo = @ \ {e}, !.claimed = @ \cup {e}, !.due = {e}])
             ELSE I!Runs(w, [worker[w] EXCEPT !.todo = @ \ {e}])
    BY <1>3 DEF I!ExpireOne
  <2>2. /\ worker[w].at = "expire" /\ I!Written(w)
        /\ UNCHANGED <<now, preference, invitation, sendJobs, session, mail, opened, sends, ended,
                       late, against, stranded, crashes>>
    BY <1>3 DEF I!ExpireOne, I!rows, I!history
  <2>3. CASE I!ClaimsExpiry(e)
    <3> DEFINE one == {e}
    <3>1. one \in SUBSET {e} /\ worker' = [worker EXCEPT ![w] = [worker[w] EXCEPT !.todo = @ \ {e},
                                             !.claimed = @ \cup one, !.due = one]]
      BY <2>1, <2>3 DEF I!Runs
    <3> HIDE DEF one
    <3>3. invitation[e].status = "SENT"
      BY <2>3 DEF I!ClaimsExpiry
    <3> QED
      BY <2>1, <2>2, <3>1, <3>3, JobClaims
  <2>4. CASE ~I!ClaimsExpiry(e)
    <3>1. [worker[w] EXCEPT !.todo = @ \ {e}] =
            [worker[w] EXCEPT !.todo = @ \ {e}, !.claimed = @ \cup {}, !.due = {}]
      BY <1>1, <2>2 DEF WorkerRow, I!Written
    <3>2. worker' = [worker EXCEPT ![w] = [worker[w] EXCEPT !.todo = @ \ {e},
                       !.claimed = @ \cup {}, !.due = {}]]
      BY <2>1, <2>4, <3>1 DEF I!Runs
    <3> DEFINE none == {}
    <3>3. none \in SUBSET {e} /\ none = {}
      OBVIOUS
    <3>4. worker' = [worker EXCEPT ![w] = [worker[w] EXCEPT !.todo = @ \ {e},
                       !.claimed = @ \cup none, !.due = none]]
      BY <3>2
    <3> HIDE DEF none
    <3> QED
      BY <2>1, <2>2, <3>3, <3>4, JobClaims
  <2> QED
    BY <2>3, <2>4
<1>4. ASSUME I!ExpireCommit(w)
      PROVE  InvitationsInv'
  <2> DEFINE done == worker[w].claimed
  <2>1. /\ worker[w].at = "expire" /\ worker' = [worker EXCEPT ![w] = I!IdleWorker]
        /\ UNCHANGED <<now, preference, sendJobs, session, opened, sends, late, against, stranded, crashes>>
        /\ invitation' = [e \in Experts |-> IF e \in done
                            THEN [invitation[e] EXCEPT !.status = "EXPIRED"] ELSE invitation[e]]
        /\ ended' = [e \in Experts |-> IF e \in done THEN ended[e] + 1 ELSE ended[e]]
        /\ mail' = [e \in Experts |-> IF e \in worker[w].out
                      THEN [mail[e] EXCEPT !["expired"] = @ + 1] ELSE mail[e]]
    BY <1>4 DEF I!ExpireCommit, I!Runs, I!Posts
  <2>2. worker[w].out \subseteq done
    BY <1>1, <2>1 DEF Stage
  <2>3. \A e \in done : invitation[e].status = "SENT"
    BY <1>1, <2>1 DEF Held
  <2> HIDE DEF done
  <2>4. ASSUME NEW e \in Experts
        PROVE  /\ invitation'[e] \in InvitationRow /\ mail'[e] \in MailRow /\ ended'[e] \in Nat
               /\ Books(invitation'[e], mail'[e], opened[e], sends[e], ended'[e])
    <3>1. /\ invitation[e] \in InvitationRow /\ mail[e] \in MailRow /\ ended[e] \in Nat
          /\ Books(invitation[e], mail[e], opened[e], sends[e], ended[e]) /\ opened[e] \in Nat
          /\ mail[e]["expired"] \in Nat
      BY DEF InvitationsInv, BooksInv, MailRow, I!Template
    <3>2. /\ mail'[e] \in MailRow /\ mail'[e]["reminder"] = mail[e]["reminder"]
          /\ mail'[e]["expired"] = IF e \in worker[w].out THEN mail[e]["expired"] + 1
                                                          ELSE mail[e]["expired"]
      BY <2>1, <3>1 DEF MailRow, I!Template
    <3>3. CASE e \in done
      <4>1. /\ invitation'[e] \in InvitationRow /\ invitation'[e].status = "EXPIRED"
            /\ ended'[e] = ended[e] + 1
        BY <2>1, <3>1, <3>3 DEF InvitationRow, I!InvitationStatus
      <4>2. ended[e] < opened[e]
        BY <2>3, <3>1, <3>3 DEF Books
      <4> QED
        BY <2>3, <3>1, <3>2, <3>3, <4>1, <4>2 DEF Books
    <3>4. CASE e \notin done
      <4>1. invitation'[e] = invitation[e] /\ mail'[e] = mail[e] /\ ended'[e] = ended[e]
        BY <2>1, <2>2, <3>4
      <4> QED
        BY <3>1, <4>1
    <3> QED
      BY <3>3, <3>4
  <2>5. /\ invitation' \in [Experts -> InvitationRow] /\ mail' \in [Experts -> MailRow]
        /\ ended' \in [Experts -> Nat]
    BY <2>1, <2>4
  <2>6. BooksInv'
    BY <2>1, <2>4, <2>5 DEF InvitationsInv, BooksInv
  <2>7. \A e \in Experts \ worker[w].claimed : invitation'[e] = invitation[e]
    BY <2>1 DEF done
  <2> QED
    BY <2>1, <2>5, <2>6, <2>7, JobCommits
<1> QED
  BY <1>2, <1>3, <1>4

LEMMA InvitationsStep == ASSUME InvitationsInv, [I!Next]_(I!vars) PROVE InvitationsInv'
<1>1. CASE UNCHANGED I!vars
  BY <1>1 DEF I!vars, I!rows, I!history, InvitationsInv, DeskInv, BooksInv, GuestsInv, QueueInv, ConsentInv
<1>2. ASSUME NEW w \in Workers, I!Job(w)
      PROVE  InvitationsInv'
  BY <1>2, SendReadStep, AskStep, QueueMessageStep, SendCommitStep, RemindStep, ExpireStep DEF I!Job
<1>3. ASSUME NEW w \in Workers, I!Crash(w)
      PROVE  InvitationsInv'
  <2>1. /\ worker' = [worker EXCEPT ![w] = I!IdleWorker] /\ crashes' = crashes + 1 /\ crashes < MaxCrashes
        /\ UNCHANGED <<now, preference, invitation, sendJobs, session, mail, opened, sends, ended, against,
                       stranded>>
        /\ late' = late \ {w}
    BY <1>3 DEF I!Crash, I!Runs, I!rows
  <2>2. crashes' \in 0 .. MaxCrashes
    BY <2>1, Bounds DEF InvitationsInv, DeskInv
  <2>3. I!IdleWorker.at # "send"
    BY IdleRows
  <2> QED
    BY <2>1, <2>2, <2>3, IdleRows, JobBegins
<1>4. ASSUME NEW e \in Experts, I!WithdrawInvitation(e)
      PROVE  InvitationsInv'
  <2>1. GuestsInv'
    BY <1>4 DEF I!WithdrawInvitation, InvitationsInv, GuestsInv
  <2> QED
    BY <1>4, <2>1, EndKept DEF I!WithdrawInvitation
<1>5. ASSUME NEW e \in Experts, NEW p \in I!ContactPreference, I!SetContactPreference(e, p)
      PROVE  InvitationsInv'
  <2>1. /\ preference' = [preference EXCEPT ![e] = p]
        /\ late' = late \cup {w \in Workers : e \in worker[w].may}
        /\ UNCHANGED <<now, invitation, sendJobs, worker, session, mail, opened, sends, ended, against,
                       stranded, crashes>>
    BY <1>5 DEF I!SetContactPreference
  <2>2. DeskInv'
    BY <2>1 DEF InvitationsInv, DeskInv
  <2>3. ConsentInv'
    <3>1. ASSUME NEW w \in Workers \ late'
          PROVE  worker[w].may \subseteq MayReach(preference', worker[w])
      <4>1. w \notin late /\ e \notin worker[w].may
        BY <2>1, <3>1
      <4>2. \A x \in Experts \ {e} : preference'[x] = preference[x]
        BY <2>1 DEF InvitationsInv, DeskInv
      <4> QED
        BY <4>1, <4>2 DEF InvitationsInv, ConsentInv, Welcome, MayReach
    <3> QED
      BY <2>1, <3>1 DEF InvitationsInv, ConsentInv, Welcome
  <2> QED
    BY <2>1, <2>2, <2>3 DEF InvitationsInv, BooksInv, GuestsInv, QueueInv
<1>6. ASSUME I!Tick
      PROVE  InvitationsInv'
  <2>1. now' \in 0 .. MaxTime
    BY <1>6, Bounds DEF I!Tick, InvitationsInv, DeskInv
  <2> QED
    BY <1>6, <2>1 DEF I!Tick, I!rows, I!history, InvitationsInv, DeskInv, BooksInv, GuestsInv, QueueInv,
       ConsentInv
<1> QED
  BY <1>1, <1>2, <1>3, <1>4, <1>5, <1>6, RequestStep, CreateDiesStep DEF I!Next

LEMMA InvitationsGood ==
  ASSUME InvitationsInv
  PROVE  I!TypeOK /\ I!OnceEach /\ I!PreferenceHonoured
<1>1. I!OnceEach
  BY DEF InvitationsInv, BooksInv, Books, I!OnceEach, I!EndsOnce, I!RemindedOnce, I!ExpiryTold
<1>2. I!PreferenceHonoured
  BY DEF InvitationsInv, ConsentInv, I!PreferenceHonoured
<1>3. I!TypeOK
  BY DEF InvitationsInv, DeskInv, BooksInv, Books, GuestsInv, JobsInv, QueueInv, ConsentInv,
     InvitationRow, MailRow, WorkerRow, GuestRow, I!TypeOK
<1> QED
  BY <1>1, <1>2, <1>3

\* What may become of an invitation in one step.
Moves ==
  \A e \in Experts :
    \/ invitation'[e].status = invitation[e].status
    \/ invitation'[e].status \in I!INVITATION_TRANSITIONS[invitation[e].status]
    \/ opened'[e] > opened[e]

LEMMA InvitationsMove == ASSUME InvitationsInv, [I!Next]_(I!vars) PROVE Moves
<1>1. ASSUME NEW e \in Experts
      PROVE  invitation[e] \in InvitationRow /\ opened[e] \in Nat
  BY DEF InvitationsInv, BooksInv
<1>2. CASE invitation' = invitation
  BY <1>2 DEF Moves
<1>3. ASSUME NEW e \in Experts, NEW to, invitation[e].status = "SENT" \/ to = "WITHDRAWN",
             invitation[e].status \in {"DRAFT", "SENT"},
             to \in {"ACCEPTED", "DECLINED", "WITHDRAWN"}, I!Ends(e, to)
      PROVE  Moves
  <2>1. /\ invitation'[e].status = to
        /\ \A x \in Experts \ {e} : invitation'[x] = invitation[x]
    BY <1>1, <1>3 DEF I!Ends, InvitationsInv, BooksInv, InvitationRow
  <2>2. to \in I!INVITATION_TRANSITIONS[invitation[e].status]
    BY <1>3 DEF I!INVITATION_TRANSITIONS
  <2> QED
    BY <2>1, <2>2 DEF Moves
<1>4. ASSUME NEW w \in Workers, I!Job(w)
      PROVE  Moves
  <2>1. CASE \E e \in Experts : I!SendRead(w, e)
    BY <1>2, <2>1 DEF I!SendRead
  <2>2. CASE \/ I!AskPreference(w) \/ I!QueueMessage(w)
             \/ I!RemindRead(w) \/ I!RemindOne(w) \/ I!ExpireRead(w) \/ I!ExpireOne(w)
    BY <1>2, <2>2 DEF I!AskPreference, I!QueueMessage, I!RemindRead, I!RemindOne, I!ExpireRead,
       I!ExpireOne, I!rows
  <2>3. CASE I!SendCommit(w)
    <3>1. PICK e \in worker[w].todo :
            IF invitation[e].status = "DRAFT"
            THEN invitation' = [invitation EXCEPT ![e].status = "SENT", ![e].sentAt = now]
            ELSE UNCHANGED invitation
      BY <2>3 DEF I!SendCommit
    <3>2. e \in Experts
      BY DEF InvitationsInv, JobsInv, WorkerRow
    <3>3. CASE invitation[e].status = "DRAFT"
      <4>1. /\ invitation'[e].status = "SENT"
            /\ \A x \in Experts \ {e} : invitation'[x] = invitation[x]
        BY <1>1, <3>1, <3>2, <3>3 DEF InvitationsInv, BooksInv, InvitationRow
      <4> QED
        BY <3>3, <4>1 DEF Moves, I!INVITATION_TRANSITIONS
    <3> QED
      BY <1>2, <3>1, <3>3
  <2>4. CASE I!RemindCommit(w)
    <3>1. \A e \in Experts : invitation'[e].status = invitation[e].status
      BY <1>1, <2>4 DEF I!RemindCommit, InvitationRow
    <3> QED
      BY <3>1 DEF Moves
  <2>5. CASE I!ExpireCommit(w)
    <3>1. \A e \in worker[w].claimed : invitation[e].status = "SENT"
      BY DEF InvitationsInv, JobsInv, Held
    <3>2. ASSUME NEW e \in Experts
          PROVE  \/ invitation'[e] = invitation[e]
                 \/ invitation[e].status = "SENT" /\ invitation'[e].status = "EXPIRED"
      BY <1>1, <2>5, <3>1 DEF I!ExpireCommit, InvitationRow
    <3> QED
      BY <3>2 DEF Moves, I!INVITATION_TRANSITIONS
  <2> QED
    BY <1>4, <2>1, <2>2, <2>3, <2>4, <2>5 DEF I!Job
<1>5. ASSUME NEW s \in Guests, I!CreateWrite(s)
      PROVE  Moves
  <2> DEFINE e == session[s].e
  <2>1. e \in Experts
    BY <1>5 DEF I!CreateWrite, InvitationsInv, GuestsInv
  <2>2. \/ invitation' = invitation
        \/ /\ invitation' = [invitation EXCEPT ![e] = I!Reopened(@)]
           /\ opened' = [opened EXCEPT ![e] = @ + 1]
    BY <1>5 DEF I!CreateWrite
  <2> HIDE DEF e
  <2>3. CASE /\ invitation' = [invitation EXCEPT ![e] = I!Reopened(@)]
             /\ opened' = [opened EXCEPT ![e] = @ + 1]
    <3>1. opened'[e] > opened[e] /\ \A x \in Experts \ {e} : invitation'[x] = invitation[x]
      BY <1>1, <2>1, <2>3 DEF InvitationsInv, BooksInv
    <3> QED
      BY <3>1 DEF Moves
  <2> QED
    BY <1>2, <2>2, <2>3
<1>6. ASSUME NEW s \in Guests, I!AnswerWrite(s)
      PROVE  Moves
  <2>1. session[s].e \in Experts /\ session[s].seen \in {"ACCEPTED", "DECLINED"}
    BY <1>6 DEF I!AnswerWrite, InvitationsInv, GuestsInv
  <2>2. \/ invitation' = invitation
        \/ invitation[session[s].e].status = "SENT" /\ I!Ends(session[s].e, session[s].seen)
    BY <1>6 DEF I!AnswerWrite
  <2> QED
    BY <1>2, <1>3, <2>1, <2>2
<1>7. ASSUME NEW e \in Experts, I!WithdrawInvitation(e)
      PROVE  Moves
  BY <1>3, <1>7 DEF I!WithdrawInvitation
<1>8. CASE \/ \E s \in Guests : \E e \in Experts : I!CreateRead(s, e) \/ I!AnswerRead(s, e)
           \/ \E s \in Guests : I!ScheduleSend(s) \/ I!CreateDies(s)
           \/ \E e \in Experts : \E p \in I!ContactPreference : I!SetContactPreference(e, p)
           \/ \E w \in Workers : I!Crash(w)
           \/ I!Tick
           \/ UNCHANGED I!vars
  BY <1>2, <1>8 DEF I!CreateRead, I!AnswerRead, I!ScheduleSend, I!CreateDies, I!SetContactPreference,
     I!Crash, I!Tick, I!vars, I!rows
<1> QED
  BY <1>4, <1>5, <1>6, <1>7, <1>8 DEF I!Next, I!Request

-----------------------------------------------------------------------------
(***************************************************************************)
(* All of them together: whichever component moves, it keeps its own       *)
(* invariant, and the state of the others stays as it is.                  *)
(***************************************************************************)
AllInv == SupportInv /\ OffboardingInv /\ LinksInv /\ SignInInv /\ InvitationsInv

LEMMA AllInit == Init => AllInv
BY SupportInit, OffboardingInit, LinksInit, SignInInit, InvitationsInit DEF Init, AllInv

\* A step of the whole is a step of each component, or leaves it alone.
LEMMA Split ==
  ASSUME [Next]_vars
  PROVE  /\ [I!Next]_(I!vars) /\ [S!Next]_(S!vars) /\ [F!Next]_(F!vars)
         /\ [G!SignInNext]_(G!loginVars) /\ [G!PortalNext]_(G!portalVars)
<1> USE DEF I!vars, I!rows, I!history, S!vars, F!vars, G!loginVars, G!portalVars
<1>1. CASE UNCHANGED vars
  BY <1>1 DEF vars, invitationVars, dailyVars, attentionVars, supportVars, offboardingVars, accessVars
<1>2. CASE InvitationsNext
  BY <1>2 DEF InvitationsNext, dailyVars, supportVars, offboardingVars, accessVars
<1>3. CASE AttentionNext
  BY <1>3 DEF AttentionNext, invitationVars, supportVars, offboardingVars, accessVars
<1>4. CASE SupportNext
  BY <1>4 DEF SupportNext, invitationVars, offboardingVars, accessVars
<1>5. CASE OffboardingNext
  BY <1>5 DEF OffboardingNext, invitationVars, supportVars, accessVars
<1>6. CASE SignInNext
  <2>1. UNCHANGED G!portalVars
    BY <1>6 DEF SignInNext, G!SignInNext, G!LoginCheck, G!LoginCompare, G!LoginRecord, G!LoginSession,
       G!RotateOperatorPassword, G!DeactivateOperator, G!RevokeSessionsFor, G!Logout, G!SessionExpires,
       G!WindowPasses, G!PurgeExpiredSessions
  <2> QED
    BY <1>6, <2>1 DEF SignInNext, invitationVars, supportVars, offboardingVars
<1>7. CASE PortalNext
  <2>1. UNCHANGED G!loginVars
    BY <1>7 DEF PortalNext, G!PortalNext, G!RedeemClaim, G!RedeemSession, G!RedeemDies, G!RedeemRead,
       G!LinkExpires, G!RevokePortalTokens, G!OwnerLeaves, G!PurgeTokens
  <2> QED
    BY <1>7, <2>1 DEF PortalNext, invitationVars, supportVars, offboardingVars
<1> QED
  BY <1>1, <1>2, <1>3, <1>4, <1>5, <1>6, <1>7 DEF Next

LEMMA AllStep == AllInv /\ [Next]_vars => AllInv'
BY Split, SupportStep, OffboardingStep, PortalStep, SignInStep, InvitationsStep DEF AllInv

\* The invariant of all of them holds in every reachable state.
THEOREM AllHolds == Spec => []AllInv
BY AllInit, AllStep, PTL DEF Spec

\* replyToSupport, resolveSupport: a request that reads as resolved has its
\* resolution, one whose clock was stopped has an answer to the client, one that
\* waits on the expert has asked him; whatever requests read it before.
THEOREM AnsweredHolds == Spec => []Answered
<1>1. AllInv => Answered
  BY SupportAnswered DEF AllInv
<1> QED
  BY <1>1, AllHolds, PTL

\* login: however many requests race between the check and the record, the
\* passwords of one address compared in vain stay within the limit and the
\* requests under way; redeemPortalToken, revokePortalTokens: a link opens one
\* session, and none once it is revoked.
THEOREM AccessHeld == Spec => []AccessHolds
<1>1. AllInv => AccessHolds
  BY Throttles, LinksHeld DEF AllInv, AccessHolds
<1> QED
  BY <1>1, AllHolds, PTL

\* remindPendingInvitations, expireOverdueInvitations, respondToInvitation,
\* queueExpertMessage: one end for each opening, one reminder for each sending,
\* one notice for each expiry, and no message to an expert who had refused it
\* before its turn came, for any number of workers and requests.
THEOREM InvitationsHeld == Spec => []InvitationsHold
<1>1. AllInv => InvitationsHold
  BY InvitationsGood DEF AllInv, InvitationsHold
<1> QED
  BY <1>1, AllHolds, PTL

\* INVITATION_TRANSITIONS and confirmTask, assignOffboardingTask: every step
\* moves an invitation along the table or opens it, and takes back no decision.
THEOREM DecisionsHeld == Spec => DecisionsStand
<1>1. AllInv /\ [Next]_vars =>
        [\A e \in Experts :
           \/ invitation'[e].status = invitation[e].status
           \/ invitation'[e].status \in I!INVITATION_TRANSITIONS[invitation[e].status]
           \/ opened'[e] > opened[e]]_(I!vars)
  BY Split, InvitationsMove DEF AllInv, Moves
<1>2. AllInv /\ [Next]_vars =>
        [\A t \in F!Tasks :
           decisions'[t] = IF task'[t].status \in {"CONFIRMED", "NOT_APPLICABLE"} THEN 1 ELSE 0]_(F!vars)
  BY Split, OffboardingStep DEF AllInv, OffboardingInv, CountsAgree, Outcomes
<1>3. AllInv /\ [Next]_vars =>
        [\A t \in F!Tasks : task[t].by # Unowned =>
           task'[t].by = task[t].by /\ task'[t].status = task[t].status]_(F!vars)
  BY Split, OffboardingStep DEF AllInv, Stands
<1> QED
  BY <1>1, <1>2, <1>3, AllInit, AllStep, PTL
     DEF Spec, DecisionsStand, I!TransitionsKept, F!DecisionsStand, F!DecidedOnce, F!StatementKept
=============================================================================
