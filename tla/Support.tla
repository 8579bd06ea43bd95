------------------------------ MODULE Support ------------------------------
(***************************************************************************)
(* One support request of an expert (support.ts): replies, public or       *)
(* internal, the response clock, the blocks and the resolution, by         *)
(* requests that commit statement by statement and may die in between.     *)
(* What a request writes to the row is computed from what it read first.   *)
(***************************************************************************)
EXTENDS Integers

CONSTANTS
  Sessions,    \* requests served at the same time
  MaxReplies   \* bound: replies of one kind

\* What the constants must be; the runs assume it.
SupportAssumption == MaxReplies \in Nat

SupportStatus == {"NONE", "OPEN", "WAITING_ON_EXPERT", "WAITING_ON_OPS", "RESOLVED", "CLOSED"}
Author == {"OPERATOR", "EXPERT"}

VARIABLES
  involved,   \* the expert has an assignment or an invitation on the project
  ticket,     \* the SupportRequest row
  replies,    \* SupportReply rows, by kind
  serving     \* the request each session is serving

vars == <<involved, ticket, replies, serving>>

NoTicket == [status |-> "NONE", responded |-> FALSE, late |-> FALSE,
             blocksReadiness |-> FALSE, blocksDelivery |-> FALSE, owned |-> FALSE]
NoReplies == [public |-> 0, internal |-> 0, expert |-> 0, resolution |-> 0]
Free == [at |-> "idle", does |-> "none", kind |-> "public", read |-> NoTicket]

TypeOK ==
  /\ involved \in BOOLEAN
  /\ ticket \in [status : SupportStatus, responded : BOOLEAN, late : BOOLEAN,
                 blocksReadiness : BOOLEAN, blocksDelivery : BOOLEAN, owned : BOOLEAN]
  /\ replies \in [DOMAIN NoReplies -> 0 .. MaxReplies]
  /\ \A s \in Sessions : /\ serving[s].at \in {"idle", "row", "update"}
                         /\ serving[s].does \in {"none", "reply", "resolve", "close", "block"}
                         /\ serving[s].kind \in DOMAIN NoReplies

Init ==
  /\ involved \in BOOLEAN
  /\ ticket = NoTicket
  /\ replies = NoReplies
  /\ serving = [s \in Sessions |-> Free]

-----------------------------------------------------------------------------
Goes(s, r) == serving' = [serving EXCEPT ![s] = r]

\* Statuses in which a request still counts as blocking or waiting.
Waiting == {"OPEN", "WAITING_ON_EXPERT", "WAITING_ON_OPS"}

\* raiseSupportRequest: only about a project the expert is involved in.
RaiseSupportRequest ==
  /\ ticket.status = "NONE" /\ involved
  /\ ticket' = [NoTicket EXCEPT !.status = "OPEN"]
  /\ UNCHANGED <<involved, replies, serving>>

\* The response target passes.
TargetPasses ==
  /\ ticket.status # "NONE" /\ ~ticket.late
  /\ ticket' = [ticket EXCEPT !.late = TRUE]
  /\ UNCHANGED <<involved, replies, serving>>

\* What the update after a reply keeps of the read.
ReadForReply == [NoTicket EXCEPT !.status = ticket.status, !.responded = ticket.responded]

\* replyToSupport: anybody, unless the request is closed; an internal note is
\* an operator's.
ReplyRead(s, kind) ==
  /\ serving[s].at = "idle"
  /\ ticket.status \notin {"NONE", "CLOSED"} /\ replies[kind] < MaxReplies
  /\ Goes(s, [at |-> "row", does |-> "reply", kind |-> kind, read |-> ReadForReply])
  /\ UNCHANGED <<involved, ticket, replies>>

\* resolveSupport: a resolution is written to the expert, too.
ResolveRead(s, close) ==
  /\ serving[s].at = "idle"
  /\ ticket.status \notin {"NONE", "CLOSED"} /\ replies.resolution < MaxReplies
  /\ Goes(s, [at |-> "row", does |-> IF close THEN "close" ELSE "resolve",
              kind |-> "resolution", read |-> NoTicket])
  /\ UNCHANGED <<involved, ticket, replies>>

\* Mutant of WriteReply: the row of the request is written first.
WriteReplyLater(s) ==
  /\ serving[s].at = "row"
  /\ Goes(s, [serving[s] EXCEPT !.at = "update"])
  /\ UNCHANGED <<involved, ticket, replies>>

\* The reply's row is a statement of its own.
WriteReply(s) ==
  /\ serving[s].at = "row" /\ replies[serving[s].kind] < MaxReplies
  /\ replies' = [replies EXCEPT ![serving[s].kind] = @ + 1]
  /\ Goes(s, [serving[s] EXCEPT !.at = "update"])
  /\ UNCHANGED <<involved, ticket>>

\* Mutant of StopsClock: a note among operators counts as an answer.
StopsClockAny(kind) == kind \in {"public", "internal"}

\* A public answer of an operator is what stops the response clock.
StopsClock(kind) == kind = "public"

\* The status a reply leaves behind.
StatusAfter(kind, read) ==
  CASE kind = "internal" -> read.status
    [] kind = "public" -> "WAITING_ON_EXPERT"
    [] OTHER -> "WAITING_ON_OPS"

\* The update that follows a reply: clock and status from what was read.
AfterReply(r) ==
  [ticket EXCEPT !.responded = r.read.responded \/ StopsClock(r.kind),
                 !.status = StatusAfter(r.kind, r.read)]

\* The update that follows a resolution; the blocks are lifted.
AfterResolution(r) ==
  [ticket EXCEPT !.status = IF r.does = "close" THEN "CLOSED" ELSE "RESOLVED",
                 !.responded = TRUE, !.blocksReadiness = FALSE, !.blocksDelivery = FALSE]

UpdateTicket(s) ==
  /\ serving[s].at = "update" /\ serving[s].does # "block"
  /\ ticket' = IF serving[s].does = "reply" THEN AfterReply(serving[s])
               ELSE AfterResolution(serving[s])
  /\ Goes(s, Free)
  /\ UNCHANGED <<involved, replies>>

\* setBlocking: each flag is given, or kept as it was read, whatever the status.
BlockRead(s) ==
  /\ serving[s].at = "idle" /\ ticket.status # "NONE"
  /\ Goes(s, [Free EXCEPT !.at = "update", !.does = "block"])
  /\ UNCHANGED <<involved, ticket, replies>>

BlockWrite(s) ==
  /\ serving[s].at = "update" /\ serving[s].does = "block"
  /\ \E readiness, delivery \in BOOLEAN :
       ticket' = [ticket EXCEPT !.blocksReadiness = readiness, !.blocksDelivery = delivery]
  /\ Goes(s, Free)
  /\ UNCHANGED <<involved, replies>>

\* assignSupport.
AssignSupport(owned) ==
  /\ ticket.status # "NONE" /\ ticket.owned # owned
  /\ ticket' = [ticket EXCEPT !.owned = owned]
  /\ UNCHANGED <<involved, replies, serving>>

\* A request dies between two statements.
Dies(s) ==
  /\ serving[s].at # "idle"
  /\ Goes(s, Free)
  /\ UNCHANGED <<involved, ticket, replies>>

Next ==
  \/ RaiseSupportRequest \/ TargetPasses
  \/ \E s \in Sessions :
       \/ \E kind \in {"public", "internal", "expert"} : ReplyRead(s, kind)
       \/ \E close \in BOOLEAN : ResolveRead(s, close)
       \/ WriteReply(s) \/ UpdateTicket(s)
       \/ BlockRead(s) \/ BlockWrite(s) \/ Dies(s)
  \/ \E owned \in BOOLEAN : AssignSupport(owned)

Spec == Init /\ [][Next]_vars

-----------------------------------------------------------------------------
(***************************************************************************)
(* What others read from a request.                                        *)
(***************************************************************************)

\* listSupportForExpert: the replies an expert is shown.
ShownToExpert == replies.public + replies.expert + replies.resolution

\* support.check_response_sla: nobody has answered in time.
Breached == ticket.status \in {"OPEN", "WAITING_ON_OPS"} /\ ~ticket.responded /\ ticket.late

\* readinessBlocker and supportCounts: the request stands in somebody's way.
BlocksReadiness == ticket.status \in Waiting /\ ticket.blocksReadiness
Blocking == ticket.status \in Waiting /\ (ticket.blocksReadiness \/ ticket.blocksDelivery)

-----------------------------------------------------------------------------
(***************************************************************************)
(* What must hold.                                                         *)
(***************************************************************************)

\* A request that reads resolved or closed tells the expert why, whatever died
\* in between (resolveSupport writes the reply before the status).
ResolvedIsAnswered == ticket.status \in {"RESOLVED", "CLOSED"} => replies.resolution > 0

\* The response clock is stopped only by something the expert can read; a note
\* among operators never hides a late answer (replyToSupport's stopsClock).
ClockStoppedByAnswer == ticket.responded => replies.public + replies.resolution > 0

\* A request that waits for the expert has asked something.
AskedBeforeWaiting == ticket.status = "WAITING_ON_EXPERT" => replies.public > 0

\* What the columns of a request claim, a reply bears out.
Answered == ResolvedIsAnswered /\ ClockStoppedByAnswer /\ AskedBeforeWaiting

\* replyToSupport "this request is closed": it stays so.
ClosedStays == [][ticket.status = "CLOSED" => ticket'.status = "CLOSED"]_vars

\* "A public operator reply is what stops the response clock": it does.
AnswerStopsClock ==
  (\A s \in Sessions : serving[s].at = "idle") => (replies.public > 0 => ticket.responded)
=============================================================================
