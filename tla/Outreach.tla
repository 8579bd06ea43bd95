------------------------------ MODULE Outreach ------------------------------
(***************************************************************************)
(* One outreach batch (outreach.ts): a list of people is drafted, put up   *)
(* for approval, decided by an operator and dispatched, one transaction    *)
(* per recipient, by any number of overlapping requests.                   *)
(*                                                                         *)
(* A request takes its recipients from the rows it read when it started.   *)
(* Each recipient's transaction claims the row, which locks it, so claim,  *)
(* invitation and new state are one step; a failure rolls all of it back   *)
(* and is recorded afterwards, in a step of its own.  Finalisation holds   *)
(* the batch row's lock for its reads and its write: one step.  A request  *)
(* may die between any two steps.                                          *)
(*                                                                         *)
(* createInvitation is reduced to what dispatch can tell apart: it makes   *)
(* an invitation, refuses (the project is closed or full, or the person    *)
(* holds an open invitation), or fails for a reason unrelated to either.   *)
(***************************************************************************)
EXTENDS Integers, FiniteSets

CONSTANTS
  Operators,
  Recipients,
  Requests,           \* dispatch requests that may be in progress
  SELF_APPROVAL_LIMIT,
  MaxFaults,          \* bound: infrastructure faults
  Nobody              \* no operator: the worker drafted the batch

\* What the constants must be; the runs assume it.
OutreachAssumption ==
  /\ IsFiniteSet(Recipients)
  /\ SELF_APPROVAL_LIMIT \in Nat
  /\ MaxFaults \in Nat
  /\ Nobody \notin Operators

BatchStatus == {"NONE", "DRAFT", "PENDING_APPROVAL", "APPROVED", "REJECTED",
                "PARTIALLY_DISPATCHED", "DISPATCHED", "CANCELLED"}
DispatchState == {"PENDING", "SENT", "SKIPPED", "FAILED"}

VARIABLES
  status,      \* OutreachBatch.status
  createdBy,   \* OutreachBatch.createdById
  approvedBy,  \* OutreachBatch.approvedById
  item,        \* dispatchState of each recipient of the batch
  projectOpen, \* the project takes invitations and has a seat left
  open,        \* people who hold an open invitation to the project
  request,     \* what each dispatch request is doing
  invited,     \* history: invitations the batch made, by recipient
  reported,    \* history: dispatched counts of all requests
  events,      \* history: activity entries about dispatch
  faults

batchVars   == <<status, createdBy, approvedBy, item>>
historyVars == <<invited, reported, events>>
vars == <<batchVars, projectOpen, open, request, historyVars, faults>>

BATCH_TRANSITIONS ==
  [NONE                 |-> {},
   DRAFT                |-> {"PENDING_APPROVAL", "CANCELLED"},
   PENDING_APPROVAL     |-> {"APPROVED", "REJECTED", "CANCELLED"},
   APPROVED             |-> {"PARTIALLY_DISPATCHED", "DISPATCHED", "CANCELLED"},
   REJECTED             |-> {"DRAFT"},
   PARTIALLY_DISPATCHED |-> {"PARTIALLY_DISPATCHED", "DISPATCHED", "CANCELLED"},
   DISPATCHED           |-> {"DISPATCHED"},
   CANCELLED            |-> {}]

DISPATCHABLE_STATUSES == {"APPROVED", "PARTIALLY_DISPATCHED", "DISPATCHED"}

\* The batch's recipients, and those a repeated dispatch would act on.
Items == DOMAIN item
Retryable == {r \in Items : item[r] \in {"PENDING", "FAILED"}}

\* recipientTotals.
Total(state) == Cardinality({r \in Items : item[r] = state})

Idle == [at |-> "idle", todo |-> {}, on |-> {}, permanent |-> FALSE,
         sent |-> 0, failed |-> 0]

TypeOK ==
  /\ status \in BatchStatus
  /\ {createdBy, approvedBy} \subseteq Operators \cup {Nobody}
  /\ Items \subseteq Recipients /\ item \in [Items -> DispatchState]
  /\ projectOpen \in BOOLEAN /\ open \subseteq Recipients
  /\ request \in [Requests ->
       [at : {"idle", "loop", "record", "finalise"}, todo : SUBSET Recipients,
        on : SUBSET Recipients, permanent : BOOLEAN, sent : Nat, failed : Nat]]
  /\ invited \in [Recipients -> Nat]
  /\ reported \in Nat
  /\ events \in [complete : Nat, partial : Nat]
  /\ faults \in 0 .. MaxFaults

Init ==
  /\ status = "NONE" /\ createdBy = Nobody /\ approvedBy = Nobody
  /\ item = [r \in {} |-> "PENDING"]
  /\ projectOpen = TRUE
  /\ open \in SUBSET Recipients
  /\ request = [q \in Requests |-> Idle]
  /\ invited = [r \in Recipients |-> 0]
  /\ reported = 0
  /\ events = [complete |-> 0, partial |-> 0]
  /\ faults = 0

-----------------------------------------------------------------------------
(***************************************************************************)
(* The list and its approval.                                              *)
(***************************************************************************)

\* createBatch: at least one recipient, none of them twice.
CreateBatch(o, list) ==
  /\ status = "NONE" /\ list # {}
  /\ status' = "DRAFT" /\ createdBy' = o
  /\ item' = [r \in list |-> "PENDING"]
  /\ UNCHANGED <<approvedBy, projectOpen, open, request, historyVars, faults>>

\* buildReplacementBatch: the same from the recommendations, if there are any;
\* they leave out people who hold an open invitation.
BuildReplacementBatch(o) ==
  \E list \in SUBSET (Recipients \ open) : CreateBatch(o, list)

SubmitBatchForApproval ==
  /\ "PENDING_APPROVAL" \in BATCH_TRANSITIONS[status]
  /\ status' = "PENDING_APPROVAL"
  /\ UNCHANGED <<createdBy, approvedBy, item, projectOpen, open, request, historyVars, faults>>

Decides(o, target) ==
  /\ target \in BATCH_TRANSITIONS[status]
  /\ status' = target
  /\ approvedBy' = IF target = "APPROVED" THEN o ELSE approvedBy
  /\ UNCHANGED <<createdBy, item, projectOpen, open, request, historyVars, faults>>

\* Mutant of DecideBatch: the second operator is never asked for.
DecideBatchAlone(o, approve) == Decides(o, IF approve THEN "APPROVED" ELSE "REJECTED")

\* decideBatch: a long list needs a second operator.
DecideBatch(o, approve) ==
  /\ approve => ~ /\ createdBy # Nobody /\ createdBy = o
                  /\ Cardinality(Items) > SELF_APPROVAL_LIMIT
  /\ Decides(o, IF approve THEN "APPROVED" ELSE "REJECTED")

-----------------------------------------------------------------------------
(***************************************************************************)
(* Dispatch.                                                               *)
(***************************************************************************)

Goes(q, r) == request' = [request EXCEPT ![q] = r]

\* dispatchBatch reads the batch once and keeps what was outstanding.
DispatchBatch(q) ==
  /\ request[q].at = "idle"
  /\ status \in DISPATCHABLE_STATUSES
  /\ Goes(q, [Idle EXCEPT !.at = "loop", !.todo = Retryable])
  /\ UNCHANGED <<batchVars, projectOpen, open, historyVars, faults>>

\* Mutant of Claimed: the row is not claimed again inside the transaction.
ClaimedAsRead(r) == TRUE

\* The claim of one recipient, evaluated under the row's lock.
Claimed(r) == item[r] \in {"PENDING", "FAILED"}

\* The recipient's transaction commits: invitation and new state together.
Sends(q, r) ==
  /\ Claimed(r)
  /\ projectOpen /\ r \notin open
  /\ item' = [item EXCEPT ![r] = "SENT"]
  /\ open' = open \cup {r}
  /\ invited' = [invited EXCEPT ![r] = @ + 1]
  /\ reported' = reported + 1
  /\ Goes(q, [request[q] EXCEPT !.todo = @ \ {r}, !.sent = @ + 1])
  /\ UNCHANGED <<events, faults>>

\* Mutant of FindsTaken: somebody else's work is counted.
FindsTakenCounted(q, r) ==
  /\ ~Claimed(r)
  /\ reported' = reported + 1
  /\ Goes(q, [request[q] EXCEPT !.todo = @ \ {r}])
  /\ UNCHANGED <<item, open, invited, events, faults>>

\* Another request settled the recipient first: nothing happens to it.
FindsTaken(q, r) ==
  /\ ~Claimed(r)
  /\ Goes(q, [request[q] EXCEPT !.todo = @ \ {r}])
  /\ UNCHANGED <<item, open, historyVars, faults>>

\* The transaction rolls back: the domain refused, or the machinery failed.
RollsBack(q, r) ==
  /\ Claimed(r)
  /\ \E refused \in BOOLEAN :
       /\ IF refused THEN ~projectOpen \/ r \in open ELSE faults < MaxFaults
       /\ faults' = IF refused THEN faults ELSE faults + 1
       /\ Goes(q, [request[q] EXCEPT !.at = "record", !.todo = @ \ {r},
                                     !.on = {r}, !.permanent = refused])
  /\ UNCHANGED <<item, open, historyVars>>

DispatchOne(q) ==
  /\ request[q].at = "loop"
  /\ \E r \in request[q].todo : Sends(q, r) \/ FindsTaken(q, r) \/ RollsBack(q, r)
  /\ UNCHANGED <<status, createdBy, approvedBy, projectOpen>>

\* Mutant of RecordDispatchFailure: the verdict is written by id alone.
RecordAnyway(q) ==
  /\ request[q].at = "record"
  /\ \E r \in request[q].on :
       item' = [item EXCEPT ![r] = IF request[q].permanent THEN "SKIPPED" ELSE "FAILED"]
  /\ Goes(q, [request[q] EXCEPT !.at = "loop", !.on = {}, !.failed = @ + 1])
  /\ UNCHANGED <<status, createdBy, approvedBy, projectOpen, open, historyVars, faults>>

\* recordDispatchFailure: only while nobody else has settled the recipient.
RecordDispatchFailure(q) ==
  /\ request[q].at = "record"
  /\ \E r \in request[q].on :
       LET settled == item[r] \in {"SENT", "SKIPPED"} IN
         /\ item' = IF settled THEN item
                    ELSE [item EXCEPT ![r] = IF request[q].permanent THEN "SKIPPED" ELSE "FAILED"]
         /\ Goes(q, [request[q] EXCEPT !.at = "loop", !.on = {},
                       !.failed = IF settled \/ request[q].permanent THEN @ ELSE @ + 1])
  /\ UNCHANGED <<status, createdBy, approvedBy, projectOpen, open, historyVars, faults>>

RecipientsDone(q) ==
  /\ request[q].at = "loop" /\ request[q].todo = {}
  /\ Goes(q, [request[q] EXCEPT !.at = "finalise"])
  /\ UNCHANGED <<batchVars, projectOpen, open, historyVars, faults>>

\* Mutant of Target: completeness from the request's own tally.
TargetOwnTally(q) ==
  IF request[q].failed = 0 THEN "DISPATCHED" ELSE "PARTIALLY_DISPATCHED"

\* Where finalisation would put the batch, from the rows as they are.
Target(q) ==
  IF Total("PENDING") = 0 /\ Total("FAILED") = 0 THEN "DISPATCHED" ELSE "PARTIALLY_DISPATCHED"

\* Mutant of Finalises: every request announces the outcome.
FinalisesLoudly(q) ==
  /\ Target(q) \in BATCH_TRANSITIONS[status]
  /\ status' = Target(q)
  /\ events' = IF Target(q) = "DISPATCHED" THEN [events EXCEPT !.complete = @ + 1]
               ELSE [events EXCEPT !.partial = @ + 1]

\* An event only for a transition that happened; a refused one is an error.
Finalises(q) ==
  IF status # Target(q) /\ Target(q) \in BATCH_TRANSITIONS[status]
  THEN /\ status' = Target(q)
       /\ events' = IF Target(q) = "DISPATCHED" THEN [events EXCEPT !.complete = @ + 1]
                    ELSE [events EXCEPT !.partial = @ + 1]
  ELSE UNCHANGED <<status, events>>

FinaliseBatch(q) ==
  /\ request[q].at = "finalise"
  /\ Finalises(q)
  /\ Goes(q, Idle)
  /\ UNCHANGED <<createdBy, approvedBy, item, projectOpen, open, invited, reported, faults>>

-----------------------------------------------------------------------------
\* A request dies; a transaction it had open has not committed.
Crash(q) ==
  /\ request[q].at # "idle"
  /\ Goes(q, Idle)
  /\ UNCHANGED <<batchVars, projectOpen, open, historyVars, faults>>

\* Outside the batch: people are invited and invitations end, the project
\* closes and fills up or opens again.
InvitationElsewhere(r) ==
  /\ open' = IF r \in open THEN open \ {r} ELSE open \cup {r}
  /\ UNCHANGED <<batchVars, projectOpen, request, historyVars, faults>>

ProjectElsewhere ==
  /\ projectOpen' = ~projectOpen
  /\ UNCHANGED <<batchVars, open, request, historyVars, faults>>

Next ==
  \/ \E o \in Operators, list \in SUBSET Recipients : CreateBatch(o, list)
  \/ BuildReplacementBatch(Nobody)
  \/ SubmitBatchForApproval
  \/ \E o \in Operators, approve \in BOOLEAN : DecideBatch(o, approve)
  \/ \E q \in Requests : \/ DispatchBatch(q) \/ DispatchOne(q)
                         \/ RecordDispatchFailure(q) \/ RecipientsDone(q)
                         \/ FinaliseBatch(q) \/ Crash(q)
  \/ \E r \in Recipients : InvitationElsewhere(r)
  \/ ProjectElsewhere

Spec == Init /\ [][Next]_vars

-----------------------------------------------------------------------------
(***************************************************************************)
(* What must hold.                                                         *)
(***************************************************************************)

\* A recipient reads SENT exactly when this batch invited that person, and
\* nobody is invited twice, however requests overlap, fail and are repeated
\* (dispatchBatch's claim, recordDispatchFailure's compare-and-set).
SentIsInvited ==
  \A r \in Items : invited[r] = IF item[r] = "SENT" THEN 1 ELSE 0

\* The counts the requests report add up to the recipients sent: nobody
\* reports work another request did.
CountsHonest == reported = Total("SENT")

\* A batch that says DISPATCHED has nothing left to do, and it stays so.
DispatchedIsSettled == status = "DISPATCHED" => Retryable = {}

\* finaliseBatch never finds its transition refused: no request fails with an
\* error about a state that another one caused.
FinaliseNotRefused ==
  \A q \in Requests : request[q].at = "finalise" =>
    \/ status = Target(q)
    \/ Target(q) \in BATCH_TRANSITIONS[status]

\* The history says a batch was dispatched once, and only if it was.
HistoryMatches ==
  /\ events.complete = IF status = "DISPATCHED" THEN 1 ELSE 0
  /\ events.partial <= 1

\* Nobody is invited by a batch that a person did not approve, and a list
\* longer than the limit was approved by somebody other than its author.
ApprovedByAnother ==
  (\E r \in Items : item[r] = "SENT") =>
    /\ approvedBy # Nobody
    /\ Cardinality(Items) > SELF_APPROVAL_LIMIT => approvedBy # createdBy

\* All of that: what a batch says of itself is what it did.
BatchHonest ==
  /\ SentIsInvited /\ CountsHonest /\ DispatchedIsSettled
  /\ FinaliseNotRefused /\ HistoryMatches /\ ApprovedByAnother
=============================================================================
