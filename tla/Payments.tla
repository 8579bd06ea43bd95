------------------------------ MODULE Payments ------------------------------
(***************************************************************************)
(* From submitted work to an exported payment file: submitWork, reviewWork *)
(* (work.ts), the job that drafts payment items, and discrepancies,        *)
(* corrections, batches and export (payments.ts).                          *)
(*                                                                         *)
(* Requests run concurrently, one statement at a time; only correction and *)
(* batch creation are transactions, and those lock nothing, so what they   *)
(* read may have changed by the commit in which their writes appear.  The  *)
(* drafting job is one transaction of the worker and one step here, and so *)
(* is the cancellation of a withdrawing expert's unfinished work.          *)
(*                                                                         *)
(* An amount is the quantity: rates and currency do not change.  Whether a *)
(* drafted item has discrepancies is left open.  A replacement item keeps  *)
(* the work of the original as its history; in the table it has no link.   *)
(***************************************************************************)
EXTENDS Integers, FiniteSets, FiniteSetsExt

CONSTANTS
  Works,        \* work items
  Items,        \* payment items that may come to exist
  Batches,      \* payment batches that may come to exist
  Operators,
  Sessions,     \* requests the server may have in progress
  Calls,        \* the calls this instance makes
  Overlapping,  \* {c, d} is in it if a call of c may overlap with one of d
  MayCrash,     \* whether sessions may die
  Quantities,   \* quantities a reviewer or a correction may state
  MaxRevisions, \* bound: submissions of one work item
  None

AllCalls == {"submit", "review", "resolve", "correct", "batch", "send", "approve", "export"}

ASSUME PaymentsAssumption ==
  /\ IsFiniteSet(Items)
  /\ Quantities \subseteq Nat \ {0}
  /\ Calls \subseteq AllCalls
  /\ Overlapping \subseteq SUBSET Calls
  /\ MayCrash \in BOOLEAN
  /\ MaxRevisions \in Nat
  /\ None \notin Works \cup Items \cup Batches \cup Operators

VARIABLES
  work,      \* work items, with the quantity of the latest approval
  drafts,    \* payment.draft_from_approved_work jobs queued for each work item
  item,      \* the PaymentItem table
  batch,     \* the PaymentBatch table
  session,   \* what each request is about to do, and what it has read
  signed,    \* history: the items each batch's approver was shown
  files,     \* history: in how many exported files each item is
  cut        \* history: the batches whose export died between claim and answer

historyVars == <<signed, files, cut>>
vars == <<work, drafts, item, batch, session, historyVars>>

WorkStatus  == {"ASSIGNED", "SUBMITTED", "REVISION_REQUESTED", "APPROVED", "CANCELLED"}
ItemStatus  == {"ABSENT", "DRAFT", "READY", "IN_BATCH", "EXPORTED", "VOID"}
BatchStatus == {"ABSENT", "DRAFT", "PENDING_APPROVAL", "APPROVED", "EXPORTED"}
Flags       == {"none", "open", "explained"}

\* revision is WorkItem.currentRevision, submissions the last submission row,
\* review the quantity of the latest approving review (0: there is none).
Work  == [status : WorkStatus, revision : Nat, submissions : Nat, review : Nat]
Item  == [status : ItemStatus, work : Works \cup {None}, amount : Nat, flags : Flags,
          superseded : BOOLEAN, batch : Batches \cup {None}]
Batch == [status : BatchStatus, total : Nat,
          createdBy : Operators \cup {None}, approvedBy : Operators \cup {None}]

NoItem  == [status |-> "ABSENT", work |-> None, amount |-> 0, flags |-> "none",
            superseded |-> FALSE, batch |-> None]
NoBatch == [status |-> "ABSENT", total |-> 0, createdBy |-> None, approvedBy |-> None]

Points == {"idle", "submitCreate", "submitUpdate", "reviewCreate", "reviewUpdate",
           "reviewEnqueue", "resolveWrite", "correctWrite", "batchWrite",
           "sendWrite", "approveClaim", "exportClaim", "exportItems", "exportAnswer"}

\* What a session remembers: its call and next statement, the row it is about,
\* the operator, a quantity, and the status, items and batch it has read.
Session == [call : AllCalls \cup {"none"}, at : Points,
            on : Works \cup Items \cup Batches \cup {None}, by : Operators \cup {None},
            n : Nat, seen : ItemStatus \cup BatchStatus, items : SUBSET Items,
            batch : Batches \cup {None}]

Idle == [call |-> "none", at |-> "idle", on |-> None, by |-> None, n |-> 0,
         seen |-> "ABSENT", items |-> {}, batch |-> None]

TypeOK ==
  /\ work \in [Works -> Work]
  /\ drafts \in [Works -> Nat]
  /\ item \in [Items -> Item]
  /\ batch \in [Batches -> Batch]
  /\ session \in [Sessions -> Session]
  /\ signed \in [Batches -> SUBSET Items]
  /\ files \in [Items -> Nat]
  /\ cut \in SUBSET Batches

\* The live rows of a batch in an item table, and what rows add up to.
Contents(table, b) == {i \in Items : table[i].batch = b /\ table[i].status # "VOID"}
Total(table, I)    == MapThenSumSet(LAMBDA i : table[i].amount, I)

Init ==
  /\ work = [w \in Works |->
               [status |-> "ASSIGNED", revision |-> 0, submissions |-> 0, review |-> 0]]
  /\ drafts = [w \in Works |-> 0]
  /\ item = [i \in Items |-> NoItem]
  /\ batch = [b \in Batches |-> NoBatch]
  /\ session = [s \in Sessions |-> Idle]
  /\ signed = [b \in Batches |-> {}]
  /\ files = [i \in Items |-> 0]
  /\ cut = {}

-----------------------------------------------------------------------------
\* Requests

Active(s) == session[s].at # "idle"

\* A request of this call may begin in session s.
Arrives(s, call) ==
  /\ call \in Calls
  /\ ~Active(s)
  /\ \A t \in Sessions \ {s} : Active(t) => {call, session[t].call} \in Overlapping

\* The calls that may not overlap if what is stated below is to hold.
Conflicting ==
  { {"review"},                \* two verdicts on one submission
    {"correct"}, {"batch"}, {"send"},
    {"correct", "resolve"}, {"correct", "batch"}, {"correct", "send"},
    {"correct", "approve"},    \* with a second send in between
    {"correct", "export"},
    {"resolve", "batch"}, {"resolve", "export"} }

Goes(s, next) == session' = [session EXCEPT ![s] = next]
GoesTo(s, p)  == session' = [session EXCEPT ![s].at = p]
Ends(s)       == session' = [session EXCEPT ![s] = Idle]

\* The claim of an export is taken, its file has not left.
Exporting(s) == session[s].at \in {"exportItems", "exportAnswer"}

\* The request dies: an error, a lost connection, the server stopping.
Crash(s) ==
  /\ MayCrash
  /\ Active(s)
  /\ Ends(s)
  /\ cut' = IF Exporting(s) THEN cut \cup {session[s].on} ELSE cut
  /\ UNCHANGED <<work, drafts, item, batch, signed, files>>

-----------------------------------------------------------------------------
\* Work: submitWork and reviewWork

SubmitRead(s, w) ==
  /\ Arrives(s, "submit")
  /\ work[w].status \in {"ASSIGNED", "REVISION_REQUESTED"}
  /\ work[w].revision < MaxRevisions
  /\ Goes(s, [Idle EXCEPT !.call = "submit", !.at = "submitCreate", !.on = w,
                          !.n = work[w].revision + 1])
  /\ UNCHANGED <<work, drafts, item, batch, historyVars>>

\* Mutant of RevisionFree: no unique index.
RevisionAny(w, n) == n > 0

\* A submission row is unique by work item and revision.
RevisionFree(w, n) == work[w].submissions < n

SubmitCreate(s) ==
  LET w == session[s].on  n == session[s].n IN
  /\ session[s].at = "submitCreate"
  /\ IF RevisionFree(w, n)
     THEN work' = [work EXCEPT ![w].submissions = n] /\ GoesTo(s, "submitUpdate")
     ELSE UNCHANGED work /\ Ends(s)
  /\ UNCHANGED <<drafts, item, batch, historyVars>>

SubmitUpdate(s) ==
  LET w == session[s].on IN
  /\ session[s].at = "submitUpdate"
  /\ work' = [work EXCEPT ![w].status = "SUBMITTED", ![w].revision = session[s].n]
  /\ Ends(s)
  /\ UNCHANGED <<drafts, item, batch, historyVars>>

\* n is the approved quantity, 0 to ask for a revision.
ReviewRead(s, w, n) ==
  /\ Arrives(s, "review")
  /\ work[w].status = "SUBMITTED"
  /\ Goes(s, [Idle EXCEPT !.call = "review", !.at = "reviewCreate", !.on = w, !.n = n])
  /\ UNCHANGED <<work, drafts, item, batch, historyVars>>

ReviewCreate(s) ==
  LET w == session[s].on  n == session[s].n IN
  /\ session[s].at = "reviewCreate"
  /\ work' = [work EXCEPT ![w].review = IF n > 0 THEN n ELSE @]
  /\ GoesTo(s, "reviewUpdate")
  /\ UNCHANGED <<drafts, item, batch, historyVars>>

ReviewUpdate(s) ==
  LET w == session[s].on IN
  /\ session[s].at = "reviewUpdate"
  /\ IF session[s].n > 0
     THEN work' = [work EXCEPT ![w].status = "APPROVED"] /\ GoesTo(s, "reviewEnqueue")
     ELSE work' = [work EXCEPT ![w].status = "REVISION_REQUESTED"] /\ Ends(s)
  /\ UNCHANGED <<drafts, item, batch, historyVars>>

ReviewEnqueue(s) ==
  /\ session[s].at = "reviewEnqueue"
  /\ drafts' = [drafts EXCEPT ![session[s].on] = @ + 1]
  /\ Ends(s)
  /\ UNCHANGED <<work, item, batch, historyVars>>

\* recordWithdrawal cancels the work its expert has not delivered.
CancelWork(w) ==
  /\ work[w].status \in {"ASSIGNED", "REVISION_REQUESTED"}
  /\ work' = [work EXCEPT ![w].status = "CANCELLED"]
  /\ UNCHANGED <<drafts, item, batch, session, historyVars>>

-----------------------------------------------------------------------------
\* Items: the drafting job, resolveDiscrepancy and correctPaymentItem

\* The original item of w exists: workItemId is unique.
Drafted(w) == \E i \in Items : item[i].work = w

DraftItem(w, flagged) ==
  [NoItem EXCEPT !.status = IF flagged THEN "DRAFT" ELSE "READY", !.work = w,
                 !.amount = work[w].review, !.flags = IF flagged THEN "open" ELSE "none"]

\* Mutant of DraftJob: the job is delivered without having been enqueued.
DraftJobAgain(w) ==
  /\ work[w].status = "APPROVED"
  /\ drafts' = [drafts EXCEPT ![w] = @ - 1]
  /\ UNCHANGED <<work, item, batch, session, historyVars>>

\* The job runs once for every enqueue, and again after a failed run.
DraftJob(w) ==
  /\ drafts[w] > 0
  /\ drafts' = [drafts EXCEPT ![w] = @ - 1]
  /\ IF work[w].status = "APPROVED" /\ ~Drafted(w)
     THEN \E i \in Items, flagged \in BOOLEAN :
            /\ item[i].status = "ABSENT"
            /\ item' = [item EXCEPT ![i] = DraftItem(w, flagged)]
     ELSE UNCHANGED item
  /\ UNCHANGED <<work, batch, session, historyVars>>

ResolveRead(s, i) ==
  /\ Arrives(s, "resolve")
  /\ item[i].status \notin {"ABSENT", "EXPORTED"}
  /\ item[i].flags # "none"
  /\ Goes(s, [Idle EXCEPT !.call = "resolve", !.at = "resolveWrite", !.on = i,
                          !.seen = item[i].status])
  /\ UNCHANGED <<work, drafts, item, batch, historyVars>>

\* The status read is written back.
ResolveWrite(s) ==
  LET i == session[s].on  seen == session[s].seen IN
  /\ session[s].at = "resolveWrite"
  /\ item' = [item EXCEPT ![i].status = IF seen = "DRAFT" THEN "READY" ELSE seen,
                          ![i].flags = "explained"]
  /\ Ends(s)
  /\ UNCHANGED <<work, drafts, batch, historyVars>>

CorrectRead(s, i, n) ==
  LET b == item[i].batch IN
  /\ Arrives(s, "correct")
  /\ item[i].status \notin {"ABSENT", "VOID"}
  /\ ~item[i].superseded
  /\ Goes(s, [Idle EXCEPT !.call = "correct", !.at = "correctWrite", !.on = i, !.n = n,
                          !.batch = b,
                          !.seen = IF b = None THEN "ABSENT" ELSE batch[b].status])
  /\ UNCHANGED <<work, drafts, item, batch, historyVars>>

\* Mutant of Reopens: only a batch still waiting for its approver is reopened.
ReopensPending(seen) == seen = "PENDING_APPROVAL"

\* The figure an approver saw is gone: the batch goes back to its author.
Reopens(seen) == seen \in {"PENDING_APPROVAL", "APPROVED"}

\* Mutant of Recomputed: the total is not recomputed.
ReopenedOnly(b, table, seen) ==
  [batch[b] EXCEPT !.status = IF Reopens(seen) THEN "DRAFT" ELSE @,
                   !.approvedBy = IF Reopens(seen) THEN None ELSE @]

\* The batch after a correction of one of its items, table being the new items.
Recomputed(b, table, seen) ==
  [batch[b] EXCEPT !.total = Total(table, Contents(table, b)),
                   !.status = IF Reopens(seen) THEN "DRAFT" ELSE @,
                   !.approvedBy = IF Reopens(seen) THEN None ELSE @]

Replacement(i, n) ==
  [NoItem EXCEPT !.status = "READY", !.work = item[i].work, !.amount = n, !.flags = "open"]

CorrectWrite(s) ==
  LET i == session[s].on  b == session[s].batch IN
  /\ session[s].at = "correctWrite"
  /\ \E r \in Items :
       /\ item[r].status = "ABSENT"
       /\ item' = [item EXCEPT ![r] = Replacement(i, session[s].n),
                               ![i].status = "VOID", ![i].superseded = TRUE, ![i].batch = None]
  /\ batch' = IF b = None THEN batch
              ELSE [batch EXCEPT ![b] = Recomputed(b, item', session[s].seen)]
  /\ Ends(s)
  /\ UNCHANGED <<work, drafts, historyVars>>

-----------------------------------------------------------------------------
\* Batches: createBatch, submitBatchForApproval, approveBatch and exportBatch

\* There is no way to cancel a batch, so every batch still claims its items.
Batchable(i) == item[i].status \notin {"ABSENT", "VOID", "DRAFT"} /\ item[i].batch = None

BatchRead(s, I, o) ==
  /\ Arrives(s, "batch")
  /\ I # {}
  /\ \A i \in I : Batchable(i)
  /\ Goes(s, [Idle EXCEPT !.call = "batch", !.at = "batchWrite", !.by = o, !.items = I,
                          !.n = Total(item, I)])
  /\ UNCHANGED <<work, drafts, item, batch, historyVars>>

BatchWrite(s) ==
  /\ session[s].at = "batchWrite"
  /\ \E b \in Batches :
       /\ batch[b].status = "ABSENT"
       /\ batch' = [batch EXCEPT ![b] = [NoBatch EXCEPT !.status = "DRAFT", !.total = session[s].n,
                                                        !.createdBy = session[s].by]]
       /\ item' = [i \in Items |->
                     IF i \in session[s].items
                     THEN [item[i] EXCEPT !.batch = b, !.status = "IN_BATCH"] ELSE item[i]]
  /\ Ends(s)
  /\ UNCHANGED <<work, drafts, historyVars>>

\* Mutant of SendRead: flags are not looked at.
SendUnexplained(s, b) ==
  /\ Arrives(s, "send")
  /\ batch[b].status = "DRAFT"
  /\ Goes(s, [Idle EXCEPT !.call = "send", !.at = "sendWrite", !.on = b])
  /\ UNCHANGED <<work, drafts, item, batch, historyVars>>

SendRead(s, b) ==
  /\ Arrives(s, "send")
  /\ batch[b].status = "DRAFT"
  /\ \A i \in Items : item[i].batch = b => item[i].flags # "open"
  /\ Goes(s, [Idle EXCEPT !.call = "send", !.at = "sendWrite", !.on = b])
  /\ UNCHANGED <<work, drafts, item, batch, historyVars>>

SendWrite(s) ==
  /\ session[s].at = "sendWrite"
  /\ batch' = [batch EXCEPT ![session[s].on].status = "PENDING_APPROVAL"]
  /\ Ends(s)
  /\ UNCHANGED <<work, drafts, item, historyVars>>

ApproveRead(s, b, o) ==
  /\ Arrives(s, "approve")
  /\ batch[b].status = "PENDING_APPROVAL"
  /\ batch[b].createdBy # o
  /\ Goes(s, [Idle EXCEPT !.call = "approve", !.at = "approveClaim", !.on = b, !.by = o,
                          !.items = Contents(item, b)])
  /\ UNCHANGED <<work, drafts, item, batch, historyVars>>

ApproveClaim(s) ==
  LET b == session[s].on IN
  /\ session[s].at = "approveClaim"
  /\ IF batch[b].status = "PENDING_APPROVAL"
     THEN /\ batch' = [batch EXCEPT ![b].status = "APPROVED", ![b].approvedBy = session[s].by]
          /\ signed' = [signed EXCEPT ![b] = session[s].items]
     ELSE UNCHANGED <<batch, signed>>
  /\ Ends(s)
  /\ UNCHANGED <<work, drafts, item, files, cut>>

\* The file is made of what is read here.
ExportRead(s, b) ==
  /\ Arrives(s, "export")
  /\ batch[b].status = "APPROVED"
  /\ Goes(s, [Idle EXCEPT !.call = "export", !.at = "exportClaim", !.on = b,
                          !.items = Contents(item, b)])
  /\ UNCHANGED <<work, drafts, item, batch, historyVars>>

\* Mutants of ExportClaim: the claim does not look at the status; the items are
\* not marked.
ExportClaimById(s) ==
  /\ session[s].at = "exportClaim"
  /\ batch' = [batch EXCEPT ![session[s].on].status = "EXPORTED"]
  /\ GoesTo(s, "exportItems")
  /\ UNCHANGED <<work, drafts, item, historyVars>>

ExportClaimUnmarked(s) ==
  LET b == session[s].on IN
  /\ session[s].at = "exportClaim"
  /\ batch[b].status = "APPROVED"
  /\ batch' = [batch EXCEPT ![b].status = "EXPORTED"]
  /\ GoesTo(s, "exportAnswer")
  /\ UNCHANGED <<work, drafts, item, historyVars>>

ExportClaim(s) ==
  LET b == session[s].on IN
  /\ session[s].at = "exportClaim"
  /\ IF batch[b].status = "APPROVED"
     THEN batch' = [batch EXCEPT ![b].status = "EXPORTED"] /\ GoesTo(s, "exportItems")
     ELSE UNCHANGED batch /\ Ends(s)
  /\ UNCHANGED <<work, drafts, item, historyVars>>

ExportItems(s) ==
  LET b == session[s].on IN
  /\ session[s].at = "exportItems"
  /\ item' = [i \in Items |->
                IF item[i].batch = b /\ item[i].status = "IN_BATCH"
                THEN [item[i] EXCEPT !.status = "EXPORTED"] ELSE item[i]]
  /\ GoesTo(s, "exportAnswer")
  /\ UNCHANGED <<work, drafts, batch, historyVars>>

\* After the activity row and one more read of the batch, the file leaves with
\* the answer.
ExportAnswer(s) ==
  /\ session[s].at = "exportAnswer"
  /\ files' = [i \in Items |-> IF i \in session[s].items THEN files[i] + 1 ELSE files[i]]
  /\ Ends(s)
  /\ UNCHANGED <<work, drafts, item, batch, signed, cut>>

-----------------------------------------------------------------------------
WorkStep(s) ==
  \/ \E w \in Works : SubmitRead(s, w)
  \/ \E w \in Works, n \in Quantities \cup {0} : ReviewRead(s, w, n)
  \/ SubmitCreate(s) \/ SubmitUpdate(s)
  \/ ReviewCreate(s) \/ ReviewUpdate(s) \/ ReviewEnqueue(s)

ItemStep(s) ==
  \/ \E i \in Items : ResolveRead(s, i)
  \/ \E i \in Items, n \in Quantities : CorrectRead(s, i, n)
  \/ ResolveWrite(s) \/ CorrectWrite(s)

BatchStep(s) ==
  \/ \E I \in SUBSET Items, o \in Operators : BatchRead(s, I, o)
  \/ \E b \in Batches : SendRead(s, b) \/ ExportRead(s, b)
  \/ \E b \in Batches, o \in Operators : ApproveRead(s, b, o)
  \/ BatchWrite(s) \/ SendWrite(s) \/ ApproveClaim(s) \/ ExportClaim(s)
  \/ ExportItems(s) \/ ExportAnswer(s)

Next ==
  \/ \E s \in Sessions : WorkStep(s) \/ ItemStep(s) \/ BatchStep(s) \/ Crash(s)
  \/ \E w \in Works : CancelWork(w) \/ DraftJob(w)

Spec == Init /\ [][Next]_vars

-----------------------------------------------------------------------------
\* Properties

Live(i) == item[i].status \notin {"ABSENT", "VOID"}

\* No item is in two exported files, and no work item has two live payment
\* items: the same approved work is never paid twice (payments.ts:474).
PaidOnce ==
  /\ \A i \in Items : files[i] <= 1
  /\ \A i, j \in Items : Live(i) /\ Live(j) /\ item[i].work = item[j].work => i = j

\* A batch that counts as approved holds what its approver was shown and adds
\* up to the total he was shown, and he is not its author.  Items may leave an
\* exported batch by correction, never enter it.
SignedOff ==
  \A b \in Batches :
    /\ batch[b].status \in {"APPROVED", "EXPORTED"} =>
         /\ Contents(item, b) \subseteq signed[b]
         /\ batch[b].approvedBy \notin {None, batch[b].createdBy}
    /\ batch[b].status = "APPROVED" => Contents(item, b) = signed[b]

\* The total a batch states is the total of its items.
TotalsMatch ==
  \A b \in Batches : batch[b].total = Total(item, Contents(item, b))

\* Nothing with an unexplained discrepancy is up for approval or beyond.
ExplainedFirst ==
  \A i \in Items : \A b \in Batches :
    item[i].batch = b /\ batch[b].status # "DRAFT" => item[i].flags # "open"

\* Only approved work is paid; what was never corrected is paid at the
\* quantity the reviewer approved.
PaidAsReviewed ==
  \A i \in Items : Live(i) =>
    /\ work[item[i].work].status = "APPROVED"
    /\ \/ item[i].amount = work[item[i].work].review
       \/ \E j \in Items : item[j].superseded /\ item[j].work = item[i].work

\* What is in a file is marked exported, unless it was corrected afterwards.  An
\* exported batch whose request is no longer on its way is marked and in one
\* file, all of it, unless that request died: then it stays in no file, marked
\* or not, for nothing exports a batch again.
FilesRecorded ==
  /\ \A i \in Items : files[i] = 1 => item[i].status \in {"EXPORTED", "VOID"}
  /\ \A b \in Batches :
       /\ batch[b].status = "EXPORTED" /\ (\A s \in Sessions : Exporting(s) => session[s].on # b) =>
            \/ b \in cut
            \/ \A i \in Contents(item, b) : item[i].status = "EXPORTED" /\ files[i] = 1
       /\ b \in cut =>
            /\ batch[b].status = "EXPORTED"
            /\ \A i \in Contents(item, b) : files[i] = 0

\* Approved work has a payment item, or a job that will draft it, or a request
\* that is about to enqueue that job (docs/automation.md:15-16 and 28).
ApprovedNotForgotten ==
  \A w \in Works :
    work[w].status = "APPROVED" =>
      Drafted(w) \/ drafts[w] > 0
      \/ \E s \in Sessions : session[s].at = "reviewEnqueue" /\ session[s].on = w
=============================================================================
