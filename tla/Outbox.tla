------------------------------- MODULE Outbox -------------------------------
(***************************************************************************)
(* The delivery of queued messages: dispatchQueuedMessages of outbox.ts,   *)
(* run by the job outbox.dispatch.  A run is one transaction: it reads the *)
(* oldest messages that wait, claims them one by one by their status and   *)
(* commits, together with its own completion; what it claimed is locked    *)
(* until then.  A worker that dies leaves nothing behind.                  *)
(*                                                                         *)
(* A message leaves the model once it is delivered and nobody remembers    *)
(* it; its name then stands for a new one, so that messages never end.     *)
(***************************************************************************)
EXTENDS Integers, SequencesExt

CONSTANTS
  Messages,
  Dispatchers,  \* workers running the job
  Batch,        \* options.limit
  MaxFailures   \* bound: runs that die

\* What the constants must be; the runs assume it.
OutboxAssumption == Batch \in Nat \ {0} /\ MaxFailures \in Nat

VARIABLES
  queued,     \* the messages with status QUEUED, oldest first
  dispatch,   \* what each run took on and claimed; history: what it saw
  delivered,  \* history: how often a message was marked SENT
  failures

vars == <<queued, dispatch, delivered, failures>>

Resting == [at |-> "idle", todo |-> << >>, claimed |-> {}, saw |-> {}]

TypeOK ==
  /\ ToSet(queued) \subseteq Messages /\ IsInjective(queued)
  /\ \A w \in Dispatchers :
       /\ dispatch[w].at \in {"idle", "claim"}
       /\ ToSet(dispatch[w].todo) \cup dispatch[w].claimed \subseteq dispatch[w].saw
       /\ dispatch[w].saw \subseteq Messages
  /\ delivered \in [Messages -> Nat] /\ failures \in 0 .. MaxFailures

Init ==
  /\ queued = << >>
  /\ dispatch = [w \in Dispatchers |-> Resting]
  /\ delivered = [m \in Messages |-> 0]
  /\ failures = 0

Remembered(m) == \E w \in Dispatchers : m \in dispatch[w].saw

\* queueMessage; the message of a long transaction appears among later ones, with
\* the time at which the transaction began.
queueMessage(m) ==
  /\ m \notin ToSet(queued) /\ ~Remembered(m)
  /\ \E i \in 1 .. Len(queued) + 1 : queued' = InsertAt(queued, i, m)
  /\ delivered' = [delivered EXCEPT ![m] = 0]
  /\ UNCHANGED <<dispatch, failures>>

\* Mutant of Oldest: the newest come first.
Newest(q) == SubSeq(Reverse(q), 1, IF Len(q) < Batch THEN Len(q) ELSE Batch)

\* The messages a run takes on.
Oldest(q) == SubSeq(q, 1, IF Len(q) < Batch THEN Len(q) ELSE Batch)

DispatchRead(w) ==
  /\ dispatch[w] = Resting /\ queued # << >>
  /\ dispatch' = [dispatch EXCEPT ![w] =
       [at |-> "claim", todo |-> Oldest(queued), claimed |-> {}, saw |-> ToSet(queued)]]
  /\ UNCHANGED <<queued, delivered, failures>>

\* Mutant of StillQueued: the message is marked by its id.
StillThere(m) == m \in Messages

\* The condition of the claiming update.
StillQueued(m) == m \in ToSet(queued)

\* The next message: the update waits for the run that holds it, then looks again.
DispatchClaim(w) ==
  /\ dispatch[w].at = "claim" /\ dispatch[w].todo # << >>
  /\ LET m == Head(dispatch[w].todo)
     IN /\ \A v \in Dispatchers \ {w} : m \notin dispatch[v].claimed
        /\ dispatch' = [dispatch EXCEPT
             ![w].todo = Tail(@),
             ![w].claimed = IF StillQueued(m) THEN @ \cup {m} ELSE @]
  /\ UNCHANGED <<queued, delivered, failures>>

\* The messages of q but those in C, in their order.
Without(q, C) ==
  LET rest[i \in 0 .. Len(q)] ==
        IF i = 0 THEN << >> ELSE IF q[i] \in C THEN rest[i - 1] ELSE Append(rest[i - 1], q[i])
  IN  rest[Len(q)]

DispatchCommit(w) ==
  /\ dispatch[w].at = "claim" /\ dispatch[w].todo = << >>
  /\ queued' = Without(queued, dispatch[w].claimed)
  /\ delivered' = [m \in Messages |-> delivered[m] + IF m \in dispatch[w].claimed THEN 1 ELSE 0]
  /\ dispatch' = [dispatch EXCEPT ![w] = Resting]
  /\ UNCHANGED failures

\* The worker dies, or another statement of the run fails.
DispatchDies(w) ==
  /\ dispatch[w].at = "claim" /\ failures < MaxFailures
  /\ failures' = failures + 1
  /\ dispatch' = [dispatch EXCEPT ![w] = Resting]
  /\ UNCHANGED <<queued, delivered>>

Next ==
  \/ \E m \in Messages : queueMessage(m)
  \/ \E w \in Dispatchers :
       DispatchRead(w) \/ DispatchClaim(w) \/ DispatchCommit(w) \/ DispatchDies(w)

Spec == Init /\ [][Next]_vars

-----------------------------------------------------------------------------
(***************************************************************************)
(* What must hold.                                                         *)
(***************************************************************************)

Older(n, m) == \E i, j \in DOMAIN queued : i < j /\ queued[i] = n /\ queued[j] = m

\* dispatchQueuedMessages: "two workers running at once cannot both ... the same
\* message", none that was delivered waits again, and a run leaves no older message
\* behind that it could see, so that a message waits for ever only if the job's
\* runs fail for ever.
DeliveredOnce ==
  [][\A m \in Messages : delivered'[m] > delivered[m] =>
       /\ delivered[m] = 0 /\ m \in ToSet(queued) /\ m \notin ToSet(queued')
       /\ \A w \in Dispatchers, n \in ToSet(queued') :
            dispatch'[w] # dispatch[w] /\ Older(n, m) => n \notin dispatch[w].saw]_vars
=============================================================================
