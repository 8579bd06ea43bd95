------------------------------ MODULE JobQueue ------------------------------
(***************************************************************************)
(* The PostgreSQL-backed job queue (src/server/services/jobs.ts) and the   *)
(* worker loop that drains it (src/server/worker/runner.ts).               *)
(*                                                                         *)
(* A job row is claimed by an atomic UPDATE that mints a fencing token,    *)
(* counts the attempt and sets a lease.  The handler's writes and the      *)
(* completion of the row are one transaction guarded by the token; renewal *)
(* and failure are guarded by it too.  A sweep at the end of every tick    *)
(* collects claims nobody came back for; it reads first and writes later,  *)
(* as do the operator's retry and cancel.                                  *)
(*                                                                         *)
(* Jobs are named by their dedupe key, so a member of Jobs has at most one *)
(* row: that is the unique index on "Job"."dedupeKey".                     *)
(*                                                                         *)
(* Instants are kept relative to the present: `lease` is leaseExpiresAt    *)
(* minus now, `due` is runAt minus now, and `lag[w]` is how long ago       *)
(* worker w read the clock for the tick it is in (runner.ts passes that    *)
(* one reading to the claim, to failJob and to the sweep).  Elapse moves   *)
(* the present forward.                                                    *)
(***************************************************************************)
EXTENDS Integers, FiniteSets

CONSTANTS
  Jobs,            \* dedupe keys
  Durable,         \* keys whose dedupeScope is DURABLE; the rest are DISPOSABLE
  Unhandled,       \* jobs of a type with no registered handler
  Workers,
  Operators,       \* people using the Worker screen
  MaxAttempts,     \* maxAttempts of a row
  BatchSize,       \* most rows one tick claims
  Lease,           \* leaseSeconds
  Grace,           \* graceSeconds of the sweep
  BackoffSeconds,  \* backoffSeconds, as a function of the attempts made
  ClaimLag,        \* bound: oldest clock reading a claim statement may use
  MaxLag,          \* bound: longest tick
  MaxRetries,      \* bound: retries operators ask for of one job
  MaxAbandons,     \* bound: ticks lost to a crash or a database error
  NoClaim,
  NoRequest

Claims   == [job : Jobs, id : Nat \ {0}, attempts : 1 .. MaxAttempts]
Requests == [kind : {"retry", "cancel"}, job : Jobs]

ASSUME QueueAssumption ==
  /\ Durable \subseteq Jobs
  /\ Unhandled \subseteq Jobs
  /\ MaxAttempts \in Nat \ {0}
  /\ BatchSize \in Nat \ {0}
  /\ Lease \in Nat \ {0}
  /\ Grace \in Nat
  /\ BackoffSeconds \in [1 .. MaxAttempts -> Nat]
  /\ MaxLag \in Nat
  /\ ClaimLag \in 0 .. MaxLag
  /\ MaxRetries \in Nat
  /\ MaxAbandons \in Nat
  /\ NoClaim \notin Claims
  /\ NoRequest \notin Requests

VARIABLES
  job,        \* the Job table: [Jobs -> Row]; ABSENT where there is no row
  minted,     \* claim tokens minted for each job so far
  phase,      \* where each worker is in its tick
  batch,      \* claims of the tick whose turn has not come
  current,    \* the claim whose handler is running
  abandoned,  \* rows the sweep has read and not yet written
  lag,        \* age of the clock reading the tick works with
  request,    \* an operator's request between its read and its write
  posted,     \* history: keys ever enqueued
  effects,    \* history: handler transactions committed, per job
  retries,    \* history: operators' retries that reached the row, per job
  abandons    \* history: ticks abandoned

workerVars  == <<phase, batch, current, abandoned, lag>>
historyVars == <<posted, effects, retries, abandons>>
vars == <<job, minted, workerVars, request, historyVars>>

Open    == {"PENDING", "RUNNING", "FAILED"}
Retryable == {"DEAD", "FAILED", "CANCELLED"}
Status  == Open \cup Retryable \cup {"SUCCEEDED", "ABSENT"}
Phases  == {"idle", "batch", "run", "fail", "sweep"}

Row == [status : Status, attempts : 0 .. MaxAttempts, claim : Nat,
        lease : Int, due : Int]

NoRow == [status |-> "ABSENT", attempts |-> 0, claim |-> 0,
          lease |-> 0, due |-> 0]

\* A row nobody holds: completion, failure, sweep and cancel all clear the claim.
Released(r, s) == [status |-> s, attempts |-> r.attempts, claim |-> 0,
                   lease |-> 0, due |-> r.due]

\* The same row, due again d units from now.
Requeued(r, d) == [Released(r, "FAILED") EXCEPT !.due = d]

Candidates == [job : Jobs, attempts : 1 .. MaxAttempts]

TypeOK ==
  /\ job \in [Jobs -> Row]
  /\ minted \in [Jobs -> Nat]
  /\ phase \in [Workers -> Phases]
  /\ batch \in [Workers -> SUBSET Claims]
  /\ current \in [Workers -> Claims \cup {NoClaim}]
  /\ abandoned \in [Workers -> SUBSET Candidates]
  /\ lag \in [Workers -> 0 .. MaxLag]
  /\ request \in [Operators -> Requests \cup {NoRequest}]
  /\ posted \subseteq Jobs
  /\ effects \in [Jobs -> Nat]
  /\ retries \in [Jobs -> Nat]
  /\ abandons \in 0 .. MaxAbandons

Init ==
  /\ job = [j \in Jobs |-> NoRow]
  /\ minted = [j \in Jobs |-> 0]
  /\ phase = [w \in Workers |-> "idle"]
  /\ batch = [w \in Workers |-> {}]
  /\ current = [w \in Workers |-> NoClaim]
  /\ abandoned = [w \in Workers |-> {}]
  /\ lag = [w \in Workers |-> 0]
  /\ request = [o \in Operators |-> NoRequest]
  /\ posted = {}
  /\ effects = [j \in Jobs |-> 0]
  /\ retries = [j \in Jobs |-> 0]
  /\ abandons = 0

-----------------------------------------------------------------------------
(***************************************************************************)
(* Enqueue and prune.                                                      *)
(***************************************************************************)

\* enqueueJob.  An enqueue under a key that has a row is a no-op, so only the
\* creating one is a step.  The key of a DISPOSABLE job (a scheduler tick
\* bucket, a one-shot keyed by the millisecond) never recurs.
Enqueue(j) ==
  /\ job[j].status = "ABSENT"
  /\ j \in posted => j \in Durable
  /\ job' = [job EXCEPT ![j] = [NoRow EXCEPT !.status = "PENDING"]]
  /\ posted' = posted \cup {j}
  /\ UNCHANGED <<minted, workerVars, request, effects, retries, abandons>>

\* Mutant of Prune: housekeeping that goes by age and status alone.
PruneAnyKey(j) ==
  /\ job[j].status \in {"SUCCEEDED", "CANCELLED"}
  /\ job' = [job EXCEPT ![j] = NoRow]
  /\ UNCHANGED <<minted, workerVars, request, historyVars>>

\* pruneFinishedJobs, for one row.  Its age is days where leases are minutes,
\* so the model lets it happen at any time after the job finished.
Prune(j) ==
  /\ job[j].status \in {"SUCCEEDED", "CANCELLED"}
  /\ j \notin Durable
  /\ job' = [job EXCEPT ![j] = NoRow]
  /\ UNCHANGED <<minted, workerVars, request, historyVars>>

-----------------------------------------------------------------------------
(***************************************************************************)
(* One worker tick: claim, run each claim, sweep.                          *)
(***************************************************************************)

\* Mutants of Runnable: an exhausted row is offered; a live lease is ignored.
RunnableExhausted(j, l) ==
  \/ job[j].status \in {"PENDING", "FAILED"} /\ job[j].due <= -l
  \/ job[j].status = "RUNNING" /\ job[j].lease < -l

RunnableLive(j, l) ==
  /\ job[j].attempts < MaxAttempts
  /\ \/ job[j].status \in {"PENDING", "FAILED"} /\ job[j].due <= -l
     \/ job[j].status = "RUNNING"

\* The WHERE clause of the claim, read with a clock l units old.
Runnable(j, l) ==
  /\ job[j].attempts < MaxAttempts
  /\ \/ job[j].status \in {"PENDING", "FAILED"} /\ job[j].due <= -l
     \/ job[j].status = "RUNNING" /\ job[j].lease < -l

\* The row after a claim made with a clock l units old.
ClaimedRow(j, l) ==
  [job[j] EXCEPT !.status   = "RUNNING",
                 !.attempts = @ + 1,
                 !.claim    = minted[j] + 1,
                 !.lease    = Lease - l]

\* claimJobs: one statement.  SKIP LOCKED may pass over any row another
\* transaction is writing, so any non-empty part of the runnable rows may come
\* back; the order of a batch is not promised, so it is a set.
Claim(w) ==
  /\ phase[w] = "idle"
  /\ \E l \in 0 .. ClaimLag : \E S \in SUBSET {j \in Jobs : Runnable(j, l)} :
       /\ S # {} /\ Cardinality(S) <= BatchSize
       /\ job' = [j \in Jobs |-> IF j \in S THEN ClaimedRow(j, l) ELSE job[j]]
       /\ minted' = [j \in Jobs |-> IF j \in S THEN minted[j] + 1 ELSE minted[j]]
       /\ batch' = [batch EXCEPT ![w] =
            {[job |-> j, id |-> minted[j] + 1, attempts |-> job[j].attempts + 1] : j \in S}]
       /\ lag' = [lag EXCEPT ![w] = l]
  /\ phase' = [phase EXCEPT ![w] = "batch"]
  /\ UNCHANGED <<current, abandoned, request, historyVars>>

\* A tick that finds nothing to claim still goes on to the sweep.
ClaimNothing(w) ==
  /\ phase[w] = "idle"
  /\ \E l \in 0 .. ClaimLag :
       /\ \A j \in Jobs : ~Runnable(j, l)
       /\ lag' = [lag EXCEPT ![w] = l]
  /\ phase' = [phase EXCEPT ![w] = "batch"]
  /\ UNCHANGED <<job, minted, batch, current, abandoned, request, historyVars>>

\* Mutant of Owns: no fencing token in the WHERE clause.
OwnsByStatus(c) == job[c.job].status = "RUNNING"

\* The WHERE clause of renewLease and completeJob.
Owns(c) == job[c.job].status = "RUNNING" /\ job[c.job].claim = c.id

Renewed(c) == [job EXCEPT ![c.job].lease = Lease]

\* executeClaimedJob up to the handler: the renewal reads a fresh clock.
StartJob(w, c) ==
  /\ phase[w] = "batch" /\ c \in batch[w] /\ c.job \notin Unhandled
  /\ Owns(c)
  /\ job' = Renewed(c)
  /\ batch' = [batch EXCEPT ![w] = @ \ {c}]
  /\ current' = [current EXCEPT ![w] = c]
  /\ phase' = [phase EXCEPT ![w] = "run"]
  /\ UNCHANGED <<minted, abandoned, lag, request, historyVars>>

\* The claim was taken over while it waited its turn: the handler never runs.
LoseBeforeStart(w, c) ==
  /\ phase[w] = "batch" /\ c \in batch[w] /\ c.job \notin Unhandled
  /\ ~Owns(c)
  /\ batch' = [batch EXCEPT ![w] = @ \ {c}]
  /\ UNCHANGED <<job, minted, phase, current, abandoned, lag, request, historyVars>>

\* Mutant of FailedRow: off by one at the last attempt.
FailedRowLate(c, l) ==
  IF c.attempts > MaxAttempts
  THEN Released(job[c.job], "DEAD")
  ELSE Requeued(job[c.job], BackoffSeconds[c.attempts] - l)

\* failJob's row: dead when the attempts are used up (its runAt no longer
\* matters), otherwise due again after the backoff, counted from the clock
\* reading of the tick.
FailedRow(c, l) ==
  IF c.attempts >= MaxAttempts
  THEN Released(job[c.job], "DEAD")
  ELSE Requeued(job[c.job], BackoffSeconds[c.attempts] - l)

\* Mutant of FailJob: the update goes by id alone.
FailJobById(w, c) == job' = [job EXCEPT ![c.job] = FailedRow(c, lag[w])]

\* failJob: no row matches when the claim is gone.
FailJob(w, c) ==
  job' = IF job[c.job].claim = c.id
         THEN [job EXCEPT ![c.job] = FailedRow(c, lag[w])]
         ELSE job

\* A job whose type has no handler fails without a renewal.
FailUnhandled(w, c) ==
  /\ phase[w] = "batch" /\ c \in batch[w] /\ c.job \in Unhandled
  /\ FailJob(w, c)
  /\ batch' = [batch EXCEPT ![w] = @ \ {c}]
  /\ UNCHANGED <<minted, phase, current, abandoned, lag, request, historyVars>>

\* The heartbeat timer, alive until executeClaimedJob returns.  A renewal that
\* matches no row, or throws, is ignored.
Heartbeat(w) ==
  /\ phase[w] \in {"run", "fail"}
  /\ Owns(current[w])
  /\ job' = Renewed(current[w])
  /\ UNCHANGED <<minted, workerVars, request, historyVars>>

\* The worker is done with its current claim.
NextInBatch(w) ==
  /\ current' = [current EXCEPT ![w] = NoClaim]
  /\ phase' = [phase EXCEPT ![w] = "batch"]

\* The execution transaction commits: the handler's writes (one effect) and
\* completeJob's row together.
Commit(w) ==
  /\ phase[w] = "run"
  /\ Owns(current[w])
  /\ job' = [job EXCEPT ![current[w].job] = Released(@, "SUCCEEDED")]
  /\ effects' = [effects EXCEPT ![current[w].job] = @ + 1]
  /\ NextInBatch(w)
  /\ UNCHANGED <<minted, batch, abandoned, lag, request, posted, retries, abandons>>

\* completeJob matched no row: LostClaimError rolls the handler's writes back.
LoseAtCommit(w) ==
  /\ phase[w] = "run"
  /\ ~Owns(current[w])
  /\ NextInBatch(w)
  /\ UNCHANGED <<job, minted, batch, abandoned, lag, request, historyVars>>

\* The handler throws, or the transaction outlives its timeout: rolled back,
\* with failJob still to come on another connection.
Throw(w) ==
  /\ phase[w] = "run"
  /\ phase' = [phase EXCEPT ![w] = "fail"]
  /\ UNCHANGED <<job, minted, batch, current, abandoned, lag, request, historyVars>>

FailCurrent(w) ==
  /\ phase[w] = "fail"
  /\ FailJob(w, current[w])
  /\ NextInBatch(w)
  /\ UNCHANGED <<minted, batch, abandoned, lag, request, historyVars>>

\* Mutant of PastCutoff: the sweep only releases, and leaves the exhausted.
PastCutoffRetriable(j, w) ==
  /\ job[j].status = "RUNNING" /\ job[j].lease < -Grace - lag[w]
  /\ job[j].attempts < MaxAttempts

\* Expired beyond the grace period, by the clock reading of w's tick.
PastCutoff(j, w) ==
  job[j].status = "RUNNING" /\ job[j].lease < -Grace - lag[w]

\* reapAbandonedJobs reads the abandoned rows, and their attempts with them.
SweepRead(w) ==
  /\ phase[w] = "batch" /\ batch[w] = {}
  /\ abandoned' = [abandoned EXCEPT ![w] =
       {[job |-> j, attempts |-> job[j].attempts] :
          j \in {i \in Jobs : PastCutoff(i, w)}}]
  /\ phase' = [phase EXCEPT ![w] = "sweep"]
  /\ UNCHANGED <<job, minted, batch, current, lag, request, historyVars>>

\* The row the sweep writes, dead or released by the attempts it read.
SweptRow(a, l) ==
  IF a.attempts >= MaxAttempts
  THEN Released(job[a.job], "DEAD")
  ELSE Requeued(job[a.job], BackoffSeconds[a.attempts] - l)

\* It then writes them one by one, re-checking status and expiry.
SweepWrite(w, a) ==
  /\ phase[w] = "sweep" /\ a \in abandoned[w]
  /\ job' = IF PastCutoff(a.job, w)
            THEN [job EXCEPT ![a.job] = SweptRow(a, lag[w])]
            ELSE job
  /\ abandoned' = [abandoned EXCEPT ![w] = @ \ {a}]
  /\ UNCHANGED <<minted, phase, batch, current, lag, request, historyVars>>

\* The worker forgets its tick.
ForgetTick(w) ==
  /\ phase' = [phase EXCEPT ![w] = "idle"]
  /\ batch' = [batch EXCEPT ![w] = {}]
  /\ current' = [current EXCEPT ![w] = NoClaim]
  /\ abandoned' = [abandoned EXCEPT ![w] = {}]
  /\ lag' = [lag EXCEPT ![w] = 0]

EndTick(w) ==
  /\ phase[w] = "sweep" /\ abandoned[w] = {}
  /\ ForgetTick(w)
  /\ UNCHANGED <<job, minted, request, historyVars>>

\* The process is killed and restarted, or a database error leaves tick():
\* an open transaction rolls back and every claim still held is left RUNNING.
AbandonTick(w) ==
  /\ phase[w] # "idle"
  /\ abandons < MaxAbandons
  /\ ForgetTick(w)
  /\ abandons' = abandons + 1
  /\ UNCHANGED <<job, minted, request, posted, effects, retries>>

-----------------------------------------------------------------------------
(***************************************************************************)
(* The operator: retryJob and cancelJob read the row, decide, and then     *)
(* update it by id alone.                                                  *)
(***************************************************************************)

RequestRead(o, r) ==
  /\ request[o] = NoRequest
  /\ \/ /\ r.kind = "retry"
        /\ job[r.job].status \in Retryable
        /\ retries[r.job] < MaxRetries
     \/ /\ r.kind = "cancel"
        /\ job[r.job].status \notin {"SUCCEEDED", "ABSENT"}
  /\ request' = [request EXCEPT ![o] = r]
  /\ UNCHANGED <<job, minted, workerVars, historyVars>>

RequestedRow(r) ==
  IF r.kind = "retry"
  THEN [NoRow EXCEPT !.status = "PENDING"]
  ELSE Released(job[r.job], "CANCELLED")

\* The update finds no row to write when the job was pruned in between.
RequestWrite(o) ==
  /\ request[o] # NoRequest
  /\ LET r == request[o] IN
       IF job[r.job].status = "ABSENT"
       THEN UNCHANGED <<job, retries>>
       ELSE /\ job' = [job EXCEPT ![r.job] = RequestedRow(r)]
            /\ retries' = IF r.kind = "retry"
                          THEN [retries EXCEPT ![r.job] = @ + 1] ELSE retries
  /\ request' = [request EXCEPT ![o] = NoRequest]
  /\ UNCHANGED <<minted, workerVars, posted, effects, abandons>>

-----------------------------------------------------------------------------
\* An instant one unit older, unless no comparison can tell the difference.
Older(x, floor) == IF x > floor THEN x - 1 ELSE x

LeaseFloor == -(Grace + MaxLag + 1)

Aged(r) == [r EXCEPT !.lease = IF r.status = "RUNNING" THEN Older(@, LeaseFloor) ELSE @,
                     !.due   = Older(@, -ClaimLag)]

\* Time passes for everybody.  A tick lasts at most MaxLag.
Elapse ==
  /\ \A w \in Workers : phase[w] # "idle" => lag[w] < MaxLag
  /\ job' = [j \in Jobs |-> Aged(job[j])]
  /\ lag' = [w \in Workers |-> IF phase[w] = "idle" THEN lag[w] ELSE lag[w] + 1]
  /\ UNCHANGED <<minted, phase, batch, current, abandoned, request, historyVars>>

WorkerStep(w) ==
  \/ Claim(w)
  \/ ClaimNothing(w)
  \/ \E c \in batch[w] : StartJob(w, c) \/ LoseBeforeStart(w, c) \/ FailUnhandled(w, c)
  \/ Commit(w)
  \/ LoseAtCommit(w)
  \/ Throw(w)
  \/ FailCurrent(w)
  \/ SweepRead(w)
  \/ \E a \in abandoned[w] : SweepWrite(w, a)
  \/ EndTick(w)

Next ==
  \/ \E j \in Jobs : Enqueue(j) \/ Prune(j)
  \/ \E w \in Workers : WorkerStep(w) \/ Heartbeat(w) \/ AbandonTick(w)
  \/ \E o \in Operators :
       \/ \E r \in Requests : RequestRead(o, r)
       \/ RequestWrite(o)
  \/ Elapse

Spec == Init /\ [][Next]_vars

\* A started worker keeps ticking and the clock keeps moving.  Nothing makes
\* an operator act, a caller enqueue, or a heartbeat arrive in time.
Fairness ==
  /\ \A w \in Workers : WF_vars(WorkerStep(w))
  /\ WF_vars(Elapse)

FairSpec == Spec /\ Fairness

\* Refinement mapping: everything between arming and the outcome is "open".
Outcome(s) ==
  CASE s = "ABSENT"    -> "none"
    [] s \in Open      -> "open"
    [] s = "SUCCEEDED" -> "done"
    [] s = "DEAD"      -> "dead"
    [] s = "CANCELLED" -> "cancelled"

Contract == INSTANCE JobContract WITH
  state   <- [j \in Jobs |-> Outcome(job[j].status)],
  rearmed <- retries

-----------------------------------------------------------------------------
(***************************************************************************)
(* Properties.                                                             *)
(***************************************************************************)

\* The claims worker w still remembers.
Held(w) == batch[w] \cup (IF current[w] = NoClaim THEN {} ELSE {current[w]})

\* Two workers may both believe they hold a job, but the token of at most one
\* claim remembered anywhere still matches the row ("What must never happen is
\* that both of them act on it", jobs.ts).
OneOwner ==
  \A w1, w2 \in Workers : \A c1 \in Held(w1), c2 \in Held(w2) :
    (Owns(c1) /\ Owns(c2) /\ c1.job = c2.job) => (w1 = w2 /\ c1 = c2)

\* However often a job is claimed, lost, taken over, swept, pruned or enqueued
\* again under its key, its handler commits once, and once more for each retry
\* an operator made.  What an open or dead row says is true: the turn it was
\* last armed for has not been used.  (A CANCELLED row may hide a commit:
\* cancelJob can overwrite SUCCEEDED.)
CommitOncePerArming ==
  \A j \in Jobs :
    effects[j] <= retries[j] +
      (IF job[j].status \in {"SUCCEEDED", "CANCELLED", "ABSENT"} THEN 1 ELSE 0)

\* A job that is queued to run again can be claimed: failJob and the sweep
\* never leave FAILED a row whose attempts are used up, which neither the claim
\* nor a later sweep would ever touch.
QueuedCanRun ==
  \A j \in Jobs :
    job[j].status \in {"PENDING", "FAILED"} => job[j].attempts < MaxAttempts

\* While a lease is live nobody but the worker holding the claim, or an
\* operator, ends it: no takeover, no sweep.
LiveLeaseKept ==
  [][\A j \in Jobs :
       (/\ job[j].status = "RUNNING" /\ job[j].lease >= 0
        /\ job'[j].claim # job[j].claim)
       => \/ \E w \in Workers : \E c \in Held(w) :
               c.job = j /\ Owns(c) /\ c \notin Held(w)'
          \/ \E o \in Operators : request[o] # NoRequest /\ request'[o] = NoRequest]_vars

\* The queue implements JobContract: no step of a worker that lost its claim,
\* of the sweep, or of a crash shows outside.
ImplementsContract == Contract!Spec

\* Every queued job comes to rest, whatever crashes (finitely often), hangs
\* past its lease, throws, or is taken over on the way.
JobsSettle ==
  \A j \in Jobs : job[j].status \in Open ~> job[j].status \notin Open
=============================================================================
