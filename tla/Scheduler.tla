----------------------------- MODULE Scheduler -----------------------------
(***************************************************************************)
(* The schedules that start the recurring jobs (schedules.ts), the part of *)
(* the worker's loop that fires them (runner.ts) and the heartbeat from    *)
(* which an operator sees that a worker is alive (worker-health.ts).       *)
(*                                                                         *)
(* A claim locks its row (FOR UPDATE SKIP LOCKED) until the transaction    *)
(* that also creates the job commits or rolls back; other workers pass a   *)
(* locked row over and an operator's update waits for it.  A tick reads    *)
(* the clock once, when it starts, and uses that value to its end.         *)
(***************************************************************************)
EXTENDS Integers, FiniteSets

CONSTANTS
  Workers,
  Schedules,
  Interval,        \* intervalSeconds of each schedule
  STALE_AFTER,     \* STALE_AFTER_SECONDS
  PRUNE_AFTER,     \* the age the cleanup job gives pruneWorkerHeartbeats
  Limit,           \* claims of one tick
  Broken,          \* schedules whose job can never be enqueued
  MaxClock,        \* bound: the clock
  MaxCrashes,      \* bound: deaths of workers
  MaxFaults,       \* bound: failures for a passing reason
  MaxEdits         \* bound: an operator's switches

\* What the constants must be; the runs assume it.
SchedulerAssumption ==
  /\ IsFiniteSet(Schedules)
  /\ Broken \subseteq Schedules
  /\ Interval \in [Schedules -> Nat \ {0}]
  /\ {STALE_AFTER, PRUNE_AFTER, Limit, MaxClock, MaxCrashes, MaxFaults, MaxEdits} \subseteq Nat

Never == -1

VARIABLES
  clock,
  schedule,   \* the Schedule rows
  tick,       \* what each worker is doing
  heartbeat,  \* WorkerHeartbeat.lastSeenAt
  lastError,  \* whether the heartbeat carries an error
  jobs,       \* jobs the scheduler created: schedule and bucket
  rearmed,    \* history: schedules an operator enabled since they last fired
  crashes, faults, edits

bounds == <<crashes, faults, edits>>
vars == <<clock, schedule, tick, heartbeat, lastError, jobs, rearmed, bounds>>

NoRow == [exists |-> FALSE, on |-> FALSE, next |-> 0, last |-> Never]
Off == [at |-> "off", now |-> 0, handled |-> {}, todo |-> {}, on |-> {}, left |-> 0]

TypeOK ==
  /\ clock \in 0 .. MaxClock
  /\ schedule \in [Schedules -> [exists : BOOLEAN, on : BOOLEAN, next : Nat,
                                 last : Nat \cup {Never}]]
  /\ tick \in [Workers -> [at : {"off", "boot", "ready", "loop", "fire"}, now : Nat,
       handled : SUBSET Schedules, todo : SUBSET Schedules, on : SUBSET Schedules,
       left : 0 .. Limit]]
  /\ heartbeat \in [Workers -> Nat \cup {Never}]
  /\ lastError \in [Workers -> BOOLEAN]
  /\ jobs \subseteq Schedules \X Nat
  /\ rearmed \subseteq Schedules
  /\ crashes \in 0 .. MaxCrashes /\ faults \in 0 .. MaxFaults
  /\ edits \in 0 .. MaxEdits

Init ==
  /\ clock = 0
  /\ schedule = [s \in Schedules |-> NoRow]
  /\ tick = [w \in Workers |-> Off]
  /\ heartbeat = [w \in Workers |-> Never]
  /\ lastError = [w \in Workers |-> FALSE]
  /\ jobs = {} /\ rearmed = {}
  /\ crashes = 0 /\ faults = 0 /\ edits = 0

-----------------------------------------------------------------------------
Goes(w, t) == tick' = [tick EXCEPT ![w] = t]

Unlocked(s) == \A w \in Workers : s \notin tick[w].on

\* Mutant of Due: the switch is not read.
DueAnyway(s, at) == schedule[s].exists /\ schedule[s].next <= at

Due(s, at) == schedule[s].exists /\ schedule[s].on /\ schedule[s].next <= at

\* Worker.start: the rows the build expects come first.
Start(w) ==
  /\ tick[w].at = "off"
  /\ Goes(w, [Off EXCEPT !.at = "boot", !.todo = Schedules])
  /\ UNCHANGED <<clock, schedule, heartbeat, lastError, jobs, rearmed, bounds>>

\* Mutant of Ensured: a restart makes every schedule due.
EnsuredAnew(s) == [schedule[s] EXCEPT !.exists = TRUE, !.on = TRUE, !.next = clock]

\* The upsert of a default schedule: enabled and nextRunAt of a row that is
\* there belong to the operator.
Ensured(s) ==
  IF schedule[s].exists THEN schedule[s]
  ELSE [NoRow EXCEPT !.exists = TRUE, !.on = TRUE, !.next = clock]

EnsureSchedule(w) ==
  /\ tick[w].at = "boot"
  /\ \E s \in tick[w].todo :
       /\ Unlocked(s)
       /\ schedule' = [schedule EXCEPT ![s] = Ensured(s)]
       /\ Goes(w, [tick[w] EXCEPT !.todo = @ \ {s},
                     !.at = IF tick[w].todo = {s} THEN "ready" ELSE "boot"])
  /\ UNCHANGED <<clock, heartbeat, lastError, jobs, rearmed, bounds>>

BeginTick(w) ==
  /\ tick[w].at = "ready"
  /\ Goes(w, [Off EXCEPT !.at = "loop", !.now = clock, !.left = Limit])
  /\ UNCHANGED <<clock, schedule, heartbeat, lastError, jobs, rearmed, bounds>>

\* Mutant of Candidates: a tick gives up at the first schedule that failed.
CandidatesUntilFailure(w) ==
  {s \in Schedules : tick[w].handled = {} /\ Due(s, tick[w].now) /\ Unlocked(s)}

\* Rows a claim may take: due, not locked, not handled in this tick.
Candidates(w) == {s \in Schedules \ tick[w].handled : Due(s, tick[w].now) /\ Unlocked(s)}

\* claimOneDueSchedule takes the row that has been due longest.
ClaimDue(w) ==
  /\ tick[w].at = "loop" /\ tick[w].left > 0
  /\ \E s \in Candidates(w) :
       /\ \A other \in Candidates(w) : schedule[s].next <= schedule[other].next
       /\ Goes(w, [tick[w] EXCEPT !.at = "fire", !.on = {s},
                                  !.handled = @ \cup {s}, !.left = @ - 1])
  /\ UNCHANGED <<clock, schedule, heartbeat, lastError, jobs, rearmed, bounds>>

\* Mutant of Advanced: counted from the time it was due, not from now.
AdvancedFromDue(w, s) ==
  [schedule[s] EXCEPT !.last = tick[w].now, !.next = @ + Interval[s]]

\* The row as the claim leaves it.
Advanced(w, s) ==
  [schedule[s] EXCEPT !.last = tick[w].now, !.next = tick[w].now + Interval[s]]

\* The job is created and the transaction commits; the key of the bucket is new.
CommitFire(w) ==
  /\ tick[w].at = "fire"
  /\ \E s \in tick[w].on :
       /\ s \notin Broken /\ <<s, tick[w].now>> \notin jobs
       /\ schedule' = [schedule EXCEPT ![s] = Advanced(w, s)]
       /\ jobs' = jobs \cup {<<s, tick[w].now>>}
       /\ rearmed' = rearmed \ {s}
  /\ Goes(w, [tick[w] EXCEPT !.at = "loop", !.on = {}])
  /\ UNCHANGED <<clock, heartbeat, lastError, bounds>>

\* Mutant of FailFire: the claim was committed before the enqueue failed.
FailFireClaimed(w) ==
  /\ tick[w].at = "fire"
  /\ \E s \in tick[w].on : s \in Broken /\ schedule' = [schedule EXCEPT ![s] = Advanced(w, s)]
  /\ Goes(w, [tick[w] EXCEPT !.at = "loop", !.on = {}])
  /\ UNCHANGED <<clock, heartbeat, lastError, jobs, rearmed, bounds>>

\* The enqueue fails: a schedule that is a passing fault, or a key that
\* exists, which aborts the transaction before the row can be looked up.
FailFire(w) ==
  /\ tick[w].at = "fire"
  /\ \E s \in tick[w].on, passing \in BOOLEAN :
       /\ IF passing THEN faults < MaxFaults ELSE s \in Broken \/ <<s, tick[w].now>> \in jobs
       /\ faults' = IF passing THEN faults + 1 ELSE faults
  /\ Goes(w, [tick[w] EXCEPT !.at = "loop", !.on = {}])
  /\ UNCHANGED <<clock, schedule, heartbeat, lastError, jobs, rearmed, crashes, edits>>

\* Nothing is due or the limit is reached, and the claimed jobs (JobQueue) are
\* behind it, too: the tick reports the time at which it began.
EndTick(w) ==
  /\ tick[w].at = "loop" /\ (tick[w].left = 0 \/ Candidates(w) = {})
  /\ heartbeat' = [heartbeat EXCEPT ![w] = tick[w].now]
  /\ lastError' = [lastError EXCEPT ![w] = FALSE]
  /\ Goes(w, [Off EXCEPT !.at = "ready"])
  /\ UNCHANGED <<clock, schedule, jobs, rearmed, bounds>>

\* Mutant of TickFails: the failure carries the time the tick began.
TickFailsAtStart(w) ==
  /\ tick[w].at = "loop" /\ faults < MaxFaults
  /\ faults' = faults + 1
  /\ heartbeat' = [heartbeat EXCEPT ![w] = tick[w].now]
  /\ lastError' = [lastError EXCEPT ![w] = TRUE]
  /\ Goes(w, [Off EXCEPT !.at = "ready"])
  /\ UNCHANGED <<clock, schedule, jobs, rearmed, crashes, edits>>

\* A tick that throws is reported with its error, at the time of the failure.
TickFails(w) ==
  /\ tick[w].at = "loop" /\ faults < MaxFaults
  /\ faults' = faults + 1
  /\ heartbeat' = [heartbeat EXCEPT ![w] = clock]
  /\ lastError' = [lastError EXCEPT ![w] = TRUE]
  /\ Goes(w, [Off EXCEPT !.at = "ready"])
  /\ UNCHANGED <<clock, schedule, jobs, rearmed, crashes, edits>>

-----------------------------------------------------------------------------
\* The process dies or is told to stop; an open transaction rolls back.
Crash(w) ==
  /\ tick[w].at # "off" /\ crashes < MaxCrashes
  /\ crashes' = crashes + 1
  /\ Goes(w, Off)
  /\ UNCHANGED <<clock, schedule, heartbeat, lastError, jobs, rearmed, faults, edits>>

\* setScheduleEnabled: enabling makes it due a second later.
SetScheduleEnabled(s, on) ==
  /\ schedule[s].exists /\ Unlocked(s) /\ clock < MaxClock /\ edits < MaxEdits
  /\ edits' = edits + 1
  /\ schedule' = [schedule EXCEPT ![s] =
       IF on THEN [@ EXCEPT !.on = TRUE, !.next = clock + 1] ELSE [@ EXCEPT !.on = FALSE]]
  /\ rearmed' = IF on THEN rearmed \cup {s} ELSE rearmed
  /\ UNCHANGED <<clock, tick, heartbeat, lastError, jobs, crashes, faults>>

\* pruneWorkerHeartbeats: a worker long gone is forgotten.
PruneHeartbeats(w) ==
  /\ heartbeat[w] # Never /\ heartbeat[w] + PRUNE_AFTER < clock
  /\ heartbeat' = [heartbeat EXCEPT ![w] = Never]
  /\ UNCHANGED <<clock, schedule, tick, lastError, jobs, rearmed, bounds>>

Elapse ==
  /\ clock < MaxClock /\ clock' = clock + 1
  /\ UNCHANGED <<schedule, tick, heartbeat, lastError, jobs, rearmed, bounds>>

WorkerStep(w) ==
  \/ Start(w) \/ EnsureSchedule(w)
  \/ BeginTick(w) \/ ClaimDue(w) \/ CommitFire(w) \/ FailFire(w)
  \/ EndTick(w) \/ TickFails(w)

Next ==
  \/ \E w \in Workers : WorkerStep(w) \/ Crash(w) \/ PruneHeartbeats(w)
  \/ \E s \in Schedules, on \in BOOLEAN : SetScheduleEnabled(s, on)
  \/ Elapse

\* A worker that is down is started again, a running one keeps ticking.
Fairness == WF_vars(Elapse) /\ \A w \in Workers : WF_vars(WorkerStep(w))

Spec == Init /\ [][Next]_vars /\ Fairness

-----------------------------------------------------------------------------
(***************************************************************************)
(* workerHealth, as an operator sees it.                                   *)
(***************************************************************************)

Stalled(w) == heartbeat[w] = Never \/ heartbeat[w] < clock - STALE_AFTER

NoLiveWorker == \A w \in Workers : Stalled(w)

Warnings ==
  {x \in {"never", "none", "error"} :
     \/ x = "never" /\ \A w \in Workers : heartbeat[w] = Never
     \/ x = "none" /\ NoLiveWorker /\ \E w \in Workers : heartbeat[w] # Never
     \/ x = "error" /\ \E w \in Workers : ~Stalled(w) /\ lastError[w]}

-----------------------------------------------------------------------------
(***************************************************************************)
(* What must hold.                                                         *)
(***************************************************************************)

\* A schedule fires once per interval however many workers tick, restart and
\* catch up, unless an operator armed it again (nextRunAt counts from now, and
\* ensureDefaultSchedules leaves it alone).
Spacing ==
  [][\A s \in Schedules :
       schedule'[s].last # schedule[s].last =>
         \/ schedule[s].last = Never \/ s \in rearmed
         \/ schedule'[s].last >= schedule[s].last + Interval[s]]_vars

\* An execution is never consumed without its job: when a schedule moves on
\* without an operator, the job of that moment exists (tickSchedules' shared
\* transaction, whatever crashes or fails in it).
NothingConsumed ==
  \A s \in Schedules : schedule[s].last # Never => <<s, schedule[s].last>> \in jobs

\* A schedule an operator switched off starts nothing, not even from a tick
\* that was under way.
OffIsQuiet ==
  [][\A s \in Schedules : ~schedule[s].on => \A n \in 0 .. MaxClock : <<s, n>> \in jobs' => <<s, n>> \in jobs]_vars

\* A schedule that is due fires, or is switched off, even when others can never
\* be enqueued, workers die and enqueues fail for a while.
DueFires ==
  \A s \in Schedules \ Broken : Due(s, clock) ~> ~Due(s, clock)

\* A worker that reports an error is shown to be alive: failing every tick is
\* told apart from being gone (start's second heartbeat).
FailingIsAlive ==
  [][\A w \in Workers : lastError'[w] /\ ~lastError[w] => "error" \in Warnings']_vars

\* Schedules fire when they should: not early, not while off, and never without
\* their job; and a worker whose ticks fail is not mistaken for a dead one.
Punctual == Spacing /\ OffIsQuiet /\ [][NothingConsumed']_vars /\ FailingIsAlive
=============================================================================
