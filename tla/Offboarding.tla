---------------------------- MODULE Offboarding ----------------------------
(***************************************************************************)
(* The checklists opened when a project closes (offboarding.ts): a job     *)
(* opens one per expert still on the project, operators take the tasks and *)
(* confirm them, each by name and with a note.                             *)
(*                                                                         *)
(* The request that closes the project queues the job when the status is   *)
(* already committed, and may die in between.  The job is one transaction: *)
(* it reads who is on the project, creates the tasks that are missing and  *)
(* commits; it may die and is run again.  The operator's requests read the *)
(* task first and write it later.                                          *)
(***************************************************************************)
EXTENDS Integers, FiniteSets

CONSTANTS
  Staff,       \* experts with a seat on the project
  Checklist,   \* OFFBOARDING_CHECKLIST
  Operators,
  MaxRuns,     \* attempts of the job
  Unowned

\* What the constants must be; the runs assume it.
OffboardingAssumption ==
  /\ IsFiniteSet(Staff) /\ IsFiniteSet(Checklist)
  /\ MaxRuns \in Nat \ {0}
  /\ Unowned \notin Operators

TaskStatus == {"NONE", "PENDING", "CONFIRMED", "NOT_APPLICABLE"}
Tasks == Staff \X Checklist

VARIABLES
  projectClosed,  \* the project is CLOSED or CANCELLED
  onProject,      \* experts whose assignment is CONFIRMED or COMPLETED
  openingJob,     \* the job project.offboarding_tasks
  task,           \* OffboardingTask rows
  deciding,       \* what each operator is doing
  decisions,      \* history: times a task was decided
  seats           \* history: experts on the project when the job last read

vars == <<projectClosed, onProject, openingJob, task, deciding, decisions, seats>>

NoTask == [status |-> "NONE", owner |-> Unowned, by |-> Unowned]
NoDecision == [at |-> "idle", task |-> {}]

TypeOK ==
  /\ projectClosed \in BOOLEAN
  /\ onProject \subseteq Staff /\ seats \subseteq Staff
  /\ openingJob \in [at : {"none", "due", "queued", "running", "done", "lost"}, runs : 0 .. MaxRuns]
  /\ task \in [Tasks -> [status : TaskStatus, owner : Operators \cup {Unowned},
                         by : Operators \cup {Unowned}]]
  /\ deciding \in [Operators -> [at : {"idle", "confirm", "assign"}, task : SUBSET Tasks]]
  /\ decisions \in [Tasks -> Nat]

Init ==
  /\ projectClosed = FALSE
  /\ onProject = Staff /\ seats = {}
  /\ openingJob = [at |-> "none", runs |-> 0]
  /\ task = [t \in Tasks |-> NoTask]
  /\ deciding = [o \in Operators |-> NoDecision]
  /\ decisions = [t \in Tasks |-> 0]

-----------------------------------------------------------------------------
\* setProjectStatus to CLOSED or CANCELLED, for good ...
CloseProject ==
  /\ ~projectClosed
  /\ projectClosed' = TRUE
  /\ openingJob' = [openingJob EXCEPT !.at = "due"]
  /\ UNCHANGED <<onProject, task, deciding, decisions, seats>>

\* ... queues the job in its next statement ...
QueueOpening ==
  /\ openingJob.at = "due"
  /\ openingJob' = [openingJob EXCEPT !.at = "queued"]
  /\ UNCHANGED <<projectClosed, onProject, task, deciding, decisions, seats>>

\* ... or dies before it: closing again changes nothing and queues nothing.
CloseDies ==
  /\ openingJob.at = "due"
  /\ openingJob' = [openingJob EXCEPT !.at = "lost"]
  /\ UNCHANGED <<projectClosed, onProject, task, deciding, decisions, seats>>

\* A seat is released while the project lives or after.
ReleaseSeat(e) ==
  /\ e \in onProject
  /\ onProject' = onProject \ {e}
  /\ UNCHANGED <<projectClosed, openingJob, task, deciding, decisions, seats>>

\* The job reads the seats that are still taken.
OpenRead ==
  /\ openingJob.at = "queued" /\ openingJob.runs < MaxRuns
  /\ openingJob' = [at |-> "running", runs |-> openingJob.runs + 1]
  /\ seats' = onProject
  /\ UNCHANGED <<projectClosed, onProject, task, deciding, decisions>>

\* openOffboarding for each of them: only the tasks that are missing.
Opened ==
  [t \in Tasks |-> IF t[1] \in seats /\ task[t].status = "NONE"
                   THEN [NoTask EXCEPT !.status = "PENDING"] ELSE task[t]]

OpenCommit ==
  /\ openingJob.at = "running"
  /\ task' = Opened
  /\ openingJob' = [openingJob EXCEPT !.at = "done"]
  /\ UNCHANGED <<projectClosed, onProject, deciding, decisions, seats>>

\* Mutant of OpenDies: a job that dies once is given up.
OpenDiesForGood ==
  /\ openingJob.at = "running" /\ openingJob.runs < MaxRuns
  /\ openingJob' = [openingJob EXCEPT !.at = "dead"]
  /\ UNCHANGED <<projectClosed, onProject, task, deciding, decisions, seats>>

\* The job dies and waits to be run again; the last attempt is assumed to live.
OpenDies ==
  /\ openingJob.at = "running" /\ openingJob.runs < MaxRuns
  /\ openingJob' = [openingJob EXCEPT !.at = "queued"]
  /\ UNCHANGED <<projectClosed, onProject, task, deciding, decisions, seats>>

-----------------------------------------------------------------------------
\* confirmTask and assignOffboardingTask read the task ...
DecideRead(o, t, what) ==
  /\ deciding[o].at = "idle" /\ task[t].status = "PENDING"
  /\ deciding' = [deciding EXCEPT ![o] = [at |-> what, task |-> {t}]]
  /\ UNCHANGED <<projectClosed, onProject, openingJob, task, decisions, seats>>

\* Mutant of ConfirmClaims: the second operator overwrites the first.
ConfirmByRead(t) == TRUE

\* Whether the claim of a confirmation finds its row.
ConfirmClaims(t) == task[t].status = "PENDING"

\* ... and confirm it while it is still pending ...
ConfirmTask(o, outcome) ==
  /\ deciding[o].at = "confirm"
  /\ \E t \in deciding[o].task :
       IF ConfirmClaims(t)
       THEN /\ task' = [task EXCEPT ![t].status = outcome, ![t].by = o]
            /\ decisions' = [decisions EXCEPT ![t] = @ + 1]
       ELSE UNCHANGED <<task, decisions>>
  /\ deciding' = [deciding EXCEPT ![o] = NoDecision]
  /\ UNCHANGED <<projectClosed, onProject, openingJob, seats>>

\* Mutant of AssignTask: it writes the row back as it was read.
AssignWholeRow(o, whom) ==
  /\ deciding[o].at = "assign"
  /\ \E t \in deciding[o].task :
       task' = [task EXCEPT ![t] = [status |-> "PENDING", owner |-> whom, by |-> Unowned]]
  /\ deciding' = [deciding EXCEPT ![o] = NoDecision]
  /\ UNCHANGED <<projectClosed, onProject, openingJob, decisions, seats>>

\* ... or give it to somebody, or to nobody, by its id.
AssignTask(o, whom) ==
  /\ deciding[o].at = "assign"
  /\ \E t \in deciding[o].task : task' = [task EXCEPT ![t].owner = whom]
  /\ deciding' = [deciding EXCEPT ![o] = NoDecision]
  /\ UNCHANGED <<projectClosed, onProject, openingJob, decisions, seats>>

Next ==
  \/ CloseProject \/ QueueOpening \/ CloseDies \/ OpenRead \/ OpenCommit \/ OpenDies
  \/ \E e \in Staff : ReleaseSeat(e)
  \/ \E o \in Operators :
       \/ \E t \in Tasks, what \in {"confirm", "assign"} : DecideRead(o, t, what)
       \/ \E outcome \in {"CONFIRMED", "NOT_APPLICABLE"} : ConfirmTask(o, outcome)
       \/ \E whom \in Operators \cup {Unowned} : AssignTask(o, whom)

\* The request goes on unless it dies; a worker runs the job, as JobQueue promises.
Fairness == WF_vars(QueueOpening) /\ WF_vars(OpenRead) /\ WF_vars(OpenCommit)

Spec == Init /\ [][Next]_vars /\ Fairness

-----------------------------------------------------------------------------
(***************************************************************************)
(* What must hold.                                                         *)
(***************************************************************************)

\* A task is decided once: two operators who read it pending do not both put
\* their name to it, and a repeated job does not ask again.
DecidedOnce ==
  [][\A t \in Tasks :
       decisions'[t] = IF task'[t].status \in {"CONFIRMED", "NOT_APPLICABLE"} THEN 1 ELSE 0]_vars

\* A statement on record keeps its author, whatever else is written to the row.
StatementKept ==
  [][\A t \in Tasks : task[t].by # Unowned =>
       task'[t].by = task[t].by /\ task'[t].status = task[t].status]_vars

\* Whoever keeps a seat after the project closed gets the whole checklist, unless
\* the request that closed it died before it queued the job.
EveryoneOffboards ==
  \A e \in Staff :
    (projectClosed /\ e \in onProject) ~>
      \/ e \notin onProject \/ openingJob.at = "lost"
      \/ \A k \in Checklist : task[<<e, k>>].status # "NONE"

\* A task is decided once and what was stated stays stated.
DecisionsStand == DecidedOnce /\ StatementKept
=============================================================================
