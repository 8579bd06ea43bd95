----------------------------- MODULE MCPlatform -----------------------------
(***************************************************************************)
(* What the rest stands on, checked in one run: the schedules and the      *)
(* heartbeat of the workers, the delivery of messages, the ranking of two  *)
(* candidates, the amounts of payments, the replacement of an expert who   *)
(* leaves, and the screens with the requests behind their buttons.  They   *)
(* share no state: Init chooses which of them moves, the others rest in    *)
(* one of their initial states.  Fairness is that of the components, taken *)
(* with the choice.                                                        *)
(***************************************************************************)
EXTENDS Replacements, Money

CONSTANTS
  Ticking, Schedules, Fast, STALE_AFTER, PRUNE_AFTER, Limit, Broken,
  MaxClock, MaxDeaths, MaxFaults, MaxEdits,
  Messages, Batch, MaxFailures,
  Kinds, MaxBehind

VARIABLES
  focus,
  clock, schedule, tick, heartbeat, lastError, fired, rearmed, deaths, faults, edits,
  queued, dispatch, delivered, failures,
  sample,
  kind, role, thing, page, session, pressed, said, behind

\* Two schedules of different intervals.
Interval == [s \in Schedules |-> IF s = Fast THEN 1 ELSE 2]

\* Two experts of one project, the second the better, whom the brief fits.
Skillful(id, years) ==
  [id |-> id, status |-> "VERIFIED", reachable |-> TRUE, years |-> years, rate |-> 100,
   offset |-> 0, capacity |-> 20, skill |-> [a |-> 4, b |-> 4], open |-> FALSE,
   assigned |-> FALSE, declined |-> -1, seats |-> 0]
MCProfile == [e \in Experts |-> Skillful(e, 2 + e)]
MCBrief ==
  [minYears |-> 2, maxRate |-> 100, offset |-> 0, hours |-> 20,
   asks |-> [a |-> [required |-> TRUE, min |-> 3, weight |-> 1],
             b |-> [required |-> FALSE, min |-> 3, weight |-> 1]]]

\* Candidates on both sides of every limit of the briefs.
Candidates ==
  {[id |-> 1, status |-> st, reachable |-> TRUE, years |-> y, rate |-> r, offset |-> o,
    capacity |-> 20, skill |-> [a |-> a, b |-> b], open |-> FALSE, assigned |-> FALSE,
    declined |-> d, seats |-> n] :
     st \in {"VERIFIED"}, y \in {1, 9}, r \in {100, 110}, o \in {-11, 10},
     a \in {3, 5}, b \in {0, 2, 4}, d \in {-1, 3}, n \in {0}}
Briefs ==
  {[minYears |-> y, maxRate |-> m, offset |-> -11, hours |-> 40,
    asks |-> [a |-> [required |-> TRUE, min |-> 3, weight |-> 2],
              b |-> [required |-> q, min |-> 3, weight |-> 1]]] :
     y \in {0, 2}, m \in {100}, q \in BOOLEAN}
Comparisons == [c : Candidates, d : {[x EXCEPT !.id = 2] : x \in Candidates}, b : Briefs]
SomeComparison == CHOOSE x \in Comparisons : TRUE

\* Texts on both sides of a half, hours and rates on both sides of the limits.
Texts ==
  [negative : BOOLEAN, whole : {0, 60},
   fraction : {<< >>, <<5>>, <<0, 0>>, <<0, 1>>, <<0, 0, 4, 9>>, <<0, 0, 5>>, <<9, 9, 4, 9>>, <<9, 9, 5, 0>>}]
Drafts ==
  [claimed : Texts \cup {NoClaim}, quantity : {1, 50, 6000, 6001}, rate : {99, 101, 150},
   listRate : {99, 101, 150}, ceiling : {NoCeiling, 100}, basis : {"HOURLY", "FIXED"}]
Payouts == [draft : Drafts, more : {1, 2, 149, 6000, 6001}]

S == INSTANCE Scheduler WITH Workers <- Ticking, jobs <- fired, crashes <- deaths,
       MaxCrashes <- MaxDeaths
M == INSTANCE Outbox WITH Dispatchers <- Ticking
C == INSTANCE Console

ASSUME PlatformAssumption ==
  S!SchedulerAssumption /\ M!OutboxAssumption /\ ReplacementsAssumption /\ C!ConsoleAssumption

scheduleVars ==
  <<clock, schedule, tick, heartbeat, lastError, fired, rearmed, deaths, faults, edits>>
outboxVars == <<queued, dispatch, delivered, failures>>
consoleVars == <<kind, role, thing, page, session, pressed, said, behind>>
platformVars == <<focus, sample, scheduleVars, outboxVars, vars, consoleVars>>

PlatformInit ==
  /\ focus \in {"schedules", "messages", "ranking", "amounts", "replacements", "screens"}
  /\ S!Init /\ M!Init /\ Init
  /\ IF focus = "screens" THEN C!Init
     ELSE C!Init /\ kind = "attention" /\ role = "VIEWER"
  /\ sample \in CASE focus = "ranking" -> Comparisons
                  [] focus = "amounts" -> Payouts
                  [] OTHER -> {SomeComparison}

SchedulesNext ==
  focus = "schedules" /\ S!Next /\ UNCHANGED <<focus, sample, outboxVars, vars, consoleVars>>
MessagesNext ==
  focus = "messages" /\ M!Next /\ UNCHANGED <<focus, sample, scheduleVars, vars, consoleVars>>
ReplacementsNext ==
  focus = "replacements" /\ Next /\ UNCHANGED <<focus, sample, scheduleVars, outboxVars, consoleVars>>
ScreensNext ==
  focus = "screens" /\ C!Next /\ UNCHANGED <<focus, sample, scheduleVars, outboxVars, vars>>

PlatformNext == SchedulesNext \/ MessagesNext \/ ReplacementsNext \/ ScreensNext

PlatformFairness ==
  /\ WF_scheduleVars(focus = "schedules" /\ S!Elapse)
  /\ \A w \in Ticking : WF_scheduleVars(focus = "schedules" /\ S!WorkerStep(w))
  /\ \A w \in Workers : WF_vars(focus = "replacements" /\ Job(w))

PlatformSpec == PlatformInit /\ [][PlatformNext]_platformVars /\ PlatformFairness

-----------------------------------------------------------------------------
\* tickSchedules, ensureDefaultSchedules, Worker.start: schedules fire when they
\* should and never without their job, and a failing worker is told apart from a
\* dead one; dispatchQueuedMessages: messages go out once, the oldest first.
Punctual == S!Punctual /\ M!DeliveredOnce

\* tickSchedules: a schedule that is due fires, whatever fails beside it.
DueFires == S!DueFires

\* scoreCandidate, rankCandidates: better is never worse, and ties are settled;
\* toQuantityScaled, computeAmountMinor, detectDiscrepancies: what is read, paid
\* and passed without a question is what was claimed.
FiguresSound ==
  /\ focus = "ranking" => RankingSound(sample.c, sample.d, sample.b)
  /\ focus = "amounts" =>
       /\ sample.draft.claimed # NoClaim => ReadsNearest(sample.draft.claimed)
       /\ AmountSound(sample.draft.quantity, sample.more, sample.draft.rate)
       /\ UnexplainedAsClaimed(sample.draft)

\* The pages and their routes: what is offered is taken, what is announced is
\* offered, and nothing is left where no screen can move it.
ConsoleHolds == focus = "screens" => C!ConsoleHolds

\* The services behind the pages: a stale page moves nothing astray.
OnlyDeclaredMoves == C!OnlyDeclaredMoves
=============================================================================
