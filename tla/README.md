# ExpertOps: specifications, model checks and proofs

ExpertOps staffs projects with experts: it invites them, onboards and qualifies
them, gives them seats, collects and reviews their work, and prepares payment
files that two people must have signed. Behind the web application runs a job
queue kept in PostgreSQL and drained by any number of workers. This directory
holds TLA+ models of the parts where requests, workers and crashes meet, the
TLC instances that check them, and TLAPS proofs of the results that matter most.

In the paths below, `services/` stands for
`src/server/services/`, `worker/` for `src/server/worker/`, `domain/` for
`src/server/domain/`.

- [Inventory](#inventory)
- [The modules](#the-modules)
- [The runs](#the-runs)
- [Calls that may not overlap](#calls-that-may-not-overlap)
- [What TLC found](#what-tlc-found)
- [What is proved](#what-is-proved)
- [What is not modelled](#what-is-not-modelled)
- [Plan](#plan)

Every module parses with `tlasany M.tla`; a run is
`tlc -config MCX_name.cfg MCX`; a proof module is checked with `tlapm M.tla`.
`PROJECT.json` lists the runs, the definitions each one checks, the mutants that
show a property can fail, the lines each definition translates, and the hazards.

## Inventory

### How the program runs

One Next.js server answers requests; each handler calls a service with the
Prisma client. A service is a sequence of SQL statements. Three services take a
transaction *and* the project's row lock (confirm, release, withdraw); a few take
a transaction without locks (correct a payment, create a batch, create an
outreach batch, merge candidates); most run statement by statement, so between
two of their statements any other request or worker may act, and a request that
dies leaves what it has written. Workers claim jobs, run a handler inside one
transaction together with the completion of the job row, and sweep up after each
other. PostgreSQL's isolation is READ COMMITTED throughout: a transaction that
locks nothing reads what was committed when each of its statements ran.

Three idioms recur, and most of what can go wrong is in the difference:

- *conditional update*: `updateMany({ where: { id, status: ... } })` followed by a
  test of `count`. It claims; a late request loses and says so.
- *read, check, update by id*: the check may be stale when the update lands.
- *unique index as a guard*: a dedupe key, or a unique column; the loser of a race
  gets an error it is supposed to translate into "already done".

### Components

| Component | State | Operations | What is hard | What makes it correct |
| --- | --- | --- | --- | --- |
| Job queue (`services/jobs.ts`) | `Job` rows: status, attempts, claim token, lease, due time, dedupe key | enqueue, claim, renew, complete, fail, sweep, retry, cancel, prune | leases lapse under a live worker; sweep and operator read first and write later; keys outlive rows | one owner; one committed effect per arming; nothing stranded; everything comes to rest |
| Worker loop (`worker/runner.ts`) | the tick's clock reading, its claims, the running handler | tick, heartbeat, execute, drain | kill at any statement; batch waits behind a slow job | the queue's contract, seen from outside |
| Scheduler, health (`services/schedules.ts`, `worker-health.ts`) | `Schedule` and heartbeat rows | claim a due schedule and enqueue; beat; warn | two workers with two clocks; an enqueue that always fails; failing against dead | once per interval, never without its job; a due schedule fires |
| Staffing (`services/staffing.ts`) | assignments, `seatsFilled` | propose, confirm, release, complete | the last seat; counter against rows; proposals revive rows | never oversubscribed; counter never too low; a seat needs an acceptance |
| Projects (`services/projects.ts`, `domain/state-machines.ts`) | status, `seatsRequested` | set status, automatic advance, edit | automatic advance racing an operator | ACTIVE means full |
| Withdrawals, gaps, replacements (`services/staffing-gaps.ts`, `matching.ts`) | withdrawal events, rankings, replacement batches | withdraw, detect gaps, rank, propose | double click; a ranking older than the withdrawal; two searches at once | one event per departure; every departure answered; nobody replaces themselves |
| Invitations (`services/invitations.ts`) | invitation rows, links, letters | create, send, answer, expire, remind, withdraw | jobs holding rows while requests answer; an old row opened again | one end per opening, one reminder per sending, nothing left unsent or overdue |
| Outreach (`services/outreach.ts`) | batches, items, progress | compose, approve, dispatch, resume | two dispatches, failures recorded late | the batch says what it did |
| Onboarding, experts (`services/onboarding.ts`, `experts.ts`) | case, answers, expert status | start, save, submit, decide, nudge | case and expert written one after the other | the expert follows the case; what was submitted is complete |
| Candidates, applications, opportunities | rows and their links | register, flag, resolve, apply, withdraw, close | one person twice; flags settled while others are raised | a suspicion holds; one person, one application |
| Screening, qualifications | screenings, submissions, reviews, disputes, rubric versions, bars | start, submit, assign, review, revise, grant, reject, expire; publish, require, revoke, re-review | jobs and operators assigning at once; by-id writes over a decision | decided once, on reviewed work; nothing stalls; raising a bar is noticed |
| Work (`services/work.ts`) | work items, submissions, reviews | create, submit, review | double submission; two verdicts | what is approved was reviewed |
| Payments (`services/payments.ts`, `src/lib/decimal.ts`) | items, batches | draft, resolve, correct, batch, send, approve, export | corrections racing everything; an export that dies after its claim; rounding | paid once, signed by a second person, explained, as reviewed, in one file, to the nearest cent |
| Support, attention, offboarding | requests, attention items, tasks | raise, reply, resolve, dismiss, sweep, confirm, assign | stale sweeps, and sweeps with more rows than they take; two writers on one row; a request or a job that dies | a claim is borne out by a reply; the queue follows the conditions its sweeps have place for; one decision per task |
| Sign-in, portal | session rows, the tally of attempts, links | sign in, sign out, redeem, revoke | everyone reads the tally before anyone is recorded; a link opened twice | the limit holds; a link opens one session |
| Outbox, contact preferences | messages | queue, dispatch, opt out | opt-out while a job composes; two dispatches | decided by a reading of its own for each message; delivered once, oldest first |
| Matching (`domain/matching-engine.ts`) | none (pure) | exclude, score, order | caps, rounding, ties, the date line | better is never worse; two runs agree |
| Screens (`src/app`, `src/components`) and routes (`http/context.ts`) | the page as it was rendered | show, click, demand a capability | guards written twice; stale pages | what is offered is taken; nothing is left where no screen can move it |
| Import, activity, demo, CSV, environment | data or stateless | | | |

How they interact: services enqueue jobs (by dedupe key) and handlers call
services; invitations, confirmations, releases and withdrawals all move the
project's status; a withdrawal ends invitation, seat and unfinished work in one
transaction and starts the search for a successor; an approved review becomes a
payment item through a job; a granted qualification becomes an onboarding case
through a job; nearly every service raises and resolves attention items.

`PROJECT.json` lists each of these with its status, and under `hazards` the
lines at which each difficulty bites together with the property that would
notice.

## The modules

| Module | What it is |
| --- | --- |
| `JobContract` | what the queue promises about each job: no workers, leases or clocks |
| `JobQueue` | the queue and its workers, statement by statement; implements `JobContract` |
| `JobQueueProofs` | its theorems |
| `Scheduler` | schedules, the part of a tick that fires them, heartbeats |
| `Outbox` | the delivery of queued messages |
| `SeatPool` | what seats promise: one is taken only while one is free |
| `Staffing` | a project, its invitations, assignments, counter and status under concurrent requests; implements `SeatPool` |
| `StaffingProofs` | its theorems |
| `Matching` | the scoring engine as operators |
| `Replacements` | from a withdrawal to the invitation of a successor; uses `Matching` |
| `Invitations` | the life of an invitation under requests and jobs, with the letters about it |
| `Outreach` | a batch of invitations |
| `Funnel` | candidates, duplicates, opportunities, applications |
| `FunnelProofs` | its theorems |
| `Screening` | a candidate's screenings up to the decision |
| `ScreeningProofs` | its theorems |
| `Rubrics` | rubric versions, the bar of projects, an expert's qualifications |
| `Onboarding` | an expert's case |
| `Reminders` | the reminder jobs and their policy |
| `Payments`, `Money` | from submitted work to an exported file; quantities, amounts and the checks of a draft |
| `PaymentsProofs` | theorems of `Payments` |
| `Attention`, `Support`, `Offboarding`, `Access` | the attention queue; a support request; the checklists of a closing project; sign-in and links |
| `Screens`, `ProjectScreens`, `PeopleScreens` | what each page offers, each route demands, each service takes |
| `Console` | a person at one of those screens, the record moving underneath |
| `MCJobQueue`, `MCStaffing`, `MCPayments`, `MCScreening`, `MCOnboarding` | instances of one component |
| `MCPlatform`, `MCOperations`, `MCRecruitment` | several components side by side |
| `PlatformProofs`, `OperationsProofs`, `RecruitmentProofs` | theorems of the components side by side, one section for each |

The last three put components that share no state into one run: `Init` chooses
which of them moves (`focus`) and the others rest. This is a disjoint union, not
a product, so every component is explored as completely as on its own.

Nearly all services are modelled in one way. A *session* (request, caller, job
run) remembers where it is and what it has read; a read is one step, a write
another, in the order of the code's statements; a transaction that locks what it
read is one step; a request may die between steps and leaves what it wrote; a
job's transaction commits as a whole, holds the rows it updated until then, and
leaves nothing when its worker dies. Where two calls are known to
harm each other, the pair is taken out of the set of calls that may overlap and
listed below; every other pair stays in.

### JobQueue

A job is named by its dedupe key; `job[j]` is its row. `Claim` is the atomic
`UPDATE ... FOR UPDATE SKIP LOCKED` of `claimJobs`: it takes rows that are due
with attempts left, or whose lease has lapsed, mints a fresh token for each
(`minted`), counts the attempt and sets the lease. `StartJob` and
`Heartbeat` renew it. A worker's tick goes through the phases `idle`, `batch`,
`run`, `fail`, `sweep`, as `runTick` does; `Commit` is the handler's transaction
with `completeJob` inside, guarded by the token; `FailCurrent`, `FailUnhandled`
are `failJob`. `SweepRead`/`SweepWrite` are the two halves of
`reapAbandonedJobs`, `RequestRead`/`RequestWrite` those of `retryJob` and
`cancelJob`. `AbandonTick` is a crash, a database error or a shutdown.

Time is relative to the present, so that the state stays finite: `lease` and
`due` are distances, `lag[w]` the age of the one clock reading a worker uses
throughout its tick, and `Elapse` makes everything older.

Over-approximations, each of which allows more than the code: a claim may pick
any set of runnable rows up to the batch size (priorities and SKIP LOCKED only
narrow it); pruning may happen at any time after a row is finished; a handler
may throw for no reason. Backoff is a function of attempts given by the
instance. `cancelJob` has no caller in the repository but is exported and so is
modelled. Commit of a transaction is one step.

### Staffing

One project. A session is one request; `session[s]` remembers the point it is at
and what it has read. Reads happen in the step in which the code makes them and
writes in the later step in which the code makes those, so stale checks arise by
themselves. `session[s].call` is the call it serves to its end, and
`Overlapping` says which calls an instance lets overlap; the code itself keeps
none apart. `confirmAssignment`, `releaseAssignment` and `recordWithdrawal` take
the row lock (`lock`); an UPDATE of the project row by anybody else waits for it,
a read does not. A transaction's writes appear in its commit step. `Crash`
rolls back an open transaction and forgets the session.

The follow-ups are part of the calls: confirming goes on to enqueue the start
tasks (`ConfirmEnqueue`) and to advance the project (`AdvanceRead`,
`StatusWrite`), exactly after the commit, as the code has it. `Frees` is what
release and withdrawal share: the row, the recomputed counter, and the
project leaving ACTIVE.

Coarser than the code: an invitation is SENT from creation to answer and
WITHDRAWN whenever it may be reopened; an expert is verified or not; the
requirement check on entering MATCHING, hours and rates are taken to be in
order. `completeAssignment` has no caller in the repository; it is modelled and
can be switched off with `Calls`.

### Payments

Sessions again, one statement at a time. Work items go through submission,
review and approval; `DraftJob` is the worker's transaction; items are resolved,
corrected, batched; batches are sent, approved and exported. `correctPaymentItem`
and `createBatch` are transactions that lock nothing: they read in one step and
commit in another. `exportBatch` is four steps: read what the file is made of,
claim the batch, mark the items, answer with the file (the activity row and the
last read of the batch go with the answer: they change nothing a guard looks at, and
a death before, between or after them is a death before the answer). `cut` notes the
batches whose request died between the claim and the answer.

An amount is the quantity, since rate and currency never change on the way;
`Money` has the arithmetic. Whether a drafted item is flagged is left open here
and decided there. `item[i].work` of a replacement
is history: the table keeps the link on the original only. `signed` and `files`
are history: what the approver of a batch was shown, in how many files an item
went out. No code path cancels a batch, although `docs/workflow-states.md`
describes one, so every batch claims its items for ever.

`Overlapping` says which calls may be in progress together. Given as pairs it
lets one specification answer two questions: is a set of calls safe together,
and what does a given pair do.

### Scheduler and Outbox

`Scheduler`: a worker's tick reads the clock once and walks through the due
schedules. `ClaimDue` locks the row that has been due longest; `Fire` commits the
new due time together with the job; `FailFire` is the enqueue that throws, an
aborted transaction included (a job with that key exists already), after which the
schedule is as it was and the tick goes on to the next. `EnsureSchedules` and the
operator's switch write the same rows. Heartbeats carry the last error;
`Warnings` is what the health page derives from them. `Broken` schedules can never
be enqueued: `DueFires` asks that the others fire all the same.

`Outbox`: a run of `outbox.dispatch` reads the oldest waiting messages, claims
each by its status, and commits. A message written in a long transaction appears
among later ones, so "oldest" is what a run could see. `queueMessageOnce` has no
caller that passes a key.

### Invitations and Outreach

`Invitations` has one row per expert, the letters about it (`mail`), and jobs that
hold what they updated until they commit. `createInvitation` reads the row
(`CreateRead`), writes it (`CreateWrite`) and queues the sending in a later statement
(`ScheduleSend`), before which the request may die (`CreateDies`); `stranded` notes
the drafts so left. `Reopened` is the reset of an old row; `SendRead`/`SendCommit`,
`ExpireOne`, `ClaimsReminder` are the claims by status of the three jobs. A job that
has a message to write (`due`) calls `queueExpertMessage`, which is two statements:
`AskPreference` reads what this expert says now, `QueueMessage` inserts what was
found to be allowed (`may`). `late` notes the workers whose expert answered anew
between the two; `against` collects the experts written to although they had refused
before the reading.

`Outreach` is one batch with its recipients. Each recipient's transaction claims
the row, so claim, invitation and new state are one step; a failure is recorded
in a step of its own (`RecordDispatchFailure`); `Finalises` sums up under the
row's lock. `createInvitation` is reduced to made, refused, failed. What a dispatch
reports (`reported`), who was invited (`invited`) and the activity entries
(`events`) are compared with the rows.

### Matching and Replacements

`Matching` has the exclusions, the parts of the score in hundredths of a point
rounded half up, and the order; the code's doubles may round an exact half the
other way. Profiles carry a proficiency per skill, years, rate, time zone,
capacity, standing, open commitments and the days since the last decline. The
default weights are used.

`Replacements` is one project: a match run stores a ranking, invitations and
seats move in one step each (Staffing and Invitations have the detail), a
withdrawal enqueues a search, `staffing.propose_replacements` reads the gap, the
open batches and the latest ranking in separate steps and then writes a draft
batch or an attention item, and an operator decides on the batch and dispatches
it. `Reopens` is the rule by which a withdrawal takes a full project back to
STAFFING.

### Funnel, Screening, Rubrics, Onboarding, Reminders

`Funnel`: the records of the model carry one address, so each matches the others.
`createCandidate` writes the row before it looks for others and flags them;
`resolveDuplicate` confirms same or different and lifts a hold when no other flag
is open. Applications through the public form (`apply`, `withdraw`) are
transactions; those an operator records (`record`) and the marking when a
screening starts (`mark`) are not. `cut` are the rows whose call died half way.

`Screening`: calls `start`, `submit`, `assign`, `auto-assign`, `review`, `revise`,
`grant`, `reject`, `expire`, each with its reads and its writes; jobs wait in
`jobs`; a dispute is the row two opposing verdicts open. `setCandidateStage` and
a reviewer's comparison with the others are one step each. `broken` are the
screenings a dead call left half way.

`Rubrics`: a version is drafted, edited (criteria deleted, then created),
published; a project's bar names a version; a qualification is known by the
version it was granted against. `excused` are the qualifications a person upheld.

`Onboarding`: case and expert are written by different statements of
`startOnboarding`, `submitOnboarding` and `decideVerification`; the required
items are one item; `readiness.recheck` and the nudge are jobs. `astray` notes a
call cut short, a status set by hand, a checklist of somebody who accepted no
invitation.

`Reminders`: a run reads who is due and claims by status and counter.

### Attention, Support, Offboarding, Access

`Attention` is one key at a time: a condition begins and ends, sweeps take the row
or leave it, read the item and write by id with what they read. `sort` says who
closes an item again: the sweep (and in which states), the request that ends the
condition, or nobody; the kinds are those of the handlers. It also says whether the
sweep is limited: all but those of staffing gaps take 100 or 50 rows and no more, in
no order. `others` counts the other rows that take a place; a row that finds `Limit`
of them is taken or not, by chance (`Takes`), and a sweep that closes goes by the rows
it took, so it closes an open item whose row found no place although its condition
holds (`FindStale`, `Close`).

`Support`: a reply computes the row's new state from what was read; resolution
writes the reply before the status. `Offboarding`: closing commits the status
(`CloseProject`) and queues the job in the next statement (`QueueOpening`), or dies
before it (`CloseDies`); the job opens one task per person and entry of the
checklist (`task[<<person, entry>>]`); confirmation is a claim, assignment writes
the owner by id. `Access`: the throttle's window is the sequence of attempts still
inside it, one address per client; links are redeemed by a claim on unused and
unrevoked.

### Screens and Console

For each kind of record there are the buttons of the page (`...Page`,
`...Panel`, `...Actions`), the capability behind each (`...Route`), the actions
the service accepts (`...Takes`), what the record becomes (`...After`), what
jobs and time do to it (`...Drift`), and the declared moves (`...Edges`). A page
decides from the record as rendered, a service from the record as it is.
`Console` puts a person of some role in front of one record: clicks, answers,
reloads, lapsing sessions and colleagues interleave. A record is one value per
combination of what guards look at, not a row.

`LeftToTheAnswer` names the buttons that pages show although the service would
refuse, because the page cannot know (somebody else's approval is needed, a
length limit): the property checks all others. `WayOut` and `BannersHold` name
their exceptions in the same way.

## The runs

| Run | Question | Bounds |
| --- | --- | --- |
| `queue_workers` | are claims exclusive, live leases kept, queued rows claimable, and does every job come to rest, with late clocks and crashes? | 2 jobs, one with no handler, 2 workers, 2 attempts, lease 1, tick at most 3, claim lag 1, 2 crashes |
| `queue_operator` | does the queue implement its contract, and commit once per arming, with two operators? | 1 durable job, 2 workers, 2 operators, 1 retry, 2 crashes |
| `staffing_pool` | does every interleaving of two requests implement the seat pool? | 2 experts, 2 seats, 2 sessions, crashes, edits; no completion, reopening or operator's change of status |
| `staffing_rows` | do status, counter, invitations and seats agree at every moment, and is no seat too many taken? | 2 experts, 2 seats, 2 sessions, 2 withdrawals each, crashes, every call but edits, every pair but the nine of `Staffing!Conflicting` |
| `payments_batches` | is everything paid once, as signed, as explained, and are records, totals and files the same? | 2 works, 3 items, 2 batches, 2 operators, 2 sessions, crashes |
| `payments_work` | is what is paid approved work at the reviewed quantity? | 1 work, 2 revisions, quantities 1 and 2, 3 items, 2 batches, 2 sessions, crashes |
| `platform` | do schedules fire and messages go out, are rankings and amounts sound, are departures answered, do screens and services agree? | 2 schedules of different intervals, one broken, 2 workers, clock 2, 1 crash, 1 failure, 1 edit; 3 messages, 2 runs of 2, 1 failure; 36,864 pairs of candidates and brief; 23,760 drafts and texts; 2 experts, 1 seat, 2 withdrawals, 1 crash; 15 kinds of record, 1 move behind the page |
| `operations` | do invitations, the attention queue, support, offboarding, sign-in and links keep their promises? | 1 expert, 2 workers, 1 session, 2 openings, 1 crash; 1 key, 1 place in a sweep, 2 sweeps, 3 changes, 1 dismissal, 1 death; 2 sessions, 1 reply of each kind; 1 person, 2 entries, 2 operators, 3 runs; 2 sign-ins, limits 1 and 2, 3 attempts; 2 links, 2 redeemers |
| `recruitment` | from candidate to verified expert and outreach: are decisions final, rows in agreement, nothing lost or counted twice? | 2 sessions everywhere; 2 reviewers, 2 revisions, or 2 screenings of 1 revision; 3 records; 1 person with 2 applications; 3 versions, 1 project; 1 subject, 5 days; 2 recipients, 2 operators, 1 fault |
| `payments_twice`, `screening_tie`, `onboarding_stuck` | documented claims the code does not keep | as above, smaller |

Why the bounds are enough to be interesting. Takeover needs two workers and a
lease shorter than a tick; losing the last attempt needs two attempts; a batch
with a job waiting behind another needs two jobs. A race for a seat needs two
experts and one seat, which `seatsRequested` ranges over; a withdrawal racing a
confirmation needs two sessions. A correction inside a batch that keeps another
item needs two works and three items; moving an item between batches needs two
batches; separation of duties needs two operators. A schedule that starves
another needs two; an overtaken message three and runs of two. A hold that must
survive the settling of one of two suspicions needs three records; a stale
verdict two revisions; a second screening two screenings. A condition that is crowded
out of its sweep needs one place and one other row. Rankings and amounts
take values on both sides of every limit of the code (the third decimal, exact
halves, sixty hours, the ceiling, the date line, minimum years and proficiency).

`staffing_rows` does not tell states apart that differ only in start jobs
(`VIEW ButStartJobs`): no guard reads them, and its invariants do not mention them.

A race between three requests is beyond the runs: two sessions at a time
everywhere, though any number one after another. Histories and counters are
bounded by the `Max...` constants, `LastDay` and by the finite sets of rows; each
bound is named where it is declared. Identities are declared symmetric where no
liveness is checked. `CHECK_DEADLOCK FALSE` stands in every run but the queue's:
the others really come to an end, when every row is final or every bound used up.

`queue_workers` has disposable jobs only, so rows are pruned while workers still
hold them from an earlier claim; a key that was pruned never recurs.
`queue_operator` has a durable job, whose row stays: the operator may rearm it,
which is what `CommitOncePerArming` counts.

**Fairness.** Weak fairness of each worker's steps and of the clock
(`queue_workers`, schedules in `platform`), of the worker's steps in `Replacements`
and `Invitations`, of the job in `Offboarding`, and of each sweep's steps in
`Attention`: a sweep that started gets to its end, and which rows it takes is not
part of the assumption. A request that wrote its row goes on to queue the job that
is due (`ScheduleSend`, `QueueOpening`) unless it dies, which it may do instead: no
other step of a request is fair. A started worker ticks until it is stopped, and a
replacement is started by the container's restart policy
(`deploy/docker-compose.staging.yml`); the jobs are scheduled for ever
(`DEFAULT_SCHEDULES`). Nothing else is assumed of callers, and nothing of operators.
Deaths and failures are bounded in number, not excluded. In the merged runs fairness
is stated together with `focus`.

**Mutants.** For every property of a passing run there is a mutant: the same
module with one definition changed as a plausible bug would change it (a token
comparison dropped, a lock not taken, a counter decremented rather than
recomputed, a claim by id instead of by status), which TLC must find violating
the property in that very instance. They stand beside the definitions they
mutate. Properties that stand for several components have mutants in each.

## Calls that may not overlap

Each passing run lets every pair of calls overlap except those named here; with
all the others allowed at once the properties hold. Each named pair breaks a
property by itself or together with an allowed one.

**Payments** (`Payments!Conflicting`)

| Pair | What happens |
| --- | --- |
| correct + export | the exported batch goes back to DRAFT and can be exported again (`payments_twice`) |
| correct + correct | two replacements of one item, both payable |
| correct + resolve | the voided item is written back to READY beside its replacement |
| correct + batch | a voided item enters a batch; the total counts it |
| correct + send, correct + approve | an approval lands on a batch whose contents changed after they were read (the second with a send in between) |
| batch + batch | the second batch takes the items of the first, whose total is then wrong |
| resolve + batch, resolve + export | an item in a batch is written back to READY, and is missing from the export's marking |
| review + review | approved work goes back to REVISION_REQUESTED after it was drafted for payment |
| send + send | a send delayed past approval and export reopens the batch |

**Screening** (`MCRecruitment!ScreeningPairs`; `Screening!Conflicting`, which the
theorems exclude, has fewer: not start + start, nor an assignment beside expire)

| Pair | What happens |
| --- | --- |
| start + start | two open screenings of one candidate |
| assign or auto-assign + grant, reject, expire | the assignment writes IN_REVIEW by id over the decision or the expiry |
| review + grant | the verdict's write lands on a decided screening; a disagreement opens after the approval |
| revise + grant, reject, expire | the request for a revision reopens what was decided or had expired |
| assign or auto-assign + revise | the new reviewer's IN_REVIEW hides that a revision is due |
| submit + expire | work handed in is expired by a sweep that read the row before |

**Funnel** (`DuplicatePairs`, `ApplicationPairs`)

| Pair | What happens |
| --- | --- |
| create + register, create + same, create + different | the flag is raised on a record while the last open one is settled: a hold without a question, or a question without a hold |
| register + register | two strangers of one address apply at once; two records |
| withdraw + mark | a withdrawn application reads SCREENING_STARTED |
| same + different | both answers to one question land; the record is parked and released |

**Onboarding** (`OnboardingPairs`): start + return and save + return (the
decision's write to the expert lands after the case was reopened), save + submit
(an incomplete checklist is submitted), start + submit, submit + submit (with an
approval in between, the second submission overwrites VERIFIED).

**Rubrics** (`RubricPairs`): edit + publish (published without criteria),
require + revoke, revoke + re-review, re-review + re-review, require + re-review
(a by-id write restores what the other took away).

**Staffing** (`Staffing!Conflicting`, for `RowsAgree`. `staffing_pool`, whose
properties are the pool, the counter's bound and the withdrawals, excludes no
pair of its calls. Letting in any one of the nine pairs makes TLC find `RowsAgree`
violated in the instance of `staffing_rows`.)

| Pair | What happens | What no longer holds |
| --- | --- | --- |
| propose + propose | the second revives by id a seat confirmed meanwhile: it is a proposal again, and the counter still has it | `FilledIsTaken` (`BreakCount`) |
| release + complete, withdraw + complete | a seat given back is completed by id, and the counter no longer has it | `FilledIsTaken` |
| propose + withdraw | the proposal lands after the withdrawal, and a seat is confirmed without an acceptance | `ConfirmedAccepted` (`BreakAcceptance`) |
| reopen + reopen | the second reopening takes back the acceptance that the first one's letter brought | `ConfirmedAccepted` |
| release + confirm, withdraw + confirm | the project is made ACTIVE for its last seat after a seat was given back | `ActiveIsFull` (`BreakStatus`) |
| release + activate, withdraw + activate | the operator's change to ACTIVE lands after a seat was given back | `ActiveIsFull` |

The proofs keep the three apart: a pair of one kind leaves the other parts of
`RowsAgree` standing (except that ACTIVE cannot mean full while the count is wrong).

An edit of the number of seats needs no partner: on an ACTIVE project it leaves a
vacancy by itself. It is left out of `staffing_rows`, and disturbs neither counter
nor acceptances (`SeatsCounted`, `AcceptanceKept`).

Invitations, outreach, support, attention, offboarding, sign-in, links,
reminders, replacements, schedules and messages need no exclusion.

## What TLC found

Three runs state what a document, a comment or a test says and find it violated
by what the code does; `PROJECT.json` quotes the sentences.

1. `payments_twice`: a correction racing an export reopens the exported batch
   (`services/payments.ts:369`).
2. `screening_tie`: two reviewers who disagree a second time, about a later
   revision, are not noticed, since the settled dispute's row is reused
   (`services/screening.ts:811`). No concurrency is needed.
3. `onboarding_stuck`: an expert who was qualified without having accepted an
   invitation hands in the checklist and stays PROSPECT, and the approval then
   fails (`services/onboarding.ts:295`). No concurrency is needed.

Other disagreements met while modelling, stated here and not kept as runs. Where a
module still has the definition of the claim, it is named.

*Queue and schedules.* `retryJob` can reset a job that was claimed in between. A
tick's heartbeat is written at its end only, so one long tick looks like a dead
worker. If more schedules than a tick's limit are broken, the oldest of the others is
starved by them.

*Staffing and projects.* A project can leave CLOSED or CANCELLED, because check
and update are two statements (`projects.ts:245`, `:292`). A seat can be
confirmed while the project is INVITING, from where ACTIVE is not reachable; the
advance is skipped silently. An expert released before the start tasks ran and
confirmed again gets none (`staffing.ts:315`); so does one whose
confirming request dies right after the commit. A second proposal can turn a
confirmed seat back into a proposal without recounting; a proposal can revive
the seat of an expert who has just withdrawn; `updateProject` can bring
`seatsRequested` below `seatsFilled` under a concurrent confirmation, and, on an
ACTIVE project, leaves a vacancy nothing recruits for. Closing can die before
the offboarding job is enqueued (`projects.ts:245`, `:248`): closing again returns at
once, so no checklist is opened. `NothingForgotten` excepts this death by name
(`openingJob.at = "lost"`).

*Replacements.* With two workers two replacement batches can be open at once.
Experts whose invitation was declined or expired are proposed again, though
`recommendReplacements` speaks of "anyone whose story on this project is already
written". Dispatching an earlier batch invites somebody who has withdrawn since.
The item `staffing:no_replacements` is never resolved by the program. The job does
not ask whether the project is still open. Weights supplied by a caller may all
be zero, and the score is then NaN.

*Invitations and support.* A letter can be written for an invitation that was
withdrawn or answered before the claim (`OneLetter`); a reopening by id can take
back an acceptance (`AcceptedStays`). A request that dies between the row and
`scheduleSend` leaves a DRAFT that is never sent and blocks another invitation of
that expert until it is withdrawn (`stranded`, which `NothingForgotten` excepts).
The comment at `contact-preferences.ts:95` says that the recheck closes the window
of a stale answer: it closes that of the caller, but an expert who refuses between
its own reading and the insert (`:108`, `:137`) is written to all the same. A stale
reply reopens a closed request (`ClosedStays`) or loses the response time
(`AnswerStopsClock`).

*Attention.* Items whose sweep does not recompute them stay for ever
(`SelfResolving`); a dismissal can outlive the condition it was about, because most
sweeps look for stale items among the open ones only. With more rows than a sweep
takes, a condition that holds may not be shown, and the sweeps of overdue reviews,
overdue work and unanswered requests close the item of a row they did not take, with
a reason that is not so (`worker/handlers.ts:636`, `:994`, `:1053`;
`ShownBeyondLimit`).

*Payments and work.* An export that dies after its claim leaves a batch EXPORTED
that is in no file, its items IN_BATCH or EXPORTED, and nothing exports it again
(`payments.ts:690-720`); `FilesRecorded` says so of the batches in `cut`. Work
approved by a request that dies before its last statement is never drafted.
Correcting an item of an exported batch changes that batch's recorded total although
the file is out. A submission whose request dies between its two writes blocks every
later one. The payments page lists a hundred items; older ones that need an
explanation are beyond its end.

*Screening and funnel.* `rejectScreening` ignores an open dispute, which
`docs/automation.md` says has to be settled first. A grant can rest on a verdict
about an earlier revision. A request that dies between flags and hold leaves a
flagged NEW candidate who can be screened. The comment at `candidates.ts:409` says
that an application and its follow-up "either both land or neither does"; the one
caller of `submitApplication`, the route of a candidate, passes no transaction, so a
request that dies in between leaves an application that is never acknowledged. The
"maintenance sweep" for duplicates that `applications.ts:296` speaks of does not
exist. An application that was only ACKNOWLEDGED is never marked SCREENING_STARTED;
`closedAt` is kept when an opportunity is reopened; an application can enter a
closing opportunity.

*Onboarding, rubrics, reminders.* The operator's status route can set VERIFIED
without a case. `resolveRereview` "still valid" below the bar leaves the expert
ineligible. A reopened review or screening keeps the count of its reminders. An
opt-out is not looked at again when a reminder is claimed. The nudge's cap of two
never bites, since the handler passes the policy 1 or 0 for the number sent
(`worker/handlers.ts:214`): an open case is nudged once a day.

*Screens.* "New opportunity" is shown to viewers whom the page behind refuses.
A draft project without requirements is a dead end in the interface; CANCELLED is
never offered, and a project in INVITING cannot be closed from its page.
CLOSED_QUALIFIED and CLOSED_REJECTED are never set. A rejected outreach batch and
a candidate whose only screening lapsed have no way on. Invite and propose
buttons remain on ended projects. The portal says "Nothing needs your attention"
over a filled checklist that was not submitted. The message "Reopen it before
editing" names an action that does not exist.

## What is proved

TLC checks the instances above; the following hold for every value of the
constants that the modules' ASSUMEs allow, checked by TLAPS.

**JobQueueProofs**, under `QueueAssumption`:

- `TypeCorrect`: `TypeOK`.
- `OneOwnerHolds`: `OneOwner`. The argument is fencing: `Fenced` says that a
  token a worker remembers, or a row carries, has been minted, and that two
  remembered claims never share job and token; a claim mints a token nobody has
  seen. `OneOwner` alone is not inductive: it says nothing of claims that have
  stopped matching and might match again.
- `NobodyStranded`: `QueuedCanRun`, under the additional hypothesis stated in the
  theorem that a claim's clock reading is younger than lease and grace together.
  `Swept` relates what a sweep has read to the row it will write: either the
  row is still as it was read, or the write's guard fails.
- `OncePerArming`: `CommitOncePerArming`, by counting commits against armings.
- `LiveLeases`: `LiveLeaseKept`. Only the worker that holds the claim, or an
  operator, ends a live lease: a worker that writes owns the row (`Fenced`), and a
  sweep writes only what has lapsed.
- `Implements`: `ImplementsContract`. Every step of `JobQueue` is a step of
  `JobContract` or stutters under the mapping `Outcome`.

**StaffingProofs**, under `StaffingAssumption`:

- `TypeCorrect`: `TypeOK`, with what a session remembers at each point (`Fits`).
- `FilledCovers`: `FilledCoversTaken`, if nobody calls `completeAssignment` (the
  theorem's hypothesis). `Counted` adds that inside a confirmation the number
  read under the lock still bounds the seats taken, since seats are only taken
  under the lock.
- `CapacityHolds`: `CapacityHeld`, if moreover nobody edits the number of seats.
- `PoolImplemented`: `ImplementsPool`: every step takes one seat while one is
  free, gives one back, resizes, or stutters.
- `RowsAgreeHolds`: `RowsAgree`, with any number of requests at once, no two of them
  a pair of `Conflicting`, and no edit of the number of seats. Its parts need less:
  `SeatsCounted` (`FilledIsTaken`, edits included) only `BreakCount` kept apart,
  `AcceptanceKept` (`ConfirmedAccepted`, edits included) only `BreakAcceptance`,
  `FullWhileActive` (`ActiveIsFull`) `BreakCount` and `BreakStatus`. `InProgress` says
  which call each session serves (`Serves`), that only calls which may overlap
  are in progress together (`Disciplined`), and that whoever is between lock and commit
  has the lock. `Knows` says, point by point, what a request has found and will
  rely on when it writes: a proposal's acceptance, a reopened invitation still
  withdrawn, a completed seat still held, a project still full when it is made ACTIVE.
  Most of these writes are by id, so `Knows` survives only because each call that
  could undo what was found is, by `Alone`, not in progress beside it.
- `NeverOverbooked` and `PoolWithCompletions`: `CapacityHeld` and `ImplementsPool` with
  completions, which `CapacityHolds` and `PoolImplemented` leave out, from the same
  invariant and with only `BreakCount` kept apart.
- `WithdrawnOnce`: `WithdrawalOnce`, for any number of requests of every kind, edits and
  completions included, unless two reopenings of an invitation overlap.
  `Undisturbed` says that an acceptance which a withdrawal has read under the
  project's lock stays until it commits, and that an invitation found withdrawn stays so
  until it is reopened. A reopening writes by id, without that lock: behind another
  one it would end an acceptance.

**PaymentsProofs**, under `PaymentsAssumption` and the hypothesis that no pair of
`Conflicting` is in `Overlapping`. The invariant `Inv` is one for all of it:
`Disciplined` (only calls that may overlap do), `Knows`, `OneExporter`,
`OneSubmitter`, and what each row says by itself (`WorkRows`, `ItemRows`,
`BatchRows`). `FilesRecorded` needs `InHand`: what a request that has claimed a
batch is about to answer with is in no file yet, and no other export of that batch
died. `Knows` lists, point by point, what a request has read and still relies on:
most writes are by id, and it is kept because only an excluded call could change
what was read. A batch's total is a recursion over a set of items; that it has a
solution, and what adding or removing an item does to it, is shown first
(`TotalNatural` and the lemmas around it).

- `TypeCorrect`, `PaidOnceHolds`, `SignedOffHolds`, `TotalsHold`, `ExplainedHolds`,
  `FilesHold`, `PaidAsReviewedHolds`: `TypeOK`, `PaidOnce`, `SignedOff`,
  `TotalsMatch`, `ExplainedFirst`, `FilesRecorded`, `PaidAsReviewed`, for any number
  of works, items, batches, operators and requests.

**OperationsProofs**, under `OperationsAssumption`. One invariant for each
component, put together by `Split` (a step of the run is a step of one component
and leaves the others alone).

- `AnsweredHolds`: `Answered`. `SupportInv` makes the same claim of the rows that
  requests remember as of the row itself, so writing a stale one back does no harm.
- `AccessHeld`: `AccessHolds`. For the limit on sign-in, the failures counted in
  the window and the requests that have passed the check but are not yet
  recorded are together bounded (`Vain`, `Pending`): a request passes only while
  the first are below the limit, and only moves itself from the second to the
  first. For links, a session exists only behind a used link.
- `InvitationsHeld`: `InvitationsHold`. Rows that jobs have claimed are as they
  were found and no two jobs claim the same (`JobsInv`); endings, openings,
  sendings and letters are counted against each other (`BooksInv`). `ConsentInv`:
  what a job is about to insert is still welcome to its expert, unless he answered anew
  since the preference was read for it. A refusal that comes before that reading,
  however long after the job loaded the expert, is honoured.
- `DecisionsHeld`: `DecisionsStand`, both halves: the invitations' table and the
  statements on offboarding tasks.

**FunnelProofs** and **ScreeningProofs** are about the two modules by themselves,
for every set `Overlapping` that contains no pair of the module's `Conflicting`.

- `FunnelKeeps`: `FunnelHolds`. `Noticed`: of two records one carries a flag, or
  a call that made one of them has yet to look for the other or to flag it.
  `Parked`: a record's stage answers its flags, but for the calls that have answered
  one and have yet to write the stage.
- `ScreeningKeeps`: `ScreeningSound`; `DecisionsStay`: the screening part of
  `DecisionsFinal`. `CallsFit` is what each call still knows of the screening it
  read; `ApprovalsFollowed` and `SubmissionsFollowed` say that an approval or a
  revision is followed up, or a call or a job is about to.

**RecruitmentProofs**, under `RecruitmentAssumption`, with the pairs of
`MCRecruitment`. It cites the two modules above for each of its instances.

- `FunnelHeld`, `ScreeningHeld`, `DecisionsHeld`: `FunnelHolds`,
  `ScreeningSound`, `DecisionsFinal` of all instances.
- `OnboardingHeld`: `OnboardingSound`. `ExpertFits` and `ShownFits`: expert and
  attention item are what the case calls for, or the call that will see to it is
  named. `VerificationStands`: a verified case stays so.
- `RubricsHeld`: `RubricsHold`. A bar that was raised has found every qualification
  below it, or its call has yet to (`Surfaced`).
- `RemindersHeld`: `RemindersHold`. A run whose count is still the row's read the row
  as it is, so its day is after that of the last letter.
- `BatchHonestHolds`: `BatchHonest`. The history agrees with the rows (`Tallied`),
  the events with the status (`Told`).

**PlatformProofs**, under `PlatformAssumption`.

- `ReplacementsHeld`: `ReplacementsHold`. A search uses up a withdrawal
  (`Searched`); whoever builds a batch has found none that waits, so batches and
  drafts together never outnumber the workers (`Owed`); what a search remembers of
  who left is still so unless they were asked again (`Remembers`).
- `PunctualHolds`: `Punctual`. Schedules: no two ticks hold a row (`Locked`), the row
  a tick holds is due at the tick's own time (`ClaimsStand`), and the due time is an
  interval away from the last firing unless somebody armed it (`Paced`). Outbox:
  what runs have claimed is disjoint and still waits (`Claimed`); what a run has
  taken reaches down to the oldest message it saw (`Downwards`).
- `RankingIsSound`: what `RankingSound` says (being better never costs a place or a
  point, ties are settled, no part outgrows its weight) of all candidates and all
  briefs over any finite set of skills, not only those the run enumerates.
- `NearestRead`: every decimal text, of any length, is read as the nearest
  hundredth. `AmountsSound`: for all quantities and rates amounts round half up,
  grow with the quantity and are written as they are read.
- `FiguresHeld`: `FiguresSound`, from these three.
- `ConsoleHeld`: `ConsoleHolds`; `DeclaredMovesHold`: `OnlyDeclaredMoves`. For any set
  of the fifteen kinds of record and any number of moves a page may lag behind
  (`C!ConsoleAssumption`), where the run has every kind and lag 1. `Records`
  says for each kind which combinations of what guards look at can occur: a DRAFT
  payment item is flagged, a project that has left DRAFT has requirements, a project
  is made ACTIVE with its last seat only, a duplicate is held with its twin.
  `EveryKindServed` shows of each such record, kind by kind, that clicks and
  drift lead to another, along declared moves, that its page offers nothing
  the service would refuse besides `LeftToTheAnswer`, and that something moves it on,
  besides the two dead ends `WayOut` names. `ConsoleInv` then only has
  to say that both the record and the page somebody still looks at are among them.

No theorem assumes more than the named ASSUMEs and its stated hypotheses.

**Only model-checked.** Liveness (`JobsSettle`, `DueFires`, `SeatsAnswered`,
`NothingForgotten`, `Follows`), which is beyond the prover. Every other property of
a passing run is stated by a theorem.

Of recursion, only functions are reasoned about (totals, the queue without what
was delivered, sums of weights): that they have a value follows from a least
counterexample. The library's induction theorems that take a predicate cannot be
instantiated by the provers at hand. `Without` in `Outbox` is such a function for
that reason.

## What is not modelled

The components with status `not_modelled` or `partly` in `PROJECT.json` give the
reason each. In short: `src/scripts` (demonstrations, exercises, seeds, smoke
tests: about 4,300 lines that drive the program from outside); the layout and
wording of pages and templates; the activity log; import parsing and CSV
quoting; references as the highest number plus one; availability windows;
origin checks, rate limits and input validation; environment and deployment.
Listing and counting queries are left out, except where a page's buttons, the
gap of a project or the health warnings are computed from them.

Coarser than the code inside what is modelled: `setExpertStatus` and
`setCandidateStage` read and write in one step; a project that is closed stays so in
`Offboarding`; a commit is one step; deadlines are reached, not
counted, where only their order matters; a page is one record, so
selections over several rows and windows of a list are not there.

## Plan

What could be added next, most useful first:

1. Rubrics, onboarding and outreach stated, as staffing, funnel and screening are,
   for every set of calls without a conflicting pair, in place of the pairs of one run.
2. An abstract specification of a payment (drafted, batched, signed, in one file)
   that `Payments` implements, beside `JobContract` and `SeatPool`.

Each module keeps to the same form: parameters as CONSTANTS with a named
assumption, one action per statement or transaction, invariants as conjunctions
of named parts, and recursion only as functions.
