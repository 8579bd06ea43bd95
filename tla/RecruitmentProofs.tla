------------------------- MODULE RecruitmentProofs -------------------------
(***************************************************************************)
(* What the components of MCRecruitment promise, for any number of people, *)
(* operators, requests and workers: each has an inductive invariant of its *)
(* own, about the rows and about what a call that is under way has read,   *)
(* and a step of one component leaves the others alone.                    *)
(***************************************************************************)
EXTENDS MCRecruitment, FiniteSetTheorems, TLAPS

-----------------------------------------------------------------------------
(***************************************************************************)
(* Reminders.  A run whose count is still the row's read the row as it is, *)
(* so its day is after the last letter.                                    *)
(***************************************************************************)

SubjectRow ==
  [kind : {"screening", "review"}, open : BOOLEAN, since : 0 .. LastDay, sent : Nat,
   last : 0 .. LastDay, deadline : {"ahead", "near", "past"}]

\* The letters of a subject are those its row counts, none later than the last.
Counted(row, written) ==
  /\ row.sent <= R!maxReminders
  /\ \A d \in 1 .. LastDay : written[d] <= 1 /\ (written[d] > 0 => d <= row.last)
  /\ row.sent = Cardinality({d \in 1 .. LastDay : written[d] > 0})

\* What a run read is not newer than the row, and if it is as new, a reminder
\* was due.
RunFits(run) ==
  run # R!NoRun =>
    /\ run.r \in Subjects /\ run.now \in 1 .. today
    /\ run.sent \in Nat /\ run.sent <= subject[run.r].sent
    /\ run.sent = subject[run.r].sent =>
         run.sent < R!maxReminders /\ subject[run.r].last < run.now

RemindersInv ==
  /\ subject \in [Subjects -> SubjectRow]
  /\ today \in 1 .. LastDay
  /\ letters \in [Subjects -> [1 .. LastDay -> Nat]]
  /\ DOMAIN chaser = Sessions
  /\ \A r \in Subjects : Counted(subject[r], letters[r])
  /\ \A w \in Sessions : RunFits(chaser[w])

LEMMA DaysPositive == LastDay \in Nat /\ LastDay >= 1
BY RecruitmentAssumption DEF R!RemindersAssumption

LEMMA SameCardR == ASSUME NEW X PROVE R!Cardinality(X) = Cardinality(X)
BY Zenon DEF R!Cardinality, Cardinality

LEMMA RemindersInit == ASSUME R!Init PROVE RemindersInv
<1> DEFINE First(k) == [kind |-> k, open |-> TRUE, since |-> 1, sent |-> 0, last |-> 0, deadline |-> "ahead"]
<1>1. subject \in [Subjects -> SubjectRow] /\ \A r \in Subjects : subject[r].sent = 0
  <2>1. subject \in [Subjects -> {First(k) : k \in {"screening", "review"}}]
    BY DEF R!Init
  <2>2. \A k \in {"screening", "review"} : First(k) \in SubjectRow /\ First(k).sent = 0
    BY DaysPositive DEF SubjectRow
  <2> HIDE DEF First
  <2> QED
    BY <2>1, <2>2
<1>2. ASSUME NEW r \in Subjects
      PROVE  Counted(subject[r], letters[r])
  <2>1. {d \in 1 .. LastDay : letters[r][d] > 0} = {}
    BY DEF R!Init
  <2>2. Cardinality({d \in 1 .. LastDay : letters[r][d] > 0}) = 0
    BY <2>1, FS_EmptySet
  <2> QED
    BY <1>1, <2>2 DEF R!Init, Counted, R!maxReminders
<1> QED
  BY <1>1, <1>2, DaysPositive DEF R!Init, RemindersInv, RunFits

\* A run that claims writes the letter of a day that has none.
LEMMA LetterWritten ==
  ASSUME NEW row \in SubjectRow, NEW written \in [1 .. LastDay -> Nat], Counted(row, written),
         NEW d \in 1 .. LastDay, row.last < d, row.sent < R!maxReminders,
         NEW next \in SubjectRow, next.sent = row.sent + 1, next.last = d
  PROVE  Counted(next, [written EXCEPT ![d] = @ + 1])
<1> DEFINE Days(t) == {x \in 1 .. LastDay : t[x] > 0}
           new == [written EXCEPT ![d] = @ + 1]
<1>1. written[d] = 0 /\ d \notin Days(written)
  BY DaysPositive DEF Counted, SubjectRow
<1>2. /\ new \in [1 .. LastDay -> Nat] /\ new[d] = 1
      /\ \A x \in (1 .. LastDay) \ {d} : new[x] = written[x]
  BY <1>1
<1> HIDE DEF new
<1>3. Days(new) = Days(written) \cup {d}
  BY <1>2
<1>4. IsFiniteSet(Days(written))
  <2>1. IsFiniteSet(1 .. LastDay)
    BY DaysPositive, FS_Interval
  <2>2. Days(written) \in SUBSET (1 .. LastDay)
    OBVIOUS
  <2> QED
    BY <2>1, <2>2, FS_Subset
<1>5. Cardinality(Days(new)) = Cardinality(Days(written)) + 1 /\ Cardinality(Days(written)) = row.sent
  <2>1. Cardinality(Days(written)) = row.sent
    BY DEF Counted
  <2> HIDE DEF Days
  <2>2. Cardinality(Days(written) \cup {d}) = Cardinality(Days(written)) + 1
    BY <1>1, <1>4, FS_AddElement
  <2> QED
    BY <1>3, <2>1, <2>2
<1>6. \A x \in 1 .. LastDay : new[x] <= 1 /\ (new[x] > 0 => x <= d)
  BY <1>2, DaysPositive DEF Counted, SubjectRow
<1>7. next.sent <= R!maxReminders
  BY DEF Counted, SubjectRow, R!maxReminders
<1>8. next.sent = Cardinality(Days(new))
  BY <1>5
<1>9. Counted(next, new)
  BY <1>6, <1>7, <1>8 DEF Counted
<1> QED
  BY <1>9 DEF new

LEMMA RemindersStep == ASSUME RemindersInv, [R!Next]_(R!vars) PROVE RemindersInv'
<1>1. ASSUME NEW w \in Sessions, NEW run, RunFits(run), chaser' = [chaser EXCEPT ![w] = run],
             UNCHANGED <<subject, today, letters>>
      PROVE  RemindersInv'
  <2>1. chaser'[w] = run /\ \A x \in Sessions \ {w} : chaser'[x] = chaser[x]
    BY <1>1 DEF RemindersInv
  <2>2. \A x \in Sessions : RunFits(chaser[x])'
    BY <1>1, <2>1 DEF RemindersInv, RunFits
  <2> QED
    BY <1>1, <2>2 DEF RemindersInv
\* The row of a subject changes otherwise than by a reminder.
<1>2. ASSUME NEW r \in Subjects, NEW row \in SubjectRow, row.sent = subject[r].sent,
             row.last = subject[r].last, subject' = [subject EXCEPT ![r] = row],
             UNCHANGED <<today, letters, chaser>>
      PROVE  RemindersInv'
  <2>1. /\ subject' \in [Subjects -> SubjectRow]
        /\ \A x \in Subjects : subject'[x].sent = subject[x].sent /\ subject'[x].last = subject[x].last
    BY <1>2 DEF RemindersInv
  <2>2. \A x \in Subjects : Counted(subject'[x], letters[x])
    BY <2>1 DEF RemindersInv, Counted
  <2>3. \A w \in Sessions : RunFits(chaser[w])'
    BY <1>2, <2>1 DEF RemindersInv, RunFits
  <2> QED
    BY <1>2, <2>1, <2>2, <2>3 DEF RemindersInv
<1>3. CASE UNCHANGED R!vars
  BY <1>3 DEF R!vars, RemindersInv, RunFits
<1>4. ASSUME NEW w \in Sessions, NEW r \in Subjects, R!Read(w, r)
      PROVE  RemindersInv'
  <2> DEFINE run == [r |-> r, sent |-> subject[r].sent, now |-> today]
  <2>1. RunFits(run)
    BY <1>4 DEF R!Read, R!Due, R!reminderAllowed, RemindersInv, RunFits, SubjectRow
  <2>2. chaser' = [chaser EXCEPT ![w] = run] /\ UNCHANGED <<subject, today, letters>>
    BY <1>4 DEF R!Read
  <2> HIDE DEF run
  <2> QED
    BY <1>1, <2>1, <2>2
<1>5. ASSUME NEW w \in Sessions, R!RunDies(w) \/ (R!Claim(w) /\ ~R!Claims(w))
      PROVE  RemindersInv'
  <2>1. RunFits(R!NoRun)
    BY DEF RunFits
  <2>2. chaser' = [chaser EXCEPT ![w] = R!NoRun] /\ UNCHANGED <<subject, today, letters>>
    BY <1>5 DEF R!RunDies, R!Claim
  <2> QED
    BY <1>1, <2>1, <2>2
<1>6. ASSUME NEW w \in Sessions, R!Claim(w), R!Claims(w)
      PROVE  RemindersInv'
  <2> DEFINE r == chaser[w].r
             d == chaser[w].now
             row == [subject[r] EXCEPT !.sent = @ + 1, !.last = d]
  <2>1. /\ r \in Subjects /\ d \in 1 .. today /\ d \in 1 .. LastDay
        /\ subject[r] \in SubjectRow /\ subject[r].last < d /\ subject[r].sent < R!maxReminders
        /\ letters[r] \in [1 .. LastDay -> Nat] /\ Counted(subject[r], letters[r])
    BY <1>6, DaysPositive DEF R!Claim, R!Claims, RemindersInv, RunFits
  <2>2. /\ subject' = [subject EXCEPT ![r].sent = @ + 1, ![r].last = d]
        /\ letters' = [letters EXCEPT ![r][d] = @ + 1]
        /\ chaser' = [chaser EXCEPT ![w] = R!NoRun] /\ today' = today
    BY <1>6 DEF R!Claim
  <2> HIDE DEF r, d
  <2>3. row \in SubjectRow /\ row.sent = subject[r].sent + 1 /\ row.last = d
    <3>1. d \in 0 .. LastDay /\ subject[r].sent + 1 \in Nat
      BY <2>1, DaysPositive DEF SubjectRow
    <3> QED
      BY <2>1, <3>1 DEF SubjectRow
  <2>4. subject' = [subject EXCEPT ![r] = row]
    BY <2>1, <2>2 DEF RemindersInv
  <2> HIDE DEF row
  <2>5. Counted(row, [letters[r] EXCEPT ![d] = @ + 1])
    BY <2>1, <2>3, LetterWritten
  <2>6. /\ subject' \in [Subjects -> SubjectRow] /\ subject'[r] = row
        /\ \A x \in Subjects \ {r} : subject'[x] = subject[x]
    BY <2>1, <2>3, <2>4 DEF RemindersInv
  <2>7. /\ letters' \in [Subjects -> [1 .. LastDay -> Nat]]
        /\ letters'[r] = [letters[r] EXCEPT ![d] = @ + 1]
        /\ \A x \in Subjects \ {r} : letters'[x] = letters[x]
    BY <2>1, <2>2 DEF RemindersInv
  <2>8. \A x \in Subjects : Counted(subject'[x], letters'[x])
    BY <2>5, <2>6, <2>7 DEF RemindersInv
  <2>9. ASSUME NEW x \in Sessions
        PROVE  RunFits(chaser[x])'
    <3>1. CASE x = w
      BY <2>2, <3>1 DEF RunFits, RemindersInv
    <3>2. CASE x # w
      <4>1. chaser'[x] = chaser[x] /\ RunFits(chaser[x])
        BY <2>2, <3>2 DEF RemindersInv
      <4>2. CASE chaser[x].r = r
        BY <2>1, <2>2, <2>3, <2>6, <4>1, <4>2 DEF RunFits, SubjectRow
      <4>3. CASE chaser[x].r # r
        BY <2>2, <2>6, <4>1, <4>3 DEF RunFits
      <4> QED
        BY <4>2, <4>3
    <3> QED
      BY <3>1, <3>2
  <2> QED
    BY <2>2, <2>6, <2>7, <2>8, <2>9 DEF RemindersInv
<1>7. ASSUME NEW r \in Subjects, R!Closes(r) \/ R!Reopens(r) \/ R!Silence(r) \/ R!Approaches(r)
      PROVE  RemindersInv'
  <2>1. subject[r] \in SubjectRow
    BY DEF RemindersInv
  <2>2. PICK row \in SubjectRow :
          /\ row.sent = subject[r].sent /\ row.last = subject[r].last
          /\ subject' = [subject EXCEPT ![r] = row]
    <3>1. CASE R!Closes(r)
      <4> DEFINE row == [subject[r] EXCEPT !.open = FALSE]
      <4>1. row \in SubjectRow /\ row.sent = subject[r].sent /\ row.last = subject[r].last
        BY <2>1 DEF SubjectRow
      <4>2. subject' = [subject EXCEPT ![r] = row]
        BY <3>1 DEF R!Closes, RemindersInv
      <4> QED
        BY <4>1, <4>2
    <3>2. CASE R!Reopens(r)
      <4> DEFINE row == [subject[r] EXCEPT !.open = TRUE, !.deadline = "ahead"]
      <4>1. row \in SubjectRow /\ row.sent = subject[r].sent /\ row.last = subject[r].last
        BY <2>1 DEF SubjectRow
      <4>2. subject' = [subject EXCEPT ![r] = row]
        BY <3>2 DEF R!Reopens, RemindersInv
      <4> QED
        BY <4>1, <4>2
    <3>3. CASE R!Silence(r)
      BY <2>1, <3>3 DEF R!Silence, RemindersInv
    <3>4. CASE R!Approaches(r)
      <4> DEFINE row == [subject[r] EXCEPT !.deadline = IF @ = "ahead" THEN "near" ELSE "past"]
      <4>1. row \in SubjectRow /\ row.sent = subject[r].sent /\ row.last = subject[r].last
        BY <2>1 DEF SubjectRow
      <4>2. subject' = [subject EXCEPT ![r] = row]
        BY <3>4 DEF R!Approaches, RemindersInv
      <4> QED
        BY <4>1, <4>2
    <3> QED
      BY <1>7, <3>1, <3>2, <3>3, <3>4
  <2>3. UNCHANGED <<today, letters, chaser>>
    BY <1>7 DEF R!Closes, R!Reopens, R!Silence, R!Approaches
  <2> QED
    BY <1>2, <2>2, <2>3
<1>8. ASSUME R!DayPasses
      PROVE  RemindersInv'
  <2>1. today' = today + 1 /\ today' \in 1 .. LastDay /\ UNCHANGED <<subject, letters, chaser>>
    BY <1>8, DaysPositive DEF R!DayPasses, RemindersInv
  <2>2. \A w \in Sessions : RunFits(chaser[w])'
    BY <2>1, DaysPositive DEF RemindersInv, RunFits
  <2> QED
    BY <2>1, <2>2 DEF RemindersInv
<1> QED
  BY <1>3, <1>4, <1>5, <1>6, <1>7, <1>8 DEF R!Next

LEMMA RemindersKept == ASSUME RemindersInv PROVE R!RemindersHold
<1>1. ASSUME NEW r \in Subjects
      PROVE  R!Cardinality(R!Reminded(r)) = subject[r].sent
  BY <1>1, SameCardR DEF RemindersInv, Counted, R!Reminded
<1> QED
  BY <1>1 DEF RemindersInv, Counted, R!RemindersHold

-----------------------------------------------------------------------------
(***************************************************************************)
(* Outreach.  A request only works on a batch that may be dispatched, and  *)
(* who was sent or skipped stays so; the counts follow the rows.           *)
(***************************************************************************)

DispatchRow ==
  [at : {"idle", "loop", "record", "finalise"}, todo : SUBSET Recipients,
   on : SUBSET Recipients, permanent : BOOLEAN, sent : Nat, failed : Nat]

SentOf(items) == {r \in DOMAIN items : items[r] = "SENT"}

BatchTyped ==
  /\ status \in O!BatchStatus
  /\ createdBy \in Operators \cup {Nobody} /\ approvedBy \in Operators \cup {Nobody}
  /\ DOMAIN item \in SUBSET Recipients /\ item \in [DOMAIN item -> O!DispatchState]
  /\ invited \in [Recipients -> Nat] /\ reported \in Nat
  /\ events \in [complete : Nat, partial : Nat]

\* The history agrees with the rows.
Tallied ==
  /\ \A r \in Recipients : invited[r] = IF r \in SentOf(item) THEN 1 ELSE 0
  /\ reported = Cardinality(SentOf(item))

\* Only a batch that somebody else approved has sent anything.
Approved ==
  /\ status = "NONE" => DOMAIN item = {}
  /\ status \notin O!DISPATCHABLE_STATUSES => SentOf(item) = {}
  /\ status \in O!DISPATCHABLE_STATUSES =>
       /\ approvedBy # Nobody
       /\ O!Cardinality(DOMAIN item) > SELF_APPROVAL_LIMIT => approvedBy # createdBy

\* The events agree with the status, which moves one way.
Told ==
  /\ status = "DISPATCHED" => O!Retryable = {}
  /\ events.complete = IF status = "DISPATCHED" THEN 1 ELSE 0
  /\ events.partial <= 1
  /\ status \notin {"PARTIALLY_DISPATCHED", "DISPATCHED"} => events.partial = 0

Working(row) ==
  /\ row.todo \subseteq DOMAIN item /\ row.on \subseteq DOMAIN item
  /\ row.at # "idle" => status \in O!DISPATCHABLE_STATUSES

RequestsInv ==
  /\ request \in [Sessions -> DispatchRow]
  /\ \A q \in Sessions : Working(request[q])

OutreachInv == BatchTyped /\ Tallied /\ Approved /\ Told /\ RequestsInv

LEMMA SameCardO == ASSUME NEW X PROVE O!Cardinality(X) = Cardinality(X)
BY Zenon DEF O!Cardinality, Cardinality

LEMMA Lists ==
  /\ IsFiniteSet(Recipients) /\ SELF_APPROVAL_LIMIT \in Nat /\ Nobody \notin Operators
  /\ \A U \in SUBSET Recipients : IsFiniteSet(U) /\ Cardinality(U) \in Nat
  /\ \A U \in SUBSET Recipients : O!Cardinality(U) = 0 <=> U = {}
<1>1. O!IsFiniteSet(Recipients) /\ SELF_APPROVAL_LIMIT \in Nat /\ Nobody \notin Operators
  BY RecruitmentAssumption DEF O!OutreachAssumption
<1>2. IsFiniteSet(Recipients)
  BY <1>1 DEF O!IsFiniteSet, IsFiniteSet
<1>3. \A U \in SUBSET Recipients : IsFiniteSet(U) /\ Cardinality(U) \in Nat
  BY <1>2, FS_Subset, FS_CardinalityType
<1>4. \A U \in SUBSET Recipients : Cardinality(U) = 0 <=> U = {}
  BY <1>3, FS_EmptySet
<1> QED
  BY <1>1, <1>2, <1>3, <1>4, SameCardO

LEMMA IdleRequest == O!Idle \in DispatchRow /\ O!Idle.at = "idle" /\ O!Idle.todo = {} /\ O!Idle.on = {}
BY DEF O!Idle, DispatchRow

\* Nothing is left to do when nothing is pending or failed.
LEMMA TargetMeans ==
  ASSUME BatchTyped, NEW q
  PROVE  O!Target(q) = IF O!Retryable = {} THEN "DISPATCHED" ELSE "PARTIALLY_DISPATCHED"
<1> DEFINE Pending == {r \in DOMAIN item : item[r] = "PENDING"}
           Failed == {r \in DOMAIN item : item[r] = "FAILED"}
<1>1. Pending \in SUBSET Recipients /\ Failed \in SUBSET Recipients
  BY DEF BatchTyped
<1>2. (O!Cardinality(Pending) = 0 <=> Pending = {}) /\ (O!Cardinality(Failed) = 0 <=> Failed = {})
  BY <1>1, Lists
<1>3. O!Retryable = {} <=> Pending = {} /\ Failed = {}
  BY DEF O!Retryable, O!Items
<1>4. O!Total("PENDING") = O!Cardinality(Pending) /\ O!Total("FAILED") = O!Cardinality(Failed)
  BY DEF O!Total, O!Items
<1> HIDE DEF Pending, Failed
<1> QED
  BY <1>2, <1>3, <1>4 DEF O!Target

LEMMA OutreachInit == ASSUME O!Init PROVE OutreachInv
<1>1. DOMAIN item = {} /\ SentOf(item) = {} /\ O!Retryable = {}
  BY DEF O!Init, SentOf, O!Retryable, O!Items
<1>2. BatchTyped
  BY <1>1 DEF O!Init, BatchTyped, O!BatchStatus
<1>3. Tallied
  BY <1>1, FS_EmptySet DEF O!Init, Tallied
<1>4. Approved /\ Told
  BY <1>1 DEF O!Init, Approved, Told, O!DISPATCHABLE_STATUSES
<1>5. RequestsInv
  BY IdleRequest DEF O!Init, RequestsInv, Working
<1> QED
  BY <1>2, <1>3, <1>4, <1>5 DEF OutreachInv

\* Nothing of the batch moves but a request.
LEMMA RequestMoves ==
  ASSUME OutreachInv, NEW q \in Sessions, NEW row \in DispatchRow, Working(row), O!Goes(q, row),
         UNCHANGED <<status, createdBy, approvedBy, item, invited, reported, events>>
  PROVE  OutreachInv'
<1>1. /\ request' \in [Sessions -> DispatchRow] /\ request'[q] = row
      /\ \A x \in Sessions \ {q} : request'[x] = request[x]
  BY DEF OutreachInv, RequestsInv, O!Goes
<1>2. RequestsInv'
  BY <1>1 DEF OutreachInv, RequestsInv, Working
<1>3. BatchTyped' /\ Tallied' /\ Approved' /\ Told'
  BY DEF OutreachInv, BatchTyped, Tallied, Approved, Told, O!Retryable, O!Items
<1> QED
  BY <1>2, <1>3 DEF OutreachInv

\* One recipient that was outstanding gets a new state, and the list, its
\* approval and the events stay.
LEMMA ItemMoves ==
  ASSUME OutreachInv, NEW q \in Sessions, NEW row \in DispatchRow, Working(row), O!Goes(q, row),
         status \in O!DISPATCHABLE_STATUSES,
         NEW r \in DOMAIN item, item[r] \in {"PENDING", "FAILED"},
         NEW to \in O!DispatchState, item' = [item EXCEPT ![r] = to],
         IF to = "SENT"
           THEN invited' = [invited EXCEPT ![r] = @ + 1] /\ reported' = reported + 1
           ELSE UNCHANGED <<invited, reported>>,
         UNCHANGED <<status, createdBy, approvedBy, events>>
  PROVE  OutreachInv'
<1>1. /\ DOMAIN item' = DOMAIN item /\ item' \in [DOMAIN item' -> O!DispatchState]
      /\ item'[r] = to /\ \A x \in DOMAIN item \ {r} : item'[x] = item[x]
      /\ r \in Recipients /\ DOMAIN item \in SUBSET Recipients
  BY DEF OutreachInv, BatchTyped
<1>2. r \notin SentOf(item) /\ SentOf(item') = IF to = "SENT" THEN SentOf(item) \cup {r} ELSE SentOf(item)
  BY <1>1 DEF SentOf
<1>3. BatchTyped'
  BY <1>1 DEF OutreachInv, BatchTyped
<1>4. Tallied'
  <2>1. CASE to = "SENT"
    <3>1. \A x \in Recipients : invited'[x] = IF x \in SentOf(item') THEN 1 ELSE 0
      <4>1. /\ invited' = [invited EXCEPT ![r] = invited[r] + 1] /\ invited \in [Recipients -> Nat]
            /\ invited[r] = 0
        BY <1>1, <1>2, <2>1 DEF OutreachInv, BatchTyped, Tallied
      <4>2. invited'[r] = 1 /\ \A x \in Recipients \ {r} : invited'[x] = invited[x]
        BY <1>1, <4>1
      <4>3. \A x \in Recipients : invited[x] = IF x \in SentOf(item) THEN 1 ELSE 0
        BY DEF OutreachInv, Tallied
      <4> QED
        BY <1>2, <2>1, <4>2, <4>3
    <3>2. SentOf(item) \in SUBSET Recipients
      BY <1>1 DEF SentOf
    <3>3. Cardinality(SentOf(item) \cup {r}) = Cardinality(SentOf(item)) + 1
      BY <1>2, <3>2, Lists, FS_AddElement
    <3> QED
      BY <1>2, <2>1, <3>1, <3>3 DEF OutreachInv, Tallied
  <2>2. CASE to # "SENT"
    BY <1>2, <2>2 DEF OutreachInv, Tallied
  <2> QED
    BY <2>1, <2>2
<1>5. Approved'
  BY <1>1 DEF OutreachInv, Approved
<1>6. Told'
  <2>1. status # "DISPATCHED"
    BY DEF OutreachInv, Told, O!Retryable, O!Items
  <2> QED
    BY <2>1 DEF OutreachInv, Told
<1>7. RequestsInv'
  <2>1. /\ request' \in [Sessions -> DispatchRow] /\ request'[q] = row
        /\ \A x \in Sessions \ {q} : request'[x] = request[x]
    BY DEF OutreachInv, RequestsInv, O!Goes
  <2> QED
    BY <1>1, <2>1 DEF OutreachInv, RequestsInv, Working
<1> QED
  BY <1>3, <1>4, <1>5, <1>6, <1>7 DEF OutreachInv

LEMMA ListStep ==
  ASSUME OutreachInv,
         \/ \E o \in Operators, list \in SUBSET Recipients : O!CreateBatch(o, list)
         \/ O!BuildReplacementBatch(Nobody)
         \/ O!SubmitBatchForApproval
         \/ \E o \in Operators, approve \in BOOLEAN : O!DecideBatch(o, approve)
  PROVE  OutreachInv'
<1>1. ASSUME NEW o \in Operators \cup {Nobody}, NEW list \in SUBSET Recipients, O!CreateBatch(o, list)
      PROVE  OutreachInv'
  <2>1. /\ status = "NONE" /\ status' = "DRAFT" /\ createdBy' = o /\ item' = [r \in list |-> "PENDING"]
        /\ UNCHANGED <<approvedBy, request, invited, reported, events>>
    BY <1>1 DEF O!CreateBatch, O!historyVars
  <2>2. DOMAIN item = {} /\ SentOf(item) = {} /\ SentOf(item') = {} /\ DOMAIN item' = list
    BY <2>1 DEF OutreachInv, Approved, SentOf
  <2>3. BatchTyped'
    BY <2>1, <2>2 DEF OutreachInv, BatchTyped, O!BatchStatus, O!DispatchState
  <2>4. Tallied' /\ Approved'
    BY <2>1, <2>2 DEF OutreachInv, Tallied, Approved, O!DISPATCHABLE_STATUSES
  <2>5. Told'
    BY <2>1 DEF OutreachInv, Told
  <2>6. RequestsInv'
    <3>1. \A q \in Sessions : request[q].todo = {} /\ request[q].on = {} /\ request[q].at = "idle"
      BY <2>1, <2>2 DEF OutreachInv, RequestsInv, Working, O!DISPATCHABLE_STATUSES
    <3> QED
      BY <2>1, <3>1 DEF OutreachInv, RequestsInv, Working
  <2> QED
    BY <2>3, <2>4, <2>5, <2>6 DEF OutreachInv
<1>2. ASSUME O!SubmitBatchForApproval
      PROVE  OutreachInv'
  <2>1. /\ status = "DRAFT" /\ status' = "PENDING_APPROVAL"
        /\ UNCHANGED <<createdBy, approvedBy, item, request, invited, reported, events>>
    BY <1>2 DEF O!SubmitBatchForApproval, O!BATCH_TRANSITIONS, O!historyVars, OutreachInv, BatchTyped,
       O!BatchStatus
  <2> QED
    BY <2>1 DEF OutreachInv, BatchTyped, O!BatchStatus, Tallied, Approved, Told, RequestsInv, Working,
       O!DISPATCHABLE_STATUSES
<1>3. ASSUME NEW o \in Operators, NEW approve \in BOOLEAN, O!DecideBatch(o, approve)
      PROVE  OutreachInv'
  <2> DEFINE target == IF approve THEN "APPROVED" ELSE "REJECTED"
  <2>1. /\ status = "PENDING_APPROVAL" /\ status' = target
        /\ approvedBy' = IF target = "APPROVED" THEN o ELSE approvedBy
        /\ UNCHANGED <<createdBy, item, request, invited, reported, events>>
    BY <1>3 DEF O!DecideBatch, O!Decides, O!BATCH_TRANSITIONS, O!historyVars, OutreachInv, BatchTyped,
       O!BatchStatus
  <2>2. approve => ~(createdBy # Nobody /\ createdBy = o /\ O!Cardinality(DOMAIN item) > SELF_APPROVAL_LIMIT)
    BY <1>3 DEF O!DecideBatch, O!Items
  <2>3. BatchTyped' /\ Tallied' /\ Told' /\ RequestsInv'
    BY <2>1 DEF OutreachInv, BatchTyped, O!BatchStatus, Tallied, Told, RequestsInv, Working,
       O!DISPATCHABLE_STATUSES
  <2>4. Approved'
    BY <2>1, <2>2, Lists DEF OutreachInv, Approved, O!DISPATCHABLE_STATUSES
  <2> QED
    BY <2>3, <2>4 DEF OutreachInv
<1>4. ASSUME O!BuildReplacementBatch(Nobody)
      PROVE  OutreachInv'
  BY <1>1, <1>4 DEF O!BuildReplacementBatch
<1> QED
  BY <1>1, <1>2, <1>3, <1>4

LEMMA DispatchOneStep ==
  ASSUME OutreachInv, NEW q \in Sessions, O!DispatchOne(q)
  PROVE  OutreachInv'
<1>1. PICK r \in request[q].todo : O!Sends(q, r) \/ O!FindsTaken(q, r) \/ O!RollsBack(q, r)
  BY DEF O!DispatchOne
<1>2. /\ request[q].at = "loop" /\ UNCHANGED <<status, createdBy, approvedBy>>
      /\ request[q] \in DispatchRow /\ Working(request[q]) /\ r \in DOMAIN item
      /\ status \in O!DISPATCHABLE_STATUSES /\ DOMAIN item \in SUBSET Recipients
  BY DEF O!DispatchOne, OutreachInv, RequestsInv, Working, BatchTyped
<1>3. CASE O!Sends(q, r)
  <2> DEFINE row == [request[q] EXCEPT !.todo = @ \ {r}, !.sent = @ + 1]
  <2>1. row \in DispatchRow /\ Working(row)
    <3>1. request[q].todo \ {r} \in SUBSET Recipients /\ request[q].sent + 1 \in Nat
      BY <1>2 DEF DispatchRow
    <3>2. row \in DispatchRow
      BY <1>2, <3>1 DEF DispatchRow
    <3>3. Working(row)
      BY <1>2 DEF DispatchRow, Working
    <3> QED
      BY <3>2, <3>3
  <2>2. /\ item[r] \in {"PENDING", "FAILED"} /\ O!Goes(q, row) /\ item' = [item EXCEPT ![r] = "SENT"]
        /\ invited' = [invited EXCEPT ![r] = @ + 1] /\ reported' = reported + 1 /\ events' = events
    BY <1>3 DEF O!Sends, O!Claimed
  <2>3. "SENT" \in O!DispatchState
    BY DEF O!DispatchState
  <2> HIDE DEF row
  <2> QED
    BY <1>2, <2>1, <2>2, <2>3, ItemMoves
<1>4. CASE O!FindsTaken(q, r)
  <2> DEFINE row == [request[q] EXCEPT !.todo = @ \ {r}]
  <2>1. row \in DispatchRow /\ Working(row)
    BY <1>2 DEF DispatchRow, Working
  <2>2. O!Goes(q, row) /\ UNCHANGED <<item, invited, reported, events>>
    BY <1>4 DEF O!FindsTaken, O!historyVars
  <2> HIDE DEF row
  <2> QED
    BY <1>2, <2>1, <2>2, RequestMoves
<1>5. CASE O!RollsBack(q, r)
  <2>1. PICK refused \in BOOLEAN :
          O!Goes(q, [request[q] EXCEPT !.at = "record", !.todo = @ \ {r}, !.on = {r}, !.permanent = refused])
    BY <1>5 DEF O!RollsBack
  <2> DEFINE row == [request[q] EXCEPT !.at = "record", !.todo = @ \ {r}, !.on = {r}, !.permanent = refused]
  <2>2. row \in DispatchRow
    <3>1. {r} \in SUBSET Recipients /\ request[q].todo \ {r} \in SUBSET Recipients
      BY <1>2 DEF DispatchRow
    <3> QED
      BY <1>2, <3>1 DEF DispatchRow
  <2>3. Working(row)
    BY <1>2 DEF DispatchRow, Working
  <2>4. O!Goes(q, row) /\ UNCHANGED <<item, invited, reported, events>>
    BY <1>5, <2>1 DEF O!RollsBack, O!historyVars
  <2> HIDE DEF row
  <2> QED
    BY <1>2, <2>2, <2>3, <2>4, RequestMoves
<1> QED
  BY <1>1, <1>3, <1>4, <1>5

LEMMA RecordStep ==
  ASSUME OutreachInv, NEW q \in Sessions, O!RecordDispatchFailure(q)
  PROVE  OutreachInv'
<1> DEFINE settled(r) == item[r] \in {"SENT", "SKIPPED"}
           verdict == IF request[q].permanent THEN "SKIPPED" ELSE "FAILED"
           row(r) == [request[q] EXCEPT !.at = "loop", !.on = {},
                        !.failed = IF settled(r) \/ request[q].permanent THEN @ ELSE @ + 1]
<1>1. PICK r \in request[q].on :
        /\ item' = IF settled(r) THEN item ELSE [item EXCEPT ![r] = verdict]
        /\ O!Goes(q, row(r))
  BY DEF O!RecordDispatchFailure
<1>2. /\ request[q].at = "record" /\ request[q] \in DispatchRow /\ Working(request[q]) /\ r \in DOMAIN item
      /\ UNCHANGED <<status, createdBy, approvedBy, invited, reported, events>>
      /\ status \in O!DISPATCHABLE_STATUSES /\ item \in [DOMAIN item -> O!DispatchState]
  BY DEF O!RecordDispatchFailure, O!historyVars, OutreachInv, RequestsInv, Working, BatchTyped
<1>3. row(r) \in DispatchRow /\ Working(row(r))
  <2>1. /\ {} \in SUBSET Recipients
        /\ (IF settled(r) \/ request[q].permanent THEN request[q].failed ELSE request[q].failed + 1) \in Nat
    BY <1>2 DEF DispatchRow
  <2> HIDE DEF settled
  <2>2. row(r) \in DispatchRow
    BY <1>2, <2>1 DEF DispatchRow
  <2>3. Working(row(r))
    BY <1>2 DEF DispatchRow, Working
  <2> QED
    BY <2>2, <2>3
<1>4. CASE settled(r)
  <2>1. item' = item
    BY <1>1, <1>4
  <2> HIDE DEF row
  <2> QED
    BY <1>1, <1>2, <1>3, <2>1, RequestMoves
<1>5. CASE ~settled(r)
  <2>1. item[r] \in {"PENDING", "FAILED"} /\ item' = [item EXCEPT ![r] = verdict]
    BY <1>1, <1>2, <1>5 DEF O!DispatchState
  <2>2. verdict \in O!DispatchState /\ verdict # "SENT"
    BY DEF O!DispatchState
  <2> HIDE DEF row, verdict
  <2> QED
    BY <1>1, <1>2, <1>3, <2>1, <2>2, ItemMoves
<1> QED
  BY <1>4, <1>5

LEMMA FinaliseStep ==
  ASSUME OutreachInv, NEW q \in Sessions, O!FinaliseBatch(q)
  PROVE  OutreachInv'
<1>1. /\ O!Goes(q, O!Idle) /\ UNCHANGED <<createdBy, approvedBy, item, invited, reported>>
      /\ status \in O!DISPATCHABLE_STATUSES
  BY DEF O!FinaliseBatch, OutreachInv, RequestsInv, Working
<1>2. Working(O!Idle)
  BY IdleRequest DEF Working
<1>3. CASE UNCHANGED <<status, events>>
  BY <1>1, <1>2, <1>3, IdleRequest, RequestMoves
<1>4. CASE ~(UNCHANGED <<status, events>>)
  <2>1. /\ status # O!Target(q) /\ status' = O!Target(q)
        /\ events' = IF O!Target(q) = "DISPATCHED" THEN [events EXCEPT !.complete = @ + 1]
                     ELSE [events EXCEPT !.partial = @ + 1]
    BY <1>4 DEF O!FinaliseBatch, O!Finalises
  <2>2. O!Target(q) = IF O!Retryable = {} THEN "DISPATCHED" ELSE "PARTIALLY_DISPATCHED"
    BY TargetMeans DEF OutreachInv
  <2>3. status \in {"APPROVED", "PARTIALLY_DISPATCHED"}
    BY <1>1, <2>1, <2>2 DEF OutreachInv, Told, O!DISPATCHABLE_STATUSES
  <2>4. status' \in {"DISPATCHED", "PARTIALLY_DISPATCHED"} /\ O!Retryable' = O!Retryable
    BY <1>1, <2>1, <2>2 DEF O!Retryable, O!Items
  <2>5. events \in [complete : Nat, partial : Nat]
    BY DEF OutreachInv, BatchTyped
  <2>6. BatchTyped'
    <3>1. events' \in [complete : Nat, partial : Nat]
      BY <2>1, <2>5
    <3> QED
      BY <1>1, <2>4, <3>1 DEF OutreachInv, BatchTyped, O!BatchStatus
  <2>7. Tallied' /\ Approved'
    BY <1>1, <2>4 DEF OutreachInv, Tallied, Approved, O!DISPATCHABLE_STATUSES
  <2>8. Told'
    <3>1. CASE O!Retryable = {}
      BY <2>1, <2>2, <2>3, <2>4, <2>5, <3>1 DEF OutreachInv, Told
    <3>2. CASE O!Retryable # {}
      BY <2>1, <2>2, <2>3, <2>4, <2>5, <3>2 DEF OutreachInv, Told
    <3> QED
      BY <3>1, <3>2
  <2>9. RequestsInv'
    <3>1. /\ request' \in [Sessions -> DispatchRow] /\ request'[q] = O!Idle
          /\ \A x \in Sessions \ {q} : request'[x] = request[x]
      BY <1>1, IdleRequest DEF OutreachInv, RequestsInv, O!Goes
    <3>2. status' \in O!DISPATCHABLE_STATUSES
      BY <2>4 DEF O!DISPATCHABLE_STATUSES
    <3> QED
      BY <1>1, <3>1, <3>2, IdleRequest DEF OutreachInv, RequestsInv, Working
  <2> QED
    BY <2>6, <2>7, <2>8, <2>9 DEF OutreachInv
<1> QED
  BY <1>3, <1>4

LEMMA OutreachStep == ASSUME OutreachInv, [O!Next]_(O!vars) PROVE OutreachInv'
<1>1. CASE UNCHANGED <<status, createdBy, approvedBy, item, request, invited, reported, events>>
  BY <1>1 DEF OutreachInv, BatchTyped, Tallied, Approved, Told, RequestsInv, Working, O!Retryable, O!Items
<1>2. CASE UNCHANGED O!vars
  BY <1>1, <1>2 DEF O!vars, O!batchVars, O!historyVars
<1>3. ASSUME NEW q \in Sessions, O!DispatchBatch(q)
      PROVE  OutreachInv'
  <2> DEFINE row == [O!Idle EXCEPT !.at = "loop", !.todo = O!Retryable]
  <2>1. /\ O!Goes(q, row) /\ status \in O!DISPATCHABLE_STATUSES
        /\ UNCHANGED <<status, createdBy, approvedBy, item, invited, reported, events>>
    BY <1>3 DEF O!DispatchBatch, O!batchVars, O!historyVars
  <2>2. row \in DispatchRow /\ Working(row)
    BY <2>1 DEF O!Idle, DispatchRow, Working, O!Retryable, O!Items, OutreachInv, BatchTyped
  <2> HIDE DEF row
  <2> QED
    BY <2>1, <2>2, RequestMoves
<1>4. ASSUME NEW q \in Sessions, O!RecipientsDone(q)
      PROVE  OutreachInv'
  <2> DEFINE row == [request[q] EXCEPT !.at = "finalise"]
  <2>1. /\ O!Goes(q, row) /\ request[q].at = "loop"
        /\ UNCHANGED <<status, createdBy, approvedBy, item, invited, reported, events>>
    BY <1>4 DEF O!RecipientsDone, O!batchVars, O!historyVars
  <2>2. row \in DispatchRow /\ Working(row)
    BY <2>1 DEF DispatchRow, Working, OutreachInv, RequestsInv
  <2> HIDE DEF row
  <2> QED
    BY <2>1, <2>2, RequestMoves
<1>5. ASSUME NEW q \in Sessions, O!Crash(q)
      PROVE  OutreachInv'
  <2>1. Working(O!Idle)
    BY IdleRequest DEF Working
  <2> QED
    BY <1>5, <2>1, IdleRequest, RequestMoves DEF O!Crash, O!batchVars, O!historyVars
<1>6. CASE (\E r \in Recipients : O!InvitationElsewhere(r)) \/ O!ProjectElsewhere
  BY <1>1, <1>6 DEF O!InvitationElsewhere, O!ProjectElsewhere, O!batchVars, O!historyVars
<1> QED
  BY <1>2, <1>3, <1>4, <1>5, <1>6, ListStep, DispatchOneStep, RecordStep, FinaliseStep DEF O!Next

LEMMA OutreachHonest == ASSUME OutreachInv PROVE O!BatchHonest
<1>1. O!SentIsInvited
  BY DEF OutreachInv, BatchTyped, Tallied, SentOf, O!SentIsInvited, O!Items
<1>2. O!CountsHonest
  <2>1. O!Total("SENT") = O!Cardinality(SentOf(item))
    BY DEF O!Total, O!Items, SentOf
  <2> QED
    BY <2>1, SameCardO DEF OutreachInv, Tallied, O!CountsHonest
<1>3. O!DispatchedIsSettled
  BY DEF OutreachInv, Told, O!DispatchedIsSettled
<1>4. O!FinaliseNotRefused
  <2>1. ASSUME NEW q \in Sessions, request[q].at = "finalise"
        PROVE  status = O!Target(q) \/ O!Target(q) \in O!BATCH_TRANSITIONS[status]
    <3>1. O!Target(q) = IF O!Retryable = {} THEN "DISPATCHED" ELSE "PARTIALLY_DISPATCHED"
      BY TargetMeans DEF OutreachInv
    <3>2. status \in O!DISPATCHABLE_STATUSES /\ (status = "DISPATCHED" => O!Retryable = {})
      BY <2>1 DEF OutreachInv, RequestsInv, Working, Told
    <3> QED
      BY <3>1, <3>2 DEF O!DISPATCHABLE_STATUSES, O!BATCH_TRANSITIONS
  <2> QED
    BY <2>1 DEF O!FinaliseNotRefused
<1>5. O!HistoryMatches
  BY DEF OutreachInv, Told, O!HistoryMatches
<1>6. O!ApprovedByAnother
  BY DEF OutreachInv, Approved, SentOf, O!ApprovedByAnother, O!Items
<1> QED
  BY <1>1, <1>2, <1>3, <1>4, <1>5, <1>6 DEF O!BatchHonest
-----------------------------------------------------------------------------
(***************************************************************************)
(* Onboarding.  While a call is under way the case stays where the call    *)
(* can go on from it, because the calls that would move it away do not     *)
(* overlap; a status that does not follow the case yet has a call that     *)
(* will make it follow.                                                    *)
(***************************************************************************)

CaseRow == [status : B!OnboardingStatus, nudgedAt : 0 .. MaxDays]
VisitRow ==
  [at : {"idle", "expert", "case", "item", "claim", "enqueue"}, does : B!Kinds \cup {"none"},
   expert : B!ExpertStatus \cup {"none"}, case : CaseRow, day : 0 .. MaxDays]

BeingFilled == {"NOT_STARTED", "IN_PROGRESS", "REJECTED"}

StartFits(v) ==
  /\ v.at \in {"expert", "case"} /\ case.status # "NONE"
  /\ v.case.status \in B!Reopens => case.status \in BeingFilled
  /\ v.case.status = "IN_PROGRESS" => case.status = "IN_PROGRESS"
  /\ ~astray /\ v.at = "expert" => v.case.status \in B!Reopens \cup {"IN_PROGRESS"}
  /\ ~astray /\ v.at = "case" /\ v.case.status \in B!Reopens => expert = "ONBOARDING"

SaveFits(v) ==
  /\ v.at \in {"case", "expert", "item"} /\ case.status \in BeingFilled
  /\ v.at # "case" => case.status = "IN_PROGRESS"
  /\ ~astray /\ v.at = "case" =>
       \/ v.expert = "PROSPECT"
       \/ v.expert = "REJECTED" /\ expert \in {"REJECTED", "ONBOARDING"}
       \/ v.expert = "ONBOARDING" /\ expert = "ONBOARDING"

SubmitFits(v) ==
  \/ /\ v.at = "case" /\ checklist /\ case.status = "IN_PROGRESS"
     /\ ~astray => v.expert = "ONBOARDING" /\ expert = "ONBOARDING"
  \/ v.at = "expert" /\ case.status \in {"SUBMITTED", "VERIFIED", "REJECTED"}

DecideFits(v, verdict) ==
  v.at \in {"claim", "expert", "enqueue"} /\ (v.at # "claim" => case.status = verdict)

NudgeFits(v) == v.at = "claim" /\ v.case.nudgedAt < v.day

VisitFits(v) ==
  /\ v.does = "none" <=> v.at = "idle"
  /\ v.does = "start" => StartFits(v)
  /\ v.does = "save" => SaveFits(v)
  /\ v.does = "submit" => SubmitFits(v)
  /\ v.does = "approve" => DecideFits(v, "VERIFIED")
  /\ v.does = "return" => DecideFits(v, "REJECTED")
  /\ v.does = "nudge" => NudgeFits(v)

\* The calls that never overlap.
Clash(c, d) ==
  \/ {c, d} = {"start", "return"} \/ {c, d} = {"start", "submit"}
  \/ {c, d} = {"save", "return"} \/ {c, d} = {"save", "submit"}
  \/ c = "submit" /\ d = "submit"

Apart == \A x, y \in Sessions : x # y => ~Clash(visit[x].does, visit[y].does)

Opening == \E x \in Sessions : B!Is(x, "start", "case") /\ visit[x].case.status \in B!Reopens
Seeing(does, at) == \E x \in Sessions : B!Is(x, does, at)
Following(does) ==
  /\ Seeing(does, "expert")
  /\ \/ expert = "PENDING_VERIFICATION"
     \/ expert = "ONBOARDING" /\ Seeing("submit", "expert")

\* The expert is what the case calls for, or a call under way will see to it.
ExpertFits ==
  ~astray =>
    /\ case.status = "NONE" => expert = "PROSPECT"
    /\ case.status = "NOT_STARTED" => expert = "PROSPECT" \/ (expert = "ONBOARDING" /\ Opening)
    /\ case.status = "IN_PROGRESS" =>
         expert = "ONBOARDING" \/ (expert = "REJECTED" /\ Seeing("save", "expert"))
    /\ case.status = "SUBMITTED" =>
         expert = "PENDING_VERIFICATION" \/ (expert = "ONBOARDING" /\ Seeing("submit", "expert"))
    /\ case.status = "VERIFIED" => expert = "VERIFIED" \/ Following("approve")
    /\ case.status = "REJECTED" =>
         expert = "REJECTED" \/ (expert = "ONBOARDING" /\ Opening) \/ Following("return")

\* A decision is shown, about to be, or its call is under way.
ShownFits ==
  ~astray /\ ~recheck =>
    /\ case.status = "VERIFIED" =>
         shown = "ready" \/ Seeing("approve", "expert") \/ Seeing("approve", "enqueue")
    /\ case.status = "REJECTED" =>
         shown = "blocked" \/ Seeing("return", "expert") \/ Seeing("return", "enqueue")

\* A letter was written at most once a day, on no later day than the last.
NudgesFit == \A d \in 1 .. MaxDays : nudges[d] <= 1 /\ (nudges[d] > 0 => d <= case.nudgedAt)

CaseTyped ==
  /\ expert \in B!ExpertStatus /\ case \in CaseRow /\ day \in 1 .. MaxDays
  /\ {checklist, recheck, astray} \subseteq BOOLEAN
  /\ nudges \in [1 .. MaxDays -> Nat]
  /\ visit \in [Sessions -> VisitRow]

OnboardingInv ==
  /\ CaseTyped /\ Apart /\ \A x \in Sessions : VisitFits(visit[x])
  /\ B!SubmittedComplete /\ ExpertFits /\ ShownFits /\ NudgesFit

LEMMA DaysCounted == MaxDays \in Nat /\ MaxDays >= 1
BY RecruitmentAssumption DEF B!OnboardingAssumption

LEMMA PairsApart == ASSUME NEW c, NEW d, {c, d} \in OnboardingPairs PROVE ~Clash(c, d) /\ ~Clash(d, c)
<1>1. /\ {c, d} # {"start", "return"} /\ {c, d} # {"start", "submit"} /\ {c, d} # {"save", "return"}
      /\ {c, d} # {"save", "submit"} /\ {c, d} # {"submit"}
  BY DEF OnboardingPairs
<1>2. {d, c} = {c, d}
  OBVIOUS
<1>3. c = "submit" /\ d = "submit" => {c, d} = {"submit"}
  OBVIOUS
<1> QED
  BY <1>1, <1>2, <1>3 DEF Clash

LEMMA OnboardingInit == ASSUME B!Init PROVE OnboardingInv
<1>1. \A x \in Sessions : visit[x] = B!Resting
  BY DEF B!Init
<1>2. B!Resting \in VisitRow /\ B!Resting.at = "idle" /\ B!Resting.does = "none"
  BY DaysCounted DEF B!Resting, B!NoCase, VisitRow, CaseRow, B!OnboardingStatus
<1>3. CaseTyped
  <2>1. B!NoCase \in CaseRow
    BY DaysCounted DEF B!NoCase, CaseRow, B!OnboardingStatus
  <2>2. visit \in [Sessions -> VisitRow]
    BY <1>2 DEF B!Init
  <2>3. nudges \in [1 .. MaxDays -> Nat]
    BY DEF B!Init
  <2>4. {checklist, recheck, astray} \subseteq BOOLEAN
    BY DEF B!Init
  <2> QED
    BY <2>1, <2>2, <2>3, <2>4, DaysCounted DEF B!Init, CaseTyped, B!ExpertStatus
<1>4. \A x \in Sessions : VisitFits(visit[x])
  BY <1>1, <1>2 DEF VisitFits
<1>5. Apart
  <2>1. "none" \notin {"start", "return", "save", "submit"}
    OBVIOUS
  <2>2. ~Clash("none", "none")
    BY DEF Clash
  <2> QED
    BY <1>1, <1>2, <2>2 DEF Apart
<1>6. B!SubmittedComplete /\ ExpertFits /\ ShownFits /\ NudgesFit
  BY DEF B!Init, B!NoCase, B!SubmittedComplete, ExpertFits, ShownFits, NudgesFit
<1> QED
  BY <1>3, <1>4, <1>5, <1>6 DEF OnboardingInv

\* One call moves on; the others stay where they are.
LEMMA CallMoves ==
  ASSUME CaseTyped, NEW x \in Sessions, NEW row \in VisitRow, visit' = [visit EXCEPT ![x] = row]
  PROVE  /\ visit' \in [Sessions -> VisitRow] /\ visit'[x] = row
         /\ \A y \in Sessions \ {x} : visit'[y] = visit[y]
BY DEF CaseTyped

LEMMA OthersGoOn ==
  ASSUME NEW x \in Sessions, \A y \in Sessions \ {x} : visit'[y] = visit[y]
  PROVE  /\ \A does, at : Seeing(does, at) /\ ~B!Is(x, does, at) => Seeing(does, at)'
         /\ Opening /\ ~(B!Is(x, "start", "case") /\ visit[x].case.status \in B!Reopens) => Opening'
BY DEF Seeing, Opening, B!Is

LEMMA RestingRow ==
  B!Resting \in VisitRow /\ B!Resting.at = "idle" /\ B!Resting.does = "none"
BY DaysCounted DEF B!Resting, B!NoCase, VisitRow, CaseRow, B!OnboardingStatus

\* A call that goes on as the same call, or ends, clashes with no other.
LEMMA ApartKept ==
  ASSUME Apart, NEW x \in Sessions, visit'[x].does \in {visit[x].does, "none"},
         \A y \in Sessions \ {x} : visit'[y] = visit[y]
  PROVE  Apart'
<1>1. \A c : ~Clash("none", c) /\ ~Clash(c, "none")
  BY DEF Clash
<1> QED
  BY <1>1 DEF Apart

LEMMA ClashMeans ==
  ASSUME Apart, NEW x \in Sessions, NEW y \in Sessions \ {x}
  PROVE  /\ visit[x].does = "start" => visit[y].does \notin {"return", "submit"}
         /\ visit[x].does = "save" => visit[y].does \notin {"return", "submit"}
         /\ visit[x].does = "submit" => visit[y].does \notin {"start", "save", "submit"}
         /\ visit[x].does = "return" => visit[y].does \notin {"start", "save"}
<1>1. ~Clash(visit[x].does, visit[y].does) /\ ~Clash(visit[y].does, visit[x].does)
  BY DEF Apart
<1> QED
  BY <1>1 DEF Clash

\* A call begins; at most the case is made sure of.
LEMMA CallBegins ==
  ASSUME OnboardingInv, NEW x \in Sessions, NEW row \in VisitRow, visit[x].at = "idle",
         visit' = [visit EXCEPT ![x] = row],
         \A y \in Sessions \ {x} : ~Clash(row.does, visit[y].does) /\ ~Clash(visit[y].does, row.does),
         VisitFits(row)', case' \in {case, B!Ensured},
         UNCHANGED <<expert, checklist, recheck, shown, day, astray, nudges>>
  PROVE  OnboardingInv'
<1>1. /\ visit' \in [Sessions -> VisitRow] /\ visit'[x] = row
      /\ \A y \in Sessions \ {x} : visit'[y] = visit[y]
  BY CallMoves DEF OnboardingInv
<1>2. (Opening => Opening') /\ \A does, at : Seeing(does, at) /\ at # "idle" => Seeing(does, at)'
  BY <1>1, OthersGoOn DEF B!Is
<1>3. /\ case' \in CaseRow /\ case'.nudgedAt = case.nudgedAt
      /\ case'.status = case.status \/ (case.status = "NONE" /\ case'.status = "NOT_STARTED")
  BY DEF OnboardingInv, CaseTyped, CaseRow, B!Ensured, B!OnboardingStatus
<1>4. CaseTyped'
  BY <1>1, <1>3 DEF OnboardingInv, CaseTyped
<1>5. Apart'
  BY <1>1 DEF OnboardingInv, Apart
<1>6. ASSUME NEW y \in Sessions \ {x} PROVE VisitFits(visit[y])'
  <2>1. VisitFits(visit[y]) /\ visit'[y] = visit[y]
    BY <1>1 DEF OnboardingInv
  <2> QED
    BY <1>3, <2>1 DEF VisitFits, StartFits, SaveFits, SubmitFits, DecideFits, NudgeFits, BeingFilled
<1>7. \A y \in Sessions : VisitFits(visit[y])'
  BY <1>1, <1>6
<1>8. B!SubmittedComplete' /\ NudgesFit'
  BY <1>3 DEF OnboardingInv, B!SubmittedComplete, NudgesFit
<1>9. /\ \A does : Following(does) => Following(does)'
      /\ Seeing("save", "expert") => Seeing("save", "expert")'
      /\ Seeing("submit", "expert") => Seeing("submit", "expert")'
  BY <1>2 DEF Following
<1>10. ExpertFits'
  BY <1>2, <1>3, <1>9 DEF OnboardingInv, ExpertFits
<1>11. ShownFits'
  BY <1>2, <1>3 DEF OnboardingInv, ShownFits
<1> QED
  BY <1>4, <1>5, <1>7, <1>8, <1>10, <1>11 DEF OnboardingInv

\* A call ends that had nothing to see to, or was cut short.
LEMMA CallEnds ==
  ASSUME OnboardingInv, NEW x \in Sessions, B!Finishes(x),
         UNCHANGED <<expert, case, checklist, recheck, shown, day, nudges>>,
         astray' \in BOOLEAN, astray => astray',
         \/ astray'
         \/ visit[x].at \in {"claim", "item"}
         \/ B!Is(x, "start", "case") /\ visit[x].case.status \notin B!Reopens
  PROVE  OnboardingInv'
<1>1. /\ visit' \in [Sessions -> VisitRow] /\ visit'[x] = B!Resting
      /\ \A y \in Sessions \ {x} : visit'[y] = visit[y]
  BY RestingRow, CallMoves DEF OnboardingInv, B!Finishes
<1>2. CaseTyped' /\ Apart'
  BY <1>1, RestingRow, ApartKept DEF OnboardingInv, CaseTyped
<1>3. ASSUME NEW y \in Sessions PROVE VisitFits(visit[y])'
  <2>1. CASE y = x
    BY <1>1, <2>1, RestingRow DEF VisitFits
  <2>2. CASE y # x
    <3>1. VisitFits(visit[y]) /\ visit'[y] = visit[y]
      BY <1>1, <2>2 DEF OnboardingInv
    <3> QED
      BY <3>1 DEF VisitFits, StartFits, SaveFits, SubmitFits, DecideFits, NudgeFits
  <2> QED
    BY <2>1, <2>2
<1>4. B!SubmittedComplete' /\ NudgesFit'
  BY DEF OnboardingInv, B!SubmittedComplete, NudgesFit
<1>5. ~astray' =>
        /\ (Opening => Opening')
        /\ \A does, at : Seeing(does, at) /\ at \in {"expert", "enqueue"} => Seeing(does, at)'
        /\ \A does : Following(does) => Following(does)'
  <2>1. ~astray' => (Opening => Opening')
    BY <1>1, OthersGoOn DEF B!Is
  <2>2. ~astray' => \A does, at : Seeing(does, at) /\ at \in {"expert", "enqueue"} => Seeing(does, at)'
    BY <1>1, OthersGoOn DEF B!Is
  <2> QED
    BY <2>1, <2>2 DEF Following
<1>6. ExpertFits'
  BY <1>5 DEF OnboardingInv, ExpertFits
<1>7. ShownFits'
  BY <1>5 DEF OnboardingInv, ShownFits
<1> QED
  BY <1>2, <1>3, <1>4, <1>6, <1>7 DEF OnboardingInv

LEMMA BeginsMeans ==
  ASSUME OnboardingInv, NEW x \in Sessions, NEW does \in B!Kinds,
         NEW at \in {"expert", "case", "item", "claim"}, B!Begins(x, does, at)
  PROVE  \E row \in VisitRow :
           /\ row.at = at /\ row.does = does /\ visit' = [visit EXCEPT ![x] = row]
           /\ visit[x].at = "idle"
           /\ \A y \in Sessions \ {x} : ~Clash(does, visit[y].does) /\ ~Clash(visit[y].does, does)
           /\ does \in {"start", "save", "submit"} => row.expert = expert /\ row.case.status = case.status
           /\ does = "nudge" => row.case = case /\ row.day = day
<1> DEFINE kept == B!Kept(does)
           row == [kept EXCEPT !.at = at, !.does = does]
<1>1. /\ kept \in VisitRow
      /\ does \in {"start", "save", "submit"} => kept.expert = expert /\ kept.case.status = case.status
      /\ does = "nudge" => kept.case = case /\ kept.day = day
  <2>1. /\ expert \in B!ExpertStatus \cup {"none"} /\ case \in CaseRow /\ day \in 0 .. MaxDays
        /\ [B!NoCase EXCEPT !.status = case.status] \in CaseRow
    BY DaysCounted DEF OnboardingInv, CaseTyped, CaseRow, B!NoCase
  <2>2. CASE does = "nudge"
    <3>1. kept = [B!Resting EXCEPT !.case = case, !.day = day]
      BY <2>2 DEF B!Kept
    <3> QED
      BY <2>1, <2>2, <3>1, RestingRow DEF VisitRow
  <2>3. CASE does \in {"approve", "return"}
    <3>1. kept = B!Resting
      BY <2>3 DEF B!Kept
    <3> QED
      BY <2>3, <3>1, RestingRow
  <2>4. CASE does \in {"start", "save", "submit"}
    <3>1. kept = [B!Resting EXCEPT !.expert = expert, !.case.status = case.status]
      BY <2>4 DEF B!Kept
    <3>2. kept = [at |-> "idle", does |-> "none", expert |-> expert,
                  case |-> [B!NoCase EXCEPT !.status = case.status], day |-> 0]
      BY <3>1 DEF B!Resting
    <3>3. kept.case.status = case.status /\ kept.expert = expert
      BY <3>2 DEF B!NoCase
    <3>4. kept \in VisitRow
      BY <2>1, <3>2, DaysCounted DEF VisitRow
    <3> QED
      BY <2>4, <3>3, <3>4
  <2> QED
    BY <2>2, <2>3, <2>4 DEF B!Kinds
<1>2. visit[x].at = "idle" /\ visit' = [visit EXCEPT ![x] = row]
  BY DEF B!Begins, B!Active
<1>3. ASSUME NEW y \in Sessions \ {x}
      PROVE  ~Clash(does, visit[y].does) /\ ~Clash(visit[y].does, does)
  <2>1. CASE visit[y].at = "idle"
    <3>1. visit[y].does = "none"
      BY <2>1 DEF OnboardingInv, VisitFits
    <3> QED
      BY <3>1 DEF Clash
  <2>2. CASE visit[y].at # "idle"
    BY <2>2, PairsApart DEF B!Begins, B!Active
  <2> QED
    BY <2>1, <2>2
<1> HIDE DEF kept
<1>4. /\ row \in VisitRow /\ row.at = at /\ row.does = does
      /\ row.expert = kept.expert /\ row.case = kept.case /\ row.day = kept.day
  BY <1>1 DEF VisitRow
<1> HIDE DEF row
<1> QED
  BY <1>1, <1>2, <1>3, <1>4

LEMMA StartReadStep == ASSUME OnboardingInv, NEW x \in Sessions, B!StartRead(x) PROVE OnboardingInv'
<1>1. PICK at \in {"expert", "case"} :
        /\ B!Begins(x, "start", at)
        /\ at = "expert" <=> expert \in {"PROSPECT", "REJECTED"}
  BY DEF B!StartRead
<1>2. PICK row \in VisitRow :
        /\ row.at = at /\ row.does = "start" /\ visit' = [visit EXCEPT ![x] = row]
        /\ visit[x].at = "idle"
        /\ \A y \in Sessions \ {x} : ~Clash("start", visit[y].does) /\ ~Clash(visit[y].does, "start")
        /\ row.expert = expert /\ row.case.status = case.status
  BY <1>1, BeginsMeans DEF B!Kinds
<1>3. /\ case' = B!Ensured /\ UNCHANGED <<expert, checklist, recheck, shown, day, astray, nudges>>
      /\ case \in CaseRow /\ case.status \in B!OnboardingStatus
  BY DEF B!StartRead, OnboardingInv, CaseTyped, CaseRow
<1>4. case'.status = IF case.status = "NONE" THEN "NOT_STARTED" ELSE case.status
  BY <1>3 DEF B!Ensured, CaseRow
<1>5. ~Seeing("return", "expert")
  BY <1>2 DEF Seeing, B!Is, Clash
<1>6. StartFits(row)'
  <2>1. ~astray /\ at = "expert" => case.status \in B!Reopens \cup {"IN_PROGRESS"}
    BY <1>1, <1>3 DEF OnboardingInv, ExpertFits, Following, B!Reopens, B!OnboardingStatus
  <2>2. ~astray /\ at = "case" /\ case.status \in B!Reopens => expert = "ONBOARDING"
    BY <1>1, <1>5 DEF OnboardingInv, ExpertFits, Following, B!Reopens
  <2> QED
    BY <1>2, <1>3, <1>4, <2>1, <2>2 DEF StartFits, B!Reopens, BeingFilled
<1>7. VisitFits(row)'
  BY <1>2, <1>6 DEF VisitFits
<1> QED
  BY <1>2, <1>3, <1>7, CallBegins

LEMMA SaveReadStep == ASSUME OnboardingInv, NEW x \in Sessions, B!SaveRead(x) PROVE OnboardingInv'
<1>1. PICK at \in {"case", "item"} :
        /\ B!Begins(x, "save", at)
        /\ at = "case" <=> case.status \in B!Reopens
  BY DEF B!SaveRead
<1>2. PICK row \in VisitRow :
        /\ row.at = at /\ row.does = "save" /\ visit' = [visit EXCEPT ![x] = row]
        /\ visit[x].at = "idle"
        /\ \A y \in Sessions \ {x} : ~Clash("save", visit[y].does) /\ ~Clash(visit[y].does, "save")
        /\ row.expert = expert /\ row.case.status = case.status
  BY <1>1, BeginsMeans DEF B!Kinds
<1>3. /\ UNCHANGED <<expert, case, checklist, recheck, shown, day, astray, nudges>>
      /\ case.status \in BeingFilled
  BY DEF B!SaveRead, B!Editable, B!tables, OnboardingInv, CaseTyped, CaseRow, B!OnboardingStatus, BeingFilled
<1>4. ~Seeing("return", "expert")
  BY <1>2 DEF Seeing, B!Is, Clash
<1>5. SaveFits(row)'
  <2>1. at # "case" => case.status = "IN_PROGRESS"
    BY <1>1, <1>3 DEF BeingFilled, B!Reopens
  <2>2. ~astray /\ at = "case" => expert \in {"PROSPECT", "REJECTED", "ONBOARDING"}
    BY <1>1, <1>3, <1>4 DEF OnboardingInv, ExpertFits, Following, B!Reopens, BeingFilled
  <2> QED
    BY <1>2, <1>3, <2>1, <2>2 DEF SaveFits
<1>6. VisitFits(row)'
  BY <1>2, <1>5 DEF VisitFits
<1> QED
  BY <1>2, <1>3, <1>6, CallBegins

LEMMA SubmitReadStep == ASSUME OnboardingInv, NEW x \in Sessions, B!SubmitRead(x) PROVE OnboardingInv'
<1>1. PICK row \in VisitRow :
        /\ row.at = "case" /\ row.does = "submit" /\ visit' = [visit EXCEPT ![x] = row]
        /\ visit[x].at = "idle"
        /\ \A y \in Sessions \ {x} : ~Clash("submit", visit[y].does) /\ ~Clash(visit[y].does, "submit")
        /\ row.expert = expert /\ row.case.status = case.status
  BY BeginsMeans DEF B!SubmitRead, B!Kinds
<1>2. /\ UNCHANGED <<expert, case, checklist, recheck, shown, day, astray, nudges>>
      /\ checklist /\ case.status = "IN_PROGRESS"
  BY DEF B!SubmitRead, B!ONBOARDING_TRANSITIONS, B!tables, OnboardingInv, CaseTyped, CaseRow,
     B!OnboardingStatus
<1>3. ~Seeing("save", "expert")
  BY <1>1 DEF Seeing, B!Is, Clash
<1>4. SubmitFits(row)'
  BY <1>1, <1>2, <1>3 DEF OnboardingInv, ExpertFits, SubmitFits
<1>5. VisitFits(row)'
  BY <1>1, <1>4 DEF VisitFits
<1> QED
  BY <1>1, <1>2, <1>5, CallBegins

LEMMA DecideReadStep ==
  ASSUME OnboardingInv, NEW x \in Sessions, NEW does \in B!Kinds, B!DecideRead(x, does)
  PROVE  OnboardingInv'
<1>1. PICK row \in VisitRow :
        /\ row.at = "claim" /\ row.does = does /\ visit' = [visit EXCEPT ![x] = row]
        /\ visit[x].at = "idle"
        /\ \A y \in Sessions \ {x} : ~Clash(does, visit[y].does) /\ ~Clash(visit[y].does, does)
  BY BeginsMeans DEF B!DecideRead
<1>2. /\ UNCHANGED <<expert, case, checklist, recheck, shown, day, astray, nudges>>
      /\ does \in {"approve", "return"}
  BY DEF B!DecideRead, B!tables
<1>3. VisitFits(row)'
  BY <1>1, <1>2 DEF VisitFits, DecideFits
<1> QED
  BY <1>1, <1>2, <1>3, CallBegins

LEMMA NudgeReadStep == ASSUME OnboardingInv, NEW x \in Sessions, B!NudgeRead(x) PROVE OnboardingInv'
<1>1. PICK row \in VisitRow :
        /\ row.at = "claim" /\ row.does = "nudge" /\ visit' = [visit EXCEPT ![x] = row]
        /\ visit[x].at = "idle"
        /\ \A y \in Sessions \ {x} : ~Clash("nudge", visit[y].does) /\ ~Clash(visit[y].does, "nudge")
        /\ row.case = case /\ row.day = day
  BY BeginsMeans DEF B!NudgeRead, B!Kinds
<1>2. /\ UNCHANGED <<expert, case, checklist, recheck, shown, day, astray, nudges>>
      /\ case.nudgedAt < day
  BY DEF B!NudgeRead, B!Stalled, B!tables
<1>3. VisitFits(row)'
  BY <1>1, <1>2 DEF VisitFits, NudgeFits
<1> QED
  BY <1>1, <1>2, <1>3, CallBegins

LEMMA ContinuesMeans ==
  ASSUME OnboardingInv, NEW x \in Sessions, NEW at \in {"expert", "case", "item", "enqueue"},
         B!Continues(x, at)
  PROVE  /\ visit' \in [Sessions -> VisitRow] /\ Apart'
         /\ visit'[x].at = at /\ visit'[x].does = visit[x].does
         /\ visit'[x].expert = visit[x].expert /\ visit'[x].case = visit[x].case
         /\ \A y \in Sessions \ {x} : visit'[y] = visit[y]
<1> DEFINE row == [visit[x] EXCEPT !.at = at]
<1>1. visit[x] \in VisitRow
  BY DEF OnboardingInv, CaseTyped
<1>2. /\ row \in VisitRow /\ row.at = at /\ row.does = visit[x].does
      /\ row.expert = visit[x].expert /\ row.case = visit[x].case
  BY <1>1 DEF VisitRow
<1>3. visit' = [visit EXCEPT ![x] = row]
  BY DEF B!Continues
<1> HIDE DEF row
<1>4. /\ visit' \in [Sessions -> VisitRow] /\ visit'[x] = row
      /\ \A y \in Sessions \ {x} : visit'[y] = visit[y]
  BY <1>2, <1>3 DEF OnboardingInv, CaseTyped
<1>5. Apart'
  BY <1>2, <1>4, ApartKept DEF OnboardingInv
<1> QED
  BY <1>2, <1>4, <1>5

LEMMA FinishesMeans ==
  ASSUME OnboardingInv, NEW x \in Sessions, B!Finishes(x)
  PROVE  /\ visit' \in [Sessions -> VisitRow] /\ Apart' /\ visit'[x] = B!Resting
         /\ VisitFits(visit[x])'
         /\ \A y \in Sessions \ {x} : visit'[y] = visit[y]
<1>1. /\ visit' \in [Sessions -> VisitRow] /\ visit'[x] = B!Resting
      /\ \A y \in Sessions \ {x} : visit'[y] = visit[y]
  BY RestingRow, CallMoves DEF OnboardingInv, B!Finishes
<1>2. Apart'
  BY <1>1, RestingRow, ApartKept DEF OnboardingInv
<1>3. VisitFits(visit[x])'
  BY <1>1, RestingRow DEF VisitFits
<1> QED
  BY <1>1, <1>2, <1>3

LEMMA Refused ==
  ASSUME OnboardingInv, NEW x \in Sessions, NEW to, NEW next, B!SetExpertStatus(x, to, next),
         ~B!MayMove(to)
  PROVE  OnboardingInv'
BY CallEnds DEF B!SetExpertStatus

\* startOnboarding moves the expert.
LEMMA StartExpertStep == ASSUME OnboardingInv, NEW x \in Sessions, B!StartExpert(x) PROVE OnboardingInv'
<1>1. CASE ~B!MayMove("ONBOARDING")
  BY <1>1, Refused DEF B!StartExpert
<1>2. CASE B!MayMove("ONBOARDING")
  <2>1. /\ visit[x].does = "start" /\ visit[x].at = "expert" /\ expert' = "ONBOARDING"
        /\ B!Continues(x, "case")
        /\ UNCHANGED <<case, checklist, recheck, shown, day, astray, nudges>>
    BY <1>2 DEF B!StartExpert, B!SetExpertStatus, B!Is
  <2>2. /\ visit' \in [Sessions -> VisitRow] /\ Apart' /\ visit'[x].at = "case" /\ visit'[x].does = "start"
        /\ visit'[x].case = visit[x].case /\ \A y \in Sessions \ {x} : visit'[y] = visit[y]
    BY <2>1, ContinuesMeans
  <2>3. StartFits(visit[x])
    BY <2>1 DEF OnboardingInv, VisitFits
  <2>4. VisitFits(visit[x])'
    BY <2>1, <2>2, <2>3 DEF VisitFits, StartFits
  <2>5. ASSUME NEW y \in Sessions \ {x} PROVE VisitFits(visit[y])'
    <3>1. visit[y].does \notin {"submit", "return"} /\ VisitFits(visit[y]) /\ visit'[y] = visit[y]
      BY <2>1, <2>2, ClashMeans DEF OnboardingInv
    <3> QED
      BY <2>1, <3>1 DEF VisitFits, StartFits, SaveFits, DecideFits, NudgeFits
  <2>6. ASSUME ~astray PROVE ExpertFits'
    <3>1. visit[x].case.status \in B!Reopens => Opening'
      BY <2>2 DEF Opening, B!Is
    <3> QED
      BY <2>1, <2>3, <2>6, <3>1 DEF StartFits, ExpertFits, BeingFilled
  <2>7. \A does, at : Seeing(does, at) /\ does # "start" => Seeing(does, at)'
    BY <2>1, <2>2, OthersGoOn DEF B!Is
  <2>8. ShownFits'
    BY <2>1, <2>7 DEF OnboardingInv, ShownFits
  <2>9. \A y \in Sessions : VisitFits(visit[y])'
    BY <2>4, <2>5
  <2>10. CaseTyped' /\ B!SubmittedComplete' /\ NudgesFit'
    BY <2>1, <2>2 DEF OnboardingInv, CaseTyped, B!ExpertStatus, B!SubmittedComplete, NudgesFit
  <2>11. ExpertFits'
    BY <2>1, <2>6 DEF ExpertFits
  <2> QED
    BY <2>2, <2>8, <2>9, <2>10, <2>11 DEF OnboardingInv
<1> QED
  BY <1>1, <1>2

\* The case becomes IN_PROGRESS by id: nobody submits or decides meanwhile.
LEMMA CaseReopens ==
  ASSUME OnboardingInv, NEW x \in Sessions, visit[x].does \in {"start", "save"},
         case.status \in BeingFilled,
         case' = [case EXCEPT !.status = "IN_PROGRESS"], astray' \in BOOLEAN, astray => astray',
         visit' \in [Sessions -> VisitRow], Apart', VisitFits(visit[x])',
         \A y \in Sessions \ {x} : visit'[y] = visit[y],
         ~astray' => expert = "ONBOARDING" \/ (expert = "REJECTED" /\ Seeing("save", "expert")'),
         UNCHANGED <<expert, checklist, recheck, shown, day, nudges>>
  PROVE  OnboardingInv'
<1>1. case' \in CaseRow /\ case'.status = "IN_PROGRESS" /\ case'.nudgedAt = case.nudgedAt
  BY DEF OnboardingInv, CaseTyped, CaseRow, B!OnboardingStatus
<1>2. CaseTyped'
  BY <1>1 DEF OnboardingInv, CaseTyped
<1>3. ASSUME NEW y \in Sessions \ {x} PROVE VisitFits(visit[y])'
  <2>1. visit[y].does \notin {"submit", "return"} /\ VisitFits(visit[y]) /\ visit'[y] = visit[y]
    BY ClashMeans DEF OnboardingInv
  <2>2. visit[y].does = "approve" => visit[y].at = "claim"
    BY <2>1 DEF VisitFits, DecideFits, BeingFilled
  <2> QED
    BY <1>1, <2>1, <2>2 DEF VisitFits, StartFits, SaveFits, DecideFits, NudgeFits, BeingFilled
<1>4. \A y \in Sessions : VisitFits(visit[y])'
  BY <1>3
<1>5. B!SubmittedComplete' /\ NudgesFit' /\ ShownFits'
  BY <1>1 DEF OnboardingInv, B!SubmittedComplete, NudgesFit, ShownFits
<1>6. ExpertFits'
  BY <1>1 DEF ExpertFits
<1> QED
  BY <1>2, <1>4, <1>5, <1>6 DEF OnboardingInv

LEMMA StartCaseStep == ASSUME OnboardingInv, NEW x \in Sessions, B!StartCase(x) PROVE OnboardingInv'
<1>1. /\ visit[x].does = "start" /\ visit[x].at = "case" /\ B!Finishes(x)
      /\ UNCHANGED <<expert, checklist, recheck, shown, day, astray, nudges>>
      /\ StartFits(visit[x])
  BY DEF B!StartCase, B!Is, OnboardingInv, VisitFits
<1>2. CASE visit[x].case.status \in B!Reopens
  <2>1. case' = [case EXCEPT !.status = "IN_PROGRESS"] /\ case.status \in BeingFilled
    BY <1>1, <1>2 DEF B!StartCase, StartFits
  <2>2. ~astray => expert = "ONBOARDING"
    BY <1>1, <1>2 DEF StartFits
  <2>3. astray \in BOOLEAN
    BY DEF OnboardingInv, CaseTyped
  <2> QED
    BY <1>1, <2>1, <2>2, <2>3, FinishesMeans, CaseReopens
<1>3. CASE visit[x].case.status \notin B!Reopens
  <2>1. case' = case /\ astray \in BOOLEAN
    BY <1>3 DEF B!StartCase, OnboardingInv, CaseTyped
  <2> QED
    BY <1>1, <1>3, <2>1, CallEnds DEF B!Is
<1> QED
  BY <1>2, <1>3

LEMMA SaveCaseStep == ASSUME OnboardingInv, NEW x \in Sessions, B!SaveCase(x) PROVE OnboardingInv'
<1>1. PICK at \in {"expert", "item"} :
        B!Continues(x, at) /\ (at = "expert" <=> visit[x].expert = "REJECTED")
  BY DEF B!SaveCase
<1>2. /\ visit[x].does = "save" /\ visit[x].at = "case" /\ SaveFits(visit[x])
      /\ case' = [case EXCEPT !.status = "IN_PROGRESS"]
      /\ astray' = (astray \/ visit[x].expert = "PROSPECT")
      /\ UNCHANGED <<expert, checklist, recheck, shown, day, nudges>>
  BY DEF B!SaveCase, B!Is, OnboardingInv, VisitFits
<1>3. /\ visit' \in [Sessions -> VisitRow] /\ Apart' /\ visit'[x].at = at /\ visit'[x].does = "save"
      /\ \A y \in Sessions \ {x} : visit'[y] = visit[y]
  BY <1>1, <1>2, ContinuesMeans
<1>4. case.status \in BeingFilled /\ case'.status = "IN_PROGRESS" /\ astray' \in BOOLEAN
  BY <1>2 DEF SaveFits, OnboardingInv, CaseTyped, CaseRow
<1>5. VisitFits(visit[x])'
  BY <1>3, <1>4 DEF VisitFits, SaveFits, BeingFilled
<1>6. ~astray' => expert = "ONBOARDING" \/ (expert = "REJECTED" /\ Seeing("save", "expert")')
  <2>1. at = "expert" => Seeing("save", "expert")'
    BY <1>3 DEF Seeing, B!Is
  <2> QED
    BY <1>1, <1>2, <2>1 DEF SaveFits
<1> QED
  BY <1>2, <1>3, <1>4, <1>5, <1>6, CaseReopens

LEMMA SaveExpertStep == ASSUME OnboardingInv, NEW x \in Sessions, B!SaveExpert(x) PROVE OnboardingInv'
<1>1. CASE ~B!MayMove("ONBOARDING")
  BY <1>1, Refused DEF B!SaveExpert
<1>2. CASE B!MayMove("ONBOARDING")
  <2>1. /\ visit[x].does = "save" /\ visit[x].at = "expert" /\ expert' = "ONBOARDING"
        /\ B!Continues(x, "item")
        /\ UNCHANGED <<case, checklist, recheck, shown, day, astray, nudges>>
    BY <1>2 DEF B!SaveExpert, B!SetExpertStatus, B!Is
  <2>2. /\ visit' \in [Sessions -> VisitRow] /\ Apart' /\ visit'[x].at = "item" /\ visit'[x].does = "save"
        /\ \A y \in Sessions \ {x} : visit'[y] = visit[y]
    BY <2>1, ContinuesMeans
  <2>3. case.status = "IN_PROGRESS"
    BY <2>1 DEF OnboardingInv, VisitFits, SaveFits
  <2>4. VisitFits(visit[x])'
    BY <2>1, <2>2, <2>3 DEF VisitFits, SaveFits, BeingFilled
  <2>5. ASSUME NEW y \in Sessions \ {x} PROVE VisitFits(visit[y])'
    <3>1. visit[y].does \notin {"submit", "return"} /\ VisitFits(visit[y]) /\ visit'[y] = visit[y]
      BY <2>1, <2>2, ClashMeans DEF OnboardingInv
    <3> QED
      BY <2>1, <3>1 DEF VisitFits, StartFits, SaveFits, DecideFits, NudgeFits
  <2>6. \A y \in Sessions : VisitFits(visit[y])'
    BY <2>4, <2>5
  <2>7. CaseTyped' /\ B!SubmittedComplete' /\ NudgesFit'
    BY <2>1, <2>2 DEF OnboardingInv, CaseTyped, B!ExpertStatus, B!SubmittedComplete, NudgesFit
  <2>8. ExpertFits' /\ ShownFits'
    BY <2>1, <2>3 DEF ExpertFits, ShownFits
  <2> QED
    BY <2>2, <2>6, <2>7, <2>8 DEF OnboardingInv
<1> QED
  BY <1>1, <1>2

LEMMA SaveItemStep == ASSUME OnboardingInv, NEW x \in Sessions, B!SaveItem(x) PROVE OnboardingInv'
<1>1. /\ visit[x].does = "save" /\ visit[x].at = "item" /\ B!Finishes(x) /\ checklist' \in BOOLEAN
      /\ UNCHANGED <<expert, case, recheck, shown, day, astray, nudges>>
      /\ case.status = "IN_PROGRESS"
  BY DEF B!SaveItem, B!Is, OnboardingInv, VisitFits, SaveFits
<1>2. /\ visit' \in [Sessions -> VisitRow] /\ Apart' /\ VisitFits(visit[x])'
      /\ \A y \in Sessions \ {x} : visit'[y] = visit[y]
  BY <1>1, FinishesMeans
<1>3. ASSUME NEW y \in Sessions \ {x} PROVE VisitFits(visit[y])'
  <2>1. visit[y].does # "submit" /\ VisitFits(visit[y]) /\ visit'[y] = visit[y]
    BY <1>1, <1>2, ClashMeans DEF OnboardingInv
  <2> QED
    BY <1>1, <2>1 DEF VisitFits, StartFits, SaveFits, DecideFits, NudgeFits
<1>4. \A y \in Sessions : VisitFits(visit[y])'
  BY <1>2, <1>3
<1>5. CaseTyped' /\ B!SubmittedComplete' /\ NudgesFit'
  BY <1>1, <1>2 DEF OnboardingInv, CaseTyped, B!SubmittedComplete, NudgesFit
<1>6. Seeing("save", "expert") => Seeing("save", "expert")'
  BY <1>1, <1>2, OthersGoOn DEF B!Is
<1>7. ExpertFits' /\ ShownFits'
  BY <1>1, <1>6 DEF OnboardingInv, ExpertFits, ShownFits
<1> QED
  BY <1>2, <1>4, <1>5, <1>7 DEF OnboardingInv

LEMMA SubmitCaseStep == ASSUME OnboardingInv, NEW x \in Sessions, B!SubmitCase(x) PROVE OnboardingInv'
<1>1. /\ visit[x].does = "submit" /\ visit[x].at = "case"
      /\ case' = [status |-> "SUBMITTED", nudgedAt |-> 0] /\ nudges' = [d \in 1 .. MaxDays |-> 0]
      /\ UNCHANGED <<expert, checklist, recheck, shown, day, astray>>
      /\ checklist /\ case.status = "IN_PROGRESS"
      /\ ~astray => visit[x].expert = "ONBOARDING" /\ expert = "ONBOARDING"
  BY DEF B!SubmitCase, B!Is, OnboardingInv, VisitFits, SubmitFits
<1>2. case' \in CaseRow /\ case'.status = "SUBMITTED" /\ case'.nudgedAt = 0
  BY <1>1, DaysCounted DEF CaseRow, B!OnboardingStatus
<1>3. /\ visit' \in [Sessions -> VisitRow] /\ Apart' /\ VisitFits(visit[x])'
      /\ \A y \in Sessions \ {x} : visit'[y] = visit[y]
      /\ ~astray => Seeing("submit", "expert")'
  <2>1. CASE visit[x].expert = "ONBOARDING"
    <3>1. /\ visit' \in [Sessions -> VisitRow] /\ Apart' /\ visit'[x].at = "expert"
          /\ visit'[x].does = "submit" /\ \A y \in Sessions \ {x} : visit'[y] = visit[y]
      BY <1>1, <2>1, ContinuesMeans DEF B!SubmitCase
    <3>2. VisitFits(visit[x])'
      BY <1>2, <3>1 DEF VisitFits, SubmitFits
    <3>3. Seeing("submit", "expert")'
      BY <3>1 DEF Seeing, B!Is
    <3> QED
      BY <3>1, <3>2, <3>3
  <2>2. CASE visit[x].expert # "ONBOARDING"
    <3>1. B!Finishes(x)
      BY <2>2 DEF B!SubmitCase
    <3> QED
      BY <1>1, <2>2, <3>1, FinishesMeans
  <2> QED
    BY <2>1, <2>2
<1>4. ASSUME NEW y \in Sessions \ {x} PROVE VisitFits(visit[y])'
  <2>1. /\ visit[y].does \notin {"start", "save", "submit"} /\ VisitFits(visit[y])
        /\ visit'[y] = visit[y]
    BY <1>1, <1>3, ClashMeans DEF OnboardingInv
  <2> QED
    BY <1>1, <2>1 DEF VisitFits, DecideFits, NudgeFits
<1>5. \A y \in Sessions : VisitFits(visit[y])'
  BY <1>3, <1>4
<1>6. CaseTyped'
  <2>1. nudges' \in [1 .. MaxDays -> Nat]
    BY <1>1
  <2> QED
    BY <1>1, <1>2, <1>3, <2>1 DEF OnboardingInv, CaseTyped
<1>7. B!SubmittedComplete' /\ NudgesFit' /\ ShownFits'
  BY <1>1, <1>2 DEF B!SubmittedComplete, NudgesFit, ShownFits
<1>8. ExpertFits'
  BY <1>1, <1>2, <1>3 DEF ExpertFits
<1> QED
  BY <1>3, <1>5, <1>6, <1>7, <1>8 DEF OnboardingInv

LEMMA SubmitExpertStep == ASSUME OnboardingInv, NEW x \in Sessions, B!SubmitExpert(x) PROVE OnboardingInv'
<1>1. CASE ~B!MayMove("PENDING_VERIFICATION")
  BY <1>1, Refused DEF B!SubmitExpert
<1>2. CASE B!MayMove("PENDING_VERIFICATION")
  <2>1. /\ visit[x].does = "submit" /\ visit[x].at = "expert" /\ expert' = "PENDING_VERIFICATION"
        /\ B!Finishes(x) /\ UNCHANGED <<case, checklist, recheck, shown, day, astray, nudges>>
    BY <1>2 DEF B!SubmitExpert, B!SetExpertStatus, B!Is
  <2>2. expert \in {"PENDING_VERIFICATION", "ONBOARDING"}
    BY <1>2 DEF B!MayMove, B!EXPERT_TRANSITIONS, OnboardingInv, CaseTyped, B!ExpertStatus
  <2>3. case.status \in {"SUBMITTED", "VERIFIED", "REJECTED"}
    BY <2>1 DEF OnboardingInv, VisitFits, SubmitFits
  <2>4. /\ visit' \in [Sessions -> VisitRow] /\ Apart' /\ VisitFits(visit[x])'
        /\ \A y \in Sessions \ {x} : visit'[y] = visit[y]
    BY <2>1, FinishesMeans
  <2>5. ASSUME NEW y \in Sessions \ {x} PROVE VisitFits(visit[y])'
    <3>1. /\ visit[y].does \notin {"start", "save", "submit"} /\ VisitFits(visit[y])
          /\ visit'[y] = visit[y]
      BY <2>1, <2>4, ClashMeans DEF OnboardingInv
    <3> QED
      BY <2>1, <3>1 DEF VisitFits, DecideFits, NudgeFits
  <2>6. \A y \in Sessions : VisitFits(visit[y])'
    BY <2>4, <2>5
  <2>7. CaseTyped' /\ B!SubmittedComplete' /\ NudgesFit'
    BY <2>1, <2>4 DEF OnboardingInv, CaseTyped, B!ExpertStatus, B!SubmittedComplete, NudgesFit
  <2>8. \A does, at : Seeing(does, at) /\ does # "submit" => Seeing(does, at)'
    BY <2>1, <2>4, OthersGoOn DEF B!Is
  <2>9. ShownFits'
    BY <2>1, <2>8 DEF OnboardingInv, ShownFits
  <2>10. ~Opening
    BY <2>1, ClashMeans DEF OnboardingInv, Opening, B!Is
  <2>11. ExpertFits'
    <3>1. /\ Following("approve") => Following("approve")'
          /\ Following("return") => Following("return")'
      BY <2>1, <2>8 DEF Following
    <3> QED
      BY <2>1, <2>2, <2>3, <2>10, <3>1 DEF OnboardingInv, ExpertFits
  <2> QED
    BY <2>4, <2>6, <2>7, <2>9, <2>11 DEF OnboardingInv
<1> QED
  BY <1>1, <1>2

\* decideVerification claims the case.
LEMMA DecideClaimStep == ASSUME OnboardingInv, NEW x \in Sessions, B!DecideClaim(x) PROVE OnboardingInv'
<1> DEFINE verdict == B!Verdict(x)
<1>1. CASE ~B!ClaimsCase(x)
  <2>1. /\ B!Finishes(x) /\ visit[x].at = "claim" /\ astray \in BOOLEAN
        /\ UNCHANGED <<expert, case, checklist, recheck, shown, day, astray, nudges>>
    BY <1>1 DEF B!DecideClaim, OnboardingInv, CaseTyped
  <2> QED
    BY <2>1, CallEnds
<1>2. CASE B!ClaimsCase(x)
  <2>1. /\ visit[x].at = "claim" /\ visit[x].does \in {"approve", "return"}
        /\ case.status = "SUBMITTED" /\ case' = [case EXCEPT !.status = verdict]
        /\ B!Continues(x, "expert")
        /\ UNCHANGED <<expert, checklist, recheck, shown, day, astray, nudges>>
    BY <1>2 DEF B!DecideClaim, B!ClaimsCase
  <2>2. verdict = IF visit[x].does = "approve" THEN "VERIFIED" ELSE "REJECTED"
    BY DEF B!Verdict
  <2> HIDE DEF verdict
  <2>3. case' \in CaseRow /\ case'.status = verdict /\ case'.nudgedAt = case.nudgedAt
    BY <2>1, <2>2 DEF OnboardingInv, CaseTyped, CaseRow, B!OnboardingStatus
  <2>4. /\ visit' \in [Sessions -> VisitRow] /\ Apart' /\ visit'[x].at = "expert"
        /\ visit'[x].does = visit[x].does /\ \A y \in Sessions \ {x} : visit'[y] = visit[y]
    BY <2>1, ContinuesMeans
  <2>5. VisitFits(visit[x])'
    BY <2>1, <2>2, <2>3, <2>4 DEF VisitFits, DecideFits
  <2>6. ASSUME NEW y \in Sessions \ {x} PROVE VisitFits(visit[y])'
    <3>1. VisitFits(visit[y]) /\ visit'[y] = visit[y]
      BY <2>4 DEF OnboardingInv
    <3> QED
      BY <2>1, <2>2, <2>3, <3>1
         DEF VisitFits, StartFits, SaveFits, SubmitFits, DecideFits, NudgeFits, BeingFilled
  <2>7. \A y \in Sessions : VisitFits(visit[y])'
    BY <2>5, <2>6
  <2>8. CaseTyped' /\ B!SubmittedComplete' /\ NudgesFit'
    BY <2>1, <2>3, <2>4 DEF OnboardingInv, CaseTyped, B!SubmittedComplete, NudgesFit
  <2>9. Seeing("submit", "expert") => Seeing("submit", "expert")'
    BY <2>1, <2>4, OthersGoOn DEF B!Is
  <2>10. /\ visit[x].does = "approve" => Seeing("approve", "expert")'
         /\ visit[x].does = "return" => Seeing("return", "expert")'
    BY <2>4 DEF Seeing, B!Is
  <2>11. ExpertFits' /\ ShownFits'
    BY <2>1, <2>2, <2>3, <2>9, <2>10 DEF OnboardingInv, ExpertFits, ShownFits, Following
  <2> QED
    BY <2>4, <2>7, <2>8, <2>11 DEF OnboardingInv
<1> QED
  BY <1>1, <1>2

\* decideVerification moves the expert.
LEMMA DecideExpertStep == ASSUME OnboardingInv, NEW x \in Sessions, B!DecideExpert(x) PROVE OnboardingInv'
<1> DEFINE verdict == B!Verdict(x)
<1>1. CASE ~B!MayMove(verdict)
  BY <1>1, Refused DEF B!DecideExpert
<1>2. CASE B!MayMove(verdict)
  <2>1. /\ visit[x].at = "expert" /\ visit[x].does \in {"approve", "return"} /\ expert' = verdict
        /\ B!Continues(x, "enqueue")
        /\ UNCHANGED <<case, checklist, recheck, shown, day, astray, nudges>>
    BY <1>2 DEF B!DecideExpert, B!SetExpertStatus
  <2>2. verdict = (IF visit[x].does = "approve" THEN "VERIFIED" ELSE "REJECTED") /\ case.status = verdict
    BY <2>1 DEF B!Verdict, OnboardingInv, VisitFits, DecideFits
  <2> HIDE DEF verdict
  <2>3. /\ visit' \in [Sessions -> VisitRow] /\ Apart' /\ visit'[x].at = "enqueue"
        /\ visit'[x].does = visit[x].does /\ \A y \in Sessions \ {x} : visit'[y] = visit[y]
    BY <2>1, ContinuesMeans
  <2>4. VisitFits(visit[x])'
    BY <2>1, <2>2, <2>3 DEF VisitFits, DecideFits
  <2>5. ASSUME NEW y \in Sessions \ {x} PROVE VisitFits(visit[y])'
    <3>1. VisitFits(visit[y]) /\ visit'[y] = visit[y]
      BY <2>3 DEF OnboardingInv
    <3>2. visit[x].does = "return" => visit[y].does \notin {"start", "save"}
      BY ClashMeans DEF OnboardingInv
    <3> QED
      BY <2>1, <2>2, <3>1, <3>2
         DEF VisitFits, StartFits, SaveFits, SubmitFits, DecideFits, NudgeFits, BeingFilled
  <2>6. \A y \in Sessions : VisitFits(visit[y])'
    BY <2>4, <2>5
  <2>7. CaseTyped' /\ B!SubmittedComplete' /\ NudgesFit'
    BY <2>1, <2>2, <2>3 DEF OnboardingInv, CaseTyped, B!ExpertStatus, B!SubmittedComplete, NudgesFit
  <2>8. /\ visit[x].does = "approve" => Seeing("approve", "enqueue")'
        /\ visit[x].does = "return" => Seeing("return", "enqueue")'
    BY <2>3 DEF Seeing, B!Is
  <2>9. ExpertFits' /\ ShownFits'
    BY <2>1, <2>2, <2>8 DEF ExpertFits, ShownFits
  <2> QED
    BY <2>3, <2>6, <2>7, <2>9 DEF OnboardingInv
<1> QED
  BY <1>1, <1>2

LEMMA DecideEnqueueStep == ASSUME OnboardingInv, NEW x \in Sessions, B!DecideEnqueue(x) PROVE OnboardingInv'
<1>1. /\ visit[x].at = "enqueue" /\ recheck' = TRUE /\ B!Finishes(x)
      /\ UNCHANGED <<expert, case, checklist, shown, day, astray, nudges>>
  BY DEF B!DecideEnqueue
<1>2. /\ visit' \in [Sessions -> VisitRow] /\ Apart' /\ VisitFits(visit[x])'
      /\ \A y \in Sessions \ {x} : visit'[y] = visit[y]
  BY <1>1, FinishesMeans
<1>3. ASSUME NEW y \in Sessions \ {x} PROVE VisitFits(visit[y])'
  <2>1. VisitFits(visit[y]) /\ visit'[y] = visit[y]
    BY <1>2 DEF OnboardingInv
  <2> QED
    BY <1>1, <2>1 DEF VisitFits, StartFits, SaveFits, SubmitFits, DecideFits, NudgeFits
<1>4. \A y \in Sessions : VisitFits(visit[y])'
  BY <1>2, <1>3
<1>5. CaseTyped' /\ B!SubmittedComplete' /\ NudgesFit' /\ ShownFits'
  BY <1>1, <1>2 DEF OnboardingInv, CaseTyped, B!SubmittedComplete, NudgesFit, ShownFits
<1>6. /\ \A does : Seeing(does, "expert") => Seeing(does, "expert")'
      /\ Opening => Opening'
  BY <1>1, <1>2, OthersGoOn DEF B!Is
<1>7. \A does : Following(does) => Following(does)'
  BY <1>1, <1>6 DEF Following
<1>8. ExpertFits'
  BY <1>1, <1>6, <1>7 DEF OnboardingInv, ExpertFits
<1> QED
  BY <1>2, <1>4, <1>5, <1>8 DEF OnboardingInv

LEMMA NudgeClaimStep == ASSUME OnboardingInv, NEW x \in Sessions, B!NudgeClaim(x) PROVE OnboardingInv'
<1>1. /\ visit[x].does = "nudge" /\ visit[x].at = "claim" /\ B!Finishes(x)
      /\ UNCHANGED <<expert, checklist, recheck, shown, day, astray>>
      /\ visit[x].case.nudgedAt < visit[x].day /\ visit[x].day \in 0 .. MaxDays
      /\ visit[x].case \in CaseRow /\ astray \in BOOLEAN /\ case \in CaseRow
  BY DEF B!NudgeClaim, B!Is, OnboardingInv, VisitFits, NudgeFits, CaseTyped, VisitRow
<1>2. CASE ~B!ClaimsNudge(x)
  <2>1. UNCHANGED <<case, nudges>>
    BY <1>2 DEF B!NudgeClaim
  <2> QED
    BY <1>1, <2>1, CallEnds
<1>3. CASE B!ClaimsNudge(x)
  <2> DEFINE d == visit[x].day
  <2>1. /\ case.nudgedAt < d /\ d \in 1 .. MaxDays /\ case.nudgedAt \in 0 .. MaxDays
        /\ nudges \in [1 .. MaxDays -> Nat]
    <3>1. visit[x].case.nudgedAt = case.nudgedAt /\ case.nudgedAt \in 0 .. MaxDays
      BY <1>1, <1>3 DEF B!ClaimsNudge, CaseRow
    <3> QED
      BY <1>1, <3>1, DaysCounted DEF OnboardingInv, CaseTyped
  <2>2. /\ case' = [case EXCEPT !.nudgedAt = d] /\ nudges' = [nudges EXCEPT ![d] = nudges[d] + 1]
    BY <1>3 DEF B!NudgeClaim
  <2> HIDE DEF d
  <2>3. case' \in CaseRow /\ case'.status = case.status /\ case'.nudgedAt = d
    BY <1>1, <2>1, <2>2, DaysCounted DEF CaseRow
  <2>4. nudges[d] = 0
    BY <2>1, DaysCounted DEF OnboardingInv, NudgesFit
  <2>5. /\ nudges' \in [1 .. MaxDays -> Nat] /\ nudges'[d] = 1
        /\ \A e \in (1 .. MaxDays) \ {d} : nudges'[e] = nudges[e]
    BY <2>1, <2>2, <2>4
  <2>6. NudgesFit'
    BY <2>1, <2>3, <2>5, DaysCounted DEF OnboardingInv, NudgesFit
  <2>7. /\ visit' \in [Sessions -> VisitRow] /\ Apart' /\ VisitFits(visit[x])'
        /\ \A y \in Sessions \ {x} : visit'[y] = visit[y]
    BY <1>1, FinishesMeans
  <2>8. ASSUME NEW y \in Sessions \ {x} PROVE VisitFits(visit[y])'
    <3>1. VisitFits(visit[y]) /\ visit'[y] = visit[y]
      BY <2>7 DEF OnboardingInv
    <3> QED
      BY <1>1, <2>3, <3>1 DEF VisitFits, StartFits, SaveFits, SubmitFits, DecideFits, NudgeFits
  <2>9. \A y \in Sessions : VisitFits(visit[y])'
    BY <2>7, <2>8
  <2>10. CaseTyped' /\ B!SubmittedComplete'
    BY <1>1, <2>3, <2>5, <2>7 DEF OnboardingInv, CaseTyped, B!SubmittedComplete
  <2>11. /\ \A does, at : Seeing(does, at) /\ does # "nudge" => Seeing(does, at)'
         /\ Opening => Opening'
    BY <1>1, <2>7, OthersGoOn DEF B!Is
  <2>12. \A does : Following(does) /\ does # "nudge" => Following(does)'
    BY <1>1, <2>11 DEF Following
  <2>13. ExpertFits' /\ ShownFits'
    BY <1>1, <2>3, <2>11, <2>12 DEF OnboardingInv, ExpertFits, ShownFits
  <2> QED
    BY <2>6, <2>7, <2>9, <2>10, <2>13 DEF OnboardingInv
<1> QED
  BY <1>2, <1>3

\* No call moves: the case is made sure of, the queue is brought up to date, a
\* day passes, an operator sets the status.
LEMMA OthersStep ==
  ASSUME OnboardingInv,
         \/ B!EnsureCase \/ B!ReadinessRecheck \/ B!NextDay
         \/ \E to \in B!ExpertStatus : B!SetByHand(to)
  PROVE  OnboardingInv'
<1>1. CASE B!EnsureCase
  <2>1. /\ case.status = "NONE" /\ case' = [case EXCEPT !.status = "NOT_STARTED"]
        /\ UNCHANGED <<expert, checklist, recheck, shown, day, visit, astray, nudges>>
    BY <1>1 DEF B!EnsureCase, B!Ensured
  <2>2. case' \in CaseRow /\ case'.status = "NOT_STARTED" /\ case'.nudgedAt = case.nudgedAt
    BY <2>1 DEF OnboardingInv, CaseTyped, CaseRow, B!OnboardingStatus
  <2>3. CaseTyped' /\ Apart'
    BY <2>1, <2>2 DEF OnboardingInv, CaseTyped, Apart
  <2>4. ASSUME NEW y \in Sessions PROVE VisitFits(visit[y])'
    <3>1. VisitFits(visit[y])
      BY DEF OnboardingInv
    <3> QED
      BY <2>1, <2>2, <3>1
         DEF VisitFits, StartFits, SaveFits, SubmitFits, DecideFits, NudgeFits, BeingFilled
  <2>5. B!SubmittedComplete' /\ NudgesFit' /\ ExpertFits' /\ ShownFits'
    BY <2>1, <2>2 DEF OnboardingInv, B!SubmittedComplete, NudgesFit, ExpertFits, ShownFits
  <2> QED
    BY <2>3, <2>4, <2>5 DEF OnboardingInv
<1>2. CASE B!ReadinessRecheck
  <2>1. /\ recheck' = FALSE /\ shown' = (IF expert = "VERIFIED" THEN "ready" ELSE "blocked")
        /\ UNCHANGED <<expert, case, checklist, day, visit, astray, nudges>>
    BY <1>2 DEF B!ReadinessRecheck
  <2>2. CaseTyped' /\ Apart' /\ B!SubmittedComplete' /\ NudgesFit'
    BY <2>1 DEF OnboardingInv, CaseTyped, Apart, B!SubmittedComplete, NudgesFit
  <2>3. ASSUME NEW y \in Sessions PROVE VisitFits(visit[y])'
    BY <2>1 DEF OnboardingInv, VisitFits, StartFits, SaveFits, SubmitFits, DecideFits, NudgeFits
  <2>4. ExpertFits'
    BY <2>1 DEF OnboardingInv, ExpertFits, Following, Seeing, Opening, B!Is
  <2>5. \A does, at : Seeing(does, at) => Seeing(does, at)'
    BY <2>1 DEF Seeing, B!Is
  <2>6. ShownFits'
    BY <2>1, <2>5 DEF OnboardingInv, ExpertFits, ShownFits, Following
  <2> QED
    BY <2>2, <2>3, <2>4, <2>6 DEF OnboardingInv
<1>3. CASE B!NextDay
  <2>1. /\ day' \in 1 .. MaxDays
        /\ UNCHANGED <<expert, case, checklist, recheck, shown, visit, astray, nudges>>
    BY <1>3, DaysCounted DEF B!NextDay, B!tables, OnboardingInv, CaseTyped
  <2>2. CaseTyped' /\ Apart' /\ B!SubmittedComplete' /\ NudgesFit'
    BY <2>1 DEF OnboardingInv, CaseTyped, Apart, B!SubmittedComplete, NudgesFit
  <2>3. ASSUME NEW y \in Sessions PROVE VisitFits(visit[y])'
    BY <2>1 DEF OnboardingInv, VisitFits, StartFits, SaveFits, SubmitFits, DecideFits, NudgeFits
  <2>4. ExpertFits' /\ ShownFits'
    BY <2>1 DEF OnboardingInv, ExpertFits, ShownFits, Following, Seeing, Opening, B!Is
  <2> QED
    BY <2>2, <2>3, <2>4 DEF OnboardingInv
<1>4. ASSUME NEW to \in B!ExpertStatus, B!SetByHand(to) PROVE OnboardingInv'
  <2>1. /\ expert' = to /\ astray' = TRUE
        /\ UNCHANGED <<case, checklist, recheck, shown, day, visit, nudges>>
    BY <1>4 DEF B!SetByHand
  <2>2. CaseTyped' /\ Apart' /\ B!SubmittedComplete' /\ NudgesFit'
    BY <2>1 DEF OnboardingInv, CaseTyped, Apart, B!SubmittedComplete, NudgesFit
  <2>3. ASSUME NEW y \in Sessions PROVE VisitFits(visit[y])'
    BY <2>1 DEF OnboardingInv, VisitFits, StartFits, SaveFits, SubmitFits, DecideFits, NudgeFits
  <2>4. ExpertFits' /\ ShownFits'
    BY <2>1 DEF ExpertFits, ShownFits
  <2> QED
    BY <2>2, <2>3, <2>4 DEF OnboardingInv
<1> QED
  BY <1>1, <1>2, <1>3, <1>4

LEMMA OnboardingStep == ASSUME OnboardingInv, [B!Next]_(B!vars) PROVE OnboardingInv'
<1>1. CASE UNCHANGED B!vars
  BY <1>1 DEF B!vars, B!tables, OnboardingInv, CaseTyped, Apart, VisitFits, StartFits, SaveFits, SubmitFits,
     DecideFits, NudgeFits, B!SubmittedComplete, ExpertFits, ShownFits, NudgesFit, Following, Seeing,
     Opening, B!Is
<1>2. ASSUME NEW x \in Sessions, B!Die(x) PROVE OnboardingInv'
  <2>1. /\ B!Finishes(x) /\ astray' = (astray \/ visit[x].does # "nudge")
        /\ UNCHANGED <<expert, case, checklist, recheck, shown, day, nudges>> /\ astray \in BOOLEAN
    BY <1>2 DEF B!Die, B!tables, OnboardingInv, CaseTyped
  <2>2. visit[x].does = "nudge" => visit[x].at = "claim"
    BY DEF OnboardingInv, VisitFits, NudgeFits
  <2> QED
    BY <2>1, <2>2, CallEnds
<1>3. ASSUME NEW x \in Sessions, B!RequestStep(x) PROVE OnboardingInv'
  BY <1>3, StartReadStep, StartExpertStep, StartCaseStep, SaveReadStep, SaveCaseStep, SaveExpertStep,
     SaveItemStep, SubmitReadStep, SubmitCaseStep, SubmitExpertStep, DecideReadStep, DecideClaimStep,
     DecideExpertStep, DecideEnqueueStep, NudgeReadStep, NudgeClaimStep DEF B!RequestStep
<1> QED
  BY <1>1, <1>2, <1>3, OthersStep DEF B!Next

LEMMA OnboardingKept == ASSUME OnboardingInv PROVE B!OnboardingSound
<1>1. B!AtRest => ~Opening /\ \A does, at : at # "idle" => ~Seeing(does, at)
  BY DEF B!AtRest, B!Active, Opening, Seeing, B!Is
<1>2. B!ExpertFollows
  BY <1>1 DEF OnboardingInv, ExpertFits, Following, B!ExpertFollows, CaseTyped, CaseRow, B!OnboardingStatus
<1>3. B!DecisionShown
  BY <1>1 DEF OnboardingInv, ShownFits, B!DecisionShown
<1>4. B!NudgedOnce
  BY DEF OnboardingInv, NudgesFit, B!NudgedOnce
<1> QED
  BY <1>2, <1>3, <1>4 DEF OnboardingInv, B!OnboardingSound

\* What operators verified stays verified: the calls that write the case by id
\* are not under way then.
LEMMA VerifiedKept ==
  ASSUME OnboardingInv, [B!Next]_(B!vars), case.status = "VERIFIED"
  PROVE  case'.status = "VERIFIED"
<1>1. CASE UNCHANGED case
  BY <1>1
<1>2. ASSUME NEW x \in Sessions, B!RequestStep(x), case' # case
      PROVE  case'.status = "VERIFIED"
  <2>1. ~B!StartRead(x)
    BY <1>2 DEF B!StartRead, B!Ensured
  <2>2. ~B!StartCase(x) /\ ~B!SaveCase(x) /\ ~B!SubmitCase(x)
    BY <1>2 DEF B!StartCase, B!SaveCase, B!SubmitCase, B!Is, OnboardingInv, VisitFits, StartFits, SaveFits,
       SubmitFits, BeingFilled
  <2>3. ~B!DecideClaim(x)
    BY <1>2 DEF B!DecideClaim, B!ClaimsCase
  <2>4. B!NudgeClaim(x)
    BY <1>2, <2>1, <2>2, <2>3 DEF B!RequestStep, B!StartExpert, B!SaveRead, B!SaveExpert, B!SaveItem,
       B!SubmitRead, B!SubmitExpert, B!DecideRead, B!DecideExpert, B!DecideEnqueue, B!NudgeRead,
       B!SetExpertStatus, B!tables
  <2> QED
    BY <1>2, <2>4 DEF B!NudgeClaim, OnboardingInv, CaseTyped, CaseRow
<1>3. CASE ~(\E x \in Sessions : B!RequestStep(x))
  <2>1. UNCHANGED case
    BY <1>3 DEF B!Next, B!vars, B!tables, B!Die, B!EnsureCase, B!ReadinessRecheck, B!NextDay, B!SetByHand
  <2> QED
    BY <2>1
<1> QED
  BY <1>1, <1>2, <1>3

-----------------------------------------------------------------------------
(***************************************************************************)
(* Rubrics.  Nothing that was read for a write by id changes before it is  *)
(* written, because the calls that would change it do not overlap; whoever *)
(* is below a bar and not flagged yet is somebody a call will flag.        *)
(***************************************************************************)

VersionRow == [status : {"NONE", "DRAFT", "PUBLISHED"}, criteria : 0 .. MaxEditions]
EditorRow ==
  [at : {"idle", "create", "delete", "claim", "find", "flag", "write"}, does : Q!Tasks \cup {"none"},
   v : 0 .. MaxVersion, p : Projects \cup {0}, todo : SUBSET Q!Versions]

\* What a call read still holds.
EditorFits(e) ==
  /\ e.does = "none" <=> e.at = "idle"
  /\ e.does # "none" => e.v \in Q!Versions
  /\ e.does = "draft" => e.at = "create" /\ \A u \in 1 .. (e.v - 1) : Q!Status(u) = "PUBLISHED"
  /\ e.does = "edit" => Q!Status(e.v) = "DRAFT"
  /\ e.does = "publish" => rubric[e.v].criteria # 0
  /\ e.does = "require" =>
       /\ e.at \in {"find", "flag"}
       /\ e.at = "flag" => \A u \in e.todo : qualification[u] \in {"ACTIVE", "NEEDS_REREVIEW"}
  /\ e.does = "rereview" => qualification[e.v] = "NEEDS_REREVIEW"

RubricClash(c, d) ==
  \/ {c, d} = {"edit", "publish"} \/ {c, d} = {"require", "revoke"} \/ {c, d} = {"revoke", "rereview"}
  \/ {c, d} = {"require", "rereview"} \/ (c = "rereview" /\ d = "rereview")

EditorsApart == \A x, y \in Sessions : x # y => ~RubricClash(editor[x].does, editor[y].does)

\* The versions are numbered without gaps and only the last may be a draft.
Numbered ==
  /\ \E n \in 0 .. MaxVersion : Q!Used = 1 .. n
  /\ \A u, v \in Q!Versions : u < v /\ v \in Q!Used => Q!Status(u) = "PUBLISHED"
  /\ \A v \in Q!Versions : Q!Status(v) = "PUBLISHED" => rubric[v].criteria # 0

\* A call that set a bar has yet to find or to flag the qualification.
Awaited(v) ==
  \E x \in Sessions :
    /\ editor[x].does = "require"
    /\ \/ editor[x].at = "find" /\ v < editor[x].v
       \/ editor[x].at = "flag" /\ v \in editor[x].todo

Surfaced ==
  ~lost => \A p \in Projects, v \in Q!Versions :
             v < bar[p] /\ qualification[v] = "ACTIVE" => v \in excused \/ Awaited(v)

RubricsTyped ==
  /\ rubric \in [Q!Versions -> VersionRow] /\ bar \in [Projects -> 0 .. MaxVersion]
  /\ qualification \in [Q!Versions -> {"NONE", "ACTIVE", "NEEDS_REREVIEW", "SUPERSEDED", "REVOKED"}]
  /\ editor \in [Sessions -> EditorRow] /\ editions \in 0 .. MaxEditions
  /\ lost \in BOOLEAN

RubricsInv ==
  /\ RubricsTyped /\ EditorsApart /\ \A x \in Sessions : EditorFits(editor[x])
  /\ Numbered /\ Surfaced

LEMMA RubricBounds == MaxVersion \in Nat /\ MaxEditions \in Nat
BY RecruitmentAssumption DEF Q!RubricsAssumption

LEMMA SameCardQ == ASSUME NEW X PROVE Q!Cardinality(X) = Cardinality(X)
BY Zenon DEF Q!Cardinality, Cardinality

LEMMA FreeRow == Q!Free \in EditorRow /\ Q!Free.at = "idle" /\ Q!Free.does = "none"
<1>1. {} \in SUBSET Q!Versions
  OBVIOUS
<1> QED
  BY <1>1, RubricBounds DEF Q!Free, EditorRow

LEMMA RubricsApart ==
  ASSUME NEW c, NEW d, {c, d} \in RubricPairs PROVE ~RubricClash(c, d) /\ ~RubricClash(d, c)
<1>1. /\ {c, d} # {"edit", "publish"} /\ {c, d} # {"require", "revoke"} /\ {c, d} # {"revoke", "rereview"}
      /\ {c, d} # {"require", "rereview"} /\ {c, d} # {"rereview"}
  BY DEF RubricPairs
<1>2. {d, c} = {c, d}
  OBVIOUS
<1>3. c = "rereview" /\ d = "rereview" => {c, d} = {"rereview"}
  OBVIOUS
<1> QED
  BY <1>1, <1>2, <1>3 DEF RubricClash

LEMMA RubricsInit == ASSUME Q!Init PROVE RubricsInv
<1>1. \A x \in Sessions : editor[x] = Q!Free
  BY DEF Q!Init
<1>2. RubricsTyped
  <2>1. [status |-> "NONE", criteria |-> 0] \in VersionRow
    BY RubricBounds DEF VersionRow
  <2>2. rubric \in [Q!Versions -> VersionRow]
    BY <2>1 DEF Q!Init
  <2>3. editor \in [Sessions -> EditorRow]
    BY FreeRow DEF Q!Init
  <2>4. /\ bar \in [Projects -> 0 .. MaxVersion]
        /\ qualification \in [Q!Versions -> {"NONE", "ACTIVE", "NEEDS_REREVIEW", "SUPERSEDED", "REVOKED"}]
    BY RubricBounds DEF Q!Init
  <2>5. editions \in 0 .. MaxEditions
    BY RubricBounds DEF Q!Init
  <2>6. lost \in BOOLEAN
    BY DEF Q!Init
  <2> QED
    BY <2>2, <2>3, <2>4, <2>5, <2>6 DEF RubricsTyped
<1>3. EditorsApart
  <2>1. ~RubricClash("none", "none")
    BY DEF RubricClash
  <2> QED
    BY <1>1, <2>1, FreeRow DEF EditorsApart
<1>4. \A x \in Sessions : EditorFits(editor[x])
  BY <1>1, FreeRow DEF EditorFits
<1>5. Numbered
  <2>1. Q!Used = {} /\ \A v \in Q!Versions : Q!Status(v) = "NONE"
    BY DEF Q!Init, Q!Used, Q!Status
  <2>2. 1 .. 0 = {} /\ 0 \in 0 .. MaxVersion
    BY RubricBounds
  <2> QED
    BY <2>1, <2>2 DEF Numbered
<1>6. Surfaced
  BY DEF Q!Init, Surfaced
<1> QED
  BY <1>2, <1>3, <1>4, <1>5, <1>6 DEF RubricsInv

LEMMA EditorMoves ==
  ASSUME RubricsTyped, NEW x \in Sessions, NEW row \in EditorRow, editor' = [editor EXCEPT ![x] = row]
  PROVE  /\ editor' \in [Sessions -> EditorRow] /\ editor'[x] = row
         /\ \A y \in Sessions \ {x} : editor'[y] = editor[y]
BY DEF RubricsTyped

LEMMA EditorsStayApart ==
  ASSUME EditorsApart, NEW x \in Sessions, editor'[x].does \in {editor[x].does, "none"},
         \A y \in Sessions \ {x} : editor'[y] = editor[y]
  PROVE  EditorsApart'
<1>1. \A c : ~RubricClash("none", c) /\ ~RubricClash(c, "none")
  BY DEF RubricClash
<1> QED
  BY <1>1 DEF EditorsApart

LEMMA RubricClashMeans ==
  ASSUME EditorsApart, NEW x \in Sessions, NEW y \in Sessions \ {x}
  PROVE  /\ editor[x].does = "edit" => editor[y].does # "publish"
         /\ editor[x].does = "publish" => editor[y].does # "edit"
         /\ editor[x].does = "require" => editor[y].does \notin {"revoke", "rereview"}
         /\ editor[x].does = "revoke" => editor[y].does \notin {"require", "rereview"}
         /\ editor[x].does = "rereview" => editor[y].does \notin {"require", "revoke", "rereview"}
<1>1. ~RubricClash(editor[x].does, editor[y].does) /\ ~RubricClash(editor[y].does, editor[x].does)
  BY DEF EditorsApart
<1> QED
  BY <1>1 DEF RubricClash

\* A call that is not setting a bar begins or ends, or one that is has nobody
\* left to flag or is cut short.
LEMMA EditorTurns ==
  ASSUME RubricsInv, NEW x \in Sessions, NEW row \in EditorRow, editor' = [editor EXCEPT ![x] = row],
         EditorFits(row), EditorsApart', lost' \in BOOLEAN, lost => lost',
         ~lost' => editor[x].does # "require" \/ \A v : Awaited(v) => Awaited(v)' \/ qualification[v] # "ACTIVE",
         UNCHANGED <<rubric, bar, qualification, editions, excused>>
  PROVE  RubricsInv'
<1>1. /\ editor' \in [Sessions -> EditorRow] /\ editor'[x] = row
      /\ \A y \in Sessions \ {x} : editor'[y] = editor[y]
  BY EditorMoves DEF RubricsInv
<1>2. RubricsTyped'
  BY <1>1 DEF RubricsInv, RubricsTyped
<1>3. ASSUME NEW y \in Sessions PROVE EditorFits(editor[y])'
  BY <1>1 DEF RubricsInv, EditorFits, Q!Status
<1>4. Numbered'
  BY DEF RubricsInv, Numbered, Q!Used, Q!Status
<1>5. Surfaced'
  <2>1. ~lost' /\ editor[x].does # "require" => \A v : Awaited(v) => Awaited(v)'
    BY <1>1 DEF Awaited
  <2> QED
    BY <2>1 DEF RubricsInv, Surfaced
<1> QED
  BY <1>2, <1>3, <1>4, <1>5 DEF RubricsInv

LEMMA TakesUpMeans ==
  ASSUME RubricsInv, NEW x \in Sessions, NEW does \in Q!Tasks, NEW s \in EditorRow, Q!TakesUp(x, does, s)
  PROVE  \E row \in EditorRow :
           /\ row = [s EXCEPT !.does = does]
           /\ row.does = does /\ row.at = s.at /\ row.v = s.v /\ row.todo = s.todo
           /\ editor' = [editor EXCEPT ![x] = row] /\ EditorsApart'
           /\ editor[x].at = "idle" /\ editor[x].does = "none"
           /\ \A y \in Sessions \ {x} :
                ~RubricClash(does, editor[y].does) /\ ~RubricClash(editor[y].does, does)
<1> DEFINE row == [s EXCEPT !.does = does]
<1>1. row \in EditorRow /\ row.does = does /\ row.at = s.at /\ row.v = s.v /\ row.todo = s.todo
  BY DEF EditorRow
<1>2. editor' = [editor EXCEPT ![x] = row] /\ editor[x].at = "idle"
  BY DEF Q!TakesUp, Q!Engaged
<1>3. editor[x].does = "none"
  BY <1>2 DEF RubricsInv, EditorFits
<1>4. ASSUME NEW y \in Sessions \ {x}
      PROVE  ~RubricClash(does, editor[y].does) /\ ~RubricClash(editor[y].does, does)
  <2>1. CASE editor[y].at = "idle"
    <3>1. editor[y].does = "none"
      BY <2>1 DEF RubricsInv, EditorFits
    <3> QED
      BY <3>1 DEF RubricClash
  <2>2. CASE editor[y].at # "idle"
    BY <2>2, RubricsApart DEF Q!TakesUp, Q!Engaged
  <2> QED
    BY <2>1, <2>2
<1>5. row = [s EXCEPT !.does = does]
  OBVIOUS
<1> HIDE DEF row
<1>6. /\ editor'[x] = row /\ \A y \in Sessions \ {x} : editor'[y] = editor[y]
  BY <1>1, <1>2, EditorMoves DEF RubricsInv
<1>7. EditorsApart'
  BY <1>1, <1>4, <1>6 DEF RubricsInv, EditorsApart
<1> QED
  BY <1>1, <1>2, <1>3, <1>4, <1>5, <1>7

LEMMA LeavesMeans ==
  ASSUME RubricsInv, NEW x \in Sessions, Q!Leaves(x)
  PROVE  /\ editor' \in [Sessions -> EditorRow] /\ editor'[x] = Q!Free /\ EditorFits(editor[x])'
         /\ \A y \in Sessions \ {x} : editor'[y] = editor[y]
         /\ EditorsApart'
<1>1. /\ editor' \in [Sessions -> EditorRow] /\ editor'[x] = Q!Free
      /\ \A y \in Sessions \ {x} : editor'[y] = editor[y]
  BY FreeRow, EditorMoves DEF RubricsInv, Q!Leaves
<1>2. EditorsApart' /\ EditorFits(editor[x])'
  BY <1>1, FreeRow, EditorsStayApart DEF RubricsInv, EditorFits
<1> QED
  BY <1>1, <1>2

\* How many versions there are.
LEMMA VersionsCounted ==
  ASSUME RubricsInv
  PROVE  Q!LatestVersion \in 0 .. MaxVersion /\ Q!Used = 1 .. Q!LatestVersion
<1>1. PICK n \in 0 .. MaxVersion : Q!Used = 1 .. n
  BY DEF RubricsInv, Numbered
<1>2. Cardinality(1 .. n) = n
  BY RubricBounds, FS_Interval
<1> QED
  BY <1>1, <1>2, SameCardQ DEF Q!LatestVersion

\* The read of a call that sets no bar.
LEMMA RubricReads ==
  ASSUME RubricsInv, NEW x \in Sessions,
         \/ Q!DraftRead(x)
         \/ \E v \in Q!Versions :
              Q!EditRead(x, v) \/ Q!PublishRead(x, v) \/ Q!RereviewRead(x, v) \/ Q!RevokeRead(x, v)
  PROVE  RubricsInv'
<1> DEFINE First(at, v) == [Q!Free EXCEPT !.at = at, !.v = v]
<1>1. \A at \in {"create", "delete", "claim", "write"}, v \in Q!Versions :
        First(at, v) \in EditorRow /\ First(at, v).at = at /\ First(at, v).v = v
  <2>1. \A v \in Q!Versions : v \in 0 .. MaxVersion
    BY RubricBounds DEF Q!Versions
  <2> QED
    BY <2>1, FreeRow DEF Q!Free, EditorRow
<1> HIDE DEF First
<1>2. ASSUME NEW does \in Q!Tasks, NEW at \in {"create", "delete", "claim", "write"}, NEW v \in Q!Versions,
             Q!TakesUp(x, does, First(at, v)),
             does # "require", does = "draft" => at = "create" /\ \A u \in 1 .. (v - 1) : Q!Status(u) = "PUBLISHED",
             does = "edit" => Q!Status(v) = "DRAFT", does = "publish" => rubric[v].criteria # 0,
             does = "rereview" => qualification[v] = "NEEDS_REREVIEW",
             UNCHANGED <<rubric, bar, qualification, editions, excused, lost>>
      PROVE  RubricsInv'
  <2>1. First(at, v) \in EditorRow /\ First(at, v).at = at /\ First(at, v).v = v
    BY <1>1
  <2>2. PICK row \in EditorRow :
          /\ row.does = does /\ row.at = at /\ row.v = v /\ editor' = [editor EXCEPT ![x] = row]
          /\ EditorsApart' /\ editor[x].does = "none"
    BY <1>2, <2>1, TakesUpMeans
  <2>3. EditorFits(row)
    BY <1>2, <2>2 DEF EditorFits, Q!Tasks
  <2>4. lost \in BOOLEAN
    BY DEF RubricsInv, RubricsTyped
  <2> QED
    BY <1>2, <2>2, <2>3, <2>4, EditorTurns
<1>3. CASE Q!DraftRead(x)
  <2> DEFINE n == Q!LatestVersion
  <2>1. n \in 0 .. MaxVersion /\ Q!Used = 1 .. n /\ n < MaxVersion
    BY <1>3, VersionsCounted DEF Q!DraftRead
  <2>2. \A u \in 1 .. ((n + 1) - 1) : Q!Status(u) = "PUBLISHED"
    <3>1. ASSUME NEW u \in 1 .. n PROVE Q!Status(u) = "PUBLISHED"
      <4>1. u \in Q!Used /\ u \in Q!Versions /\ n \in Q!Used /\ n \in Q!Versions
        BY <2>1, RubricBounds DEF Q!Versions
      <4>2. CASE u < n
        BY <4>1, <4>2 DEF RubricsInv, Numbered
      <4>3. CASE u = n
        BY <1>3, <4>1, <4>3 DEF Q!DraftRead, Q!Used, RubricsInv, RubricsTyped, VersionRow, Q!Status
      <4> QED
        BY <2>1, <4>2, <4>3
    <3> QED
      BY <2>1, <3>1
  <2>3. n + 1 \in Q!Versions
    BY <2>1, RubricBounds DEF Q!Versions
  <2>4. Q!TakesUp(x, "draft", First("create", n + 1))
    BY <1>3 DEF Q!DraftRead, First
  <2>5. UNCHANGED <<rubric, bar, qualification, editions, excused, lost>>
    BY <1>3 DEF Q!DraftRead, Q!books
  <2> HIDE DEF n
  <2>6. PICK v \in Q!Versions : v = n + 1
    BY <2>3
  <2> QED
    BY <1>2, <2>2, <2>4, <2>5, <2>6 DEF Q!Tasks
<1>4. ASSUME NEW v \in Q!Versions, Q!EditRead(x, v)
      PROVE  RubricsInv'
  <2>1. Q!TakesUp(x, "edit", First("delete", v)) /\ Q!Status(v) = "DRAFT"
        /\ UNCHANGED <<rubric, bar, qualification, editions, excused, lost>>
    BY <1>4 DEF Q!EditRead, Q!books, First
  <2> QED
    BY <1>2, <2>1 DEF Q!Tasks
<1>5. ASSUME NEW v \in Q!Versions, Q!PublishRead(x, v)
      PROVE  RubricsInv'
  <2>1. Q!TakesUp(x, "publish", First("claim", v)) /\ rubric[v].criteria # 0
        /\ UNCHANGED <<rubric, bar, qualification, editions, excused, lost>>
    BY <1>5 DEF Q!PublishRead, Q!Publishable, Q!books, First
  <2> QED
    BY <1>2, <2>1 DEF Q!Tasks
<1>6. ASSUME NEW v \in Q!Versions, Q!RereviewRead(x, v)
      PROVE  RubricsInv'
  <2>1. Q!TakesUp(x, "rereview", First("write", v)) /\ qualification[v] = "NEEDS_REREVIEW"
        /\ UNCHANGED <<rubric, bar, qualification, editions, excused, lost>>
    BY <1>6 DEF Q!RereviewRead, Q!Rereviewable, Q!books, First
  <2> QED
    BY <1>2, <2>1 DEF Q!Tasks
<1>7. ASSUME NEW v \in Q!Versions, Q!RevokeRead(x, v)
      PROVE  RubricsInv'
  <2>1. Q!TakesUp(x, "revoke", First("write", v))
        /\ UNCHANGED <<rubric, bar, qualification, editions, excused, lost>>
    BY <1>7 DEF Q!RevokeRead, Q!books, First
  <2> QED
    BY <1>2, <2>1 DEF Q!Tasks
<1> QED
  BY <1>3, <1>4, <1>5, <1>6, <1>7

\* What may become of the row of version v, by a call of x.
Rewritable(x, v, row) ==
  /\ Q!Status(v) = "PUBLISHED" => row = rubric[v]
  /\ Q!Status(v) = "DRAFT" => row.status # "NONE"
  /\ Q!Status(v) = "NONE" => row.status = "DRAFT" /\ \A u \in 1 .. (v - 1) : Q!Status(u) = "PUBLISHED"
  /\ row.status = "PUBLISHED" => row.criteria # 0
  /\ \A y \in Sessions \ {x} :
       /\ editor[y].does = "edit" /\ editor[y].v = v => row.status = "DRAFT"
       /\ editor[y].does = "publish" /\ editor[y].v = v => row.criteria # 0

\* One version's row changes, and nothing of the qualifications.
LEMMA VersionWritten ==
  ASSUME RubricsInv, NEW x \in Sessions, editor[x].does \in {"draft", "edit", "publish"},
         editor' \in [Sessions -> EditorRow], EditorsApart', EditorFits(editor[x])',
         \A y \in Sessions \ {x} : editor'[y] = editor[y], editor'[x].does # "require",
         NEW v \in Q!Versions, NEW row \in VersionRow, rubric' = [rubric EXCEPT ![v] = row],
         editions' \in 0 .. MaxEditions,
         Rewritable(x, v, row),
         UNCHANGED <<bar, qualification, excused, lost>>
  PROVE  RubricsInv'
<1> USE DEF Rewritable
<1>1. /\ rubric' \in [Q!Versions -> VersionRow] /\ rubric'[v] = row
      /\ \A u \in Q!Versions \ {v} : rubric'[u] = rubric[u]
  BY DEF RubricsInv, RubricsTyped
<1>2. RubricsTyped'
  BY <1>1 DEF RubricsInv, RubricsTyped
<1>3. \A u \in Q!Versions : Q!Status(u) = "PUBLISHED" => rubric'[u] = rubric[u]
  BY <1>1
<1>4. Q!Used' = Q!Used \cup {v} /\ \A u \in Q!Used : u \in Q!Used'
  BY <1>1 DEF Q!Used, Q!Status, VersionRow, RubricsInv, RubricsTyped
<1>5. Numbered'
  <2>1. PICK n \in 0 .. MaxVersion : Q!Used = 1 .. n
    BY DEF RubricsInv, Numbered
  <2>2. v \in Q!Used \/ v = n + 1
    <3>1. SUFFICES ASSUME v \notin Q!Used PROVE v = n + 1
      OBVIOUS
    <3>2. \A u \in 1 .. (v - 1) : u \in Q!Used
      BY <3>1, RubricBounds DEF Q!Used, Q!Status, Q!Versions
    <3> QED
      BY <2>1, <3>1, <3>2, RubricBounds DEF Q!Versions
  <2>3. \E m \in 0 .. MaxVersion : Q!Used' = 1 .. m
    <3>1. CASE v \in Q!Used
      BY <1>4, <2>1, <3>1
    <3>2. CASE v = n + 1
      <4>1. n + 1 \in 0 .. MaxVersion
        BY <3>2, RubricBounds DEF Q!Versions
      <4>2. (1 .. n) \cup {n + 1} = 1 .. (n + 1)
        BY <2>1, RubricBounds
      <4> QED
        BY <1>4, <2>1, <3>2, <4>1, <4>2
    <3> QED
      BY <2>2, <3>1, <3>2
  <2>4. ASSUME NEW u \in Q!Versions, NEW w \in Q!Versions, u < w, w \in Q!Used'
        PROVE  rubric'[u].status = "PUBLISHED"
    <3>1. CASE w \in Q!Used
      <4>1. Q!Status(u) = "PUBLISHED"
        BY <2>4, <3>1 DEF RubricsInv, Numbered
      <4> QED
        BY <1>3, <4>1 DEF Q!Status
    <3>2. CASE w \notin Q!Used
      <4>1. w = v
        BY <1>4, <2>4, <3>2
      <4>2. Q!Status(v) = "NONE"
        BY <3>2, <4>1 DEF Q!Used
      <4>3. u \in 1 .. (v - 1)
        BY <2>4, <4>1, RubricBounds DEF Q!Versions
      <4>4. Q!Status(u) = "PUBLISHED"
        BY <4>2, <4>3
      <4> QED
        BY <1>3, <4>4 DEF Q!Status
    <3> QED
      BY <3>1, <3>2
  <2>5. ASSUME NEW u \in Q!Versions, rubric'[u].status = "PUBLISHED"
        PROVE  rubric'[u].criteria # 0
    BY <1>1, <2>5 DEF RubricsInv, Numbered, Q!Status
  <2> QED
    BY <2>3, <2>4, <2>5 DEF Numbered, Q!Status
<1>6. ASSUME NEW y \in Sessions \ {x} PROVE EditorFits(editor[y])'
  <2>1. EditorFits(editor[y]) /\ editor'[y] = editor[y] /\ editor[y] \in EditorRow
    BY DEF RubricsInv, RubricsTyped
  <2>2. editor[y].does = "draft" => \A u \in 1 .. (editor[y].v - 1) : u \in Q!Versions
    BY <2>1, RubricBounds DEF EditorFits, Q!Versions
  <2>3. editor[y].does = "draft" => \A u \in 1 .. (editor[y].v - 1) : rubric'[u].status = "PUBLISHED"
    BY <1>3, <2>1, <2>2 DEF EditorFits, Q!Status
  <2>4. editor[y].does = "edit" => rubric'[editor[y].v].status = "DRAFT"
    BY <1>1, <2>1 DEF EditorFits, Q!Status
  <2>5. editor[y].does = "publish" => rubric'[editor[y].v].criteria # 0
    BY <1>1, <2>1 DEF EditorFits
  <2> QED
    BY <2>1, <2>3, <2>4, <2>5 DEF EditorFits, Q!Status
<1>7. \A y \in Sessions : EditorFits(editor[y])'
  BY <1>6
<1>8. Surfaced'
  <2>1. \A u : Awaited(u) => Awaited(u)'
    BY DEF Awaited
  <2> QED
    BY <2>1 DEF RubricsInv, Surfaced
<1> QED
  BY <1>2, <1>5, <1>7, <1>8 DEF RubricsInv

\* An end that writes nothing.
LEMMA EditorEnds ==
  ASSUME RubricsInv, NEW x \in Sessions, Q!Leaves(x), editor[x].does # "require",
         UNCHANGED <<rubric, bar, qualification, editions, excused, lost>>
  PROVE  RubricsInv'
<1>1. /\ editor' = [editor EXCEPT ![x] = Q!Free] /\ EditorsApart' /\ lost \in BOOLEAN
  BY LeavesMeans DEF Q!Leaves, RubricsInv, RubricsTyped
<1>2. EditorFits(Q!Free)
  BY FreeRow DEF EditorFits
<1> QED
  BY <1>1, <1>2, FreeRow, EditorTurns

LEMMA DraftWriteStep == ASSUME RubricsInv, NEW x \in Sessions, Q!DraftWrite(x) PROVE RubricsInv'
<1> DEFINE v == editor[x].v
           row == [status |-> "DRAFT", criteria |-> editions + 1]
<1>1. /\ editor[x].does = "draft" /\ Q!Leaves(x) /\ UNCHANGED <<bar, qualification, excused, lost>>
      /\ v \in Q!Versions /\ \A u \in 1 .. (v - 1) : Q!Status(u) = "PUBLISHED"
  BY DEF Q!DraftWrite, Q!On, RubricsInv, EditorFits
<1>2. CASE v \notin Q!Used /\ editions < MaxEditions
  <2>1. rubric' = [rubric EXCEPT ![v] = row] /\ editions' = editions + 1
    BY <1>1, <1>2 DEF Q!DraftWrite, Q!NextVersion
  <2>2. editions + 1 \in 0 .. MaxEditions /\ editions + 1 # 0
    BY <1>2, RubricBounds DEF RubricsInv, RubricsTyped
  <2>3. row \in VersionRow /\ row.status = "DRAFT" /\ row.criteria # 0
    BY <2>2 DEF VersionRow
  <2>4. Q!Status(v) = "NONE"
    BY <1>1, <1>2 DEF Q!Used
  <2> HIDE DEF row, v
  <2>5. /\ editor' \in [Sessions -> EditorRow] /\ EditorsApart' /\ EditorFits(editor[x])'
        /\ \A y \in Sessions \ {x} : editor'[y] = editor[y]
        /\ editor'[x].does # "require"
    BY <1>1, FreeRow, LeavesMeans
  <2>6. Rewritable(x, v, row)
    BY <1>1, <2>3, <2>4 DEF Rewritable
  <2> QED
    BY <1>1, <2>1, <2>2, <2>3, <2>5, <2>6, VersionWritten
<1>3. CASE ~(v \notin Q!Used /\ editions < MaxEditions)
  <2>1. UNCHANGED <<rubric, editions>>
    BY <1>3 DEF Q!DraftWrite, Q!NextVersion
  <2> QED
    BY <1>1, <2>1, EditorEnds
<1> QED
  BY <1>2, <1>3

LEMMA EditDeleteStep == ASSUME RubricsInv, NEW x \in Sessions, Q!EditDelete(x) PROVE RubricsInv'
<1> DEFINE v == editor[x].v
           row == [rubric[v] EXCEPT !.criteria = 0]
           next == [editor[x] EXCEPT !.at = "create"]
<1>1. /\ editor[x].does = "edit" /\ editor[x].at = "delete" /\ v \in Q!Versions /\ Q!Status(v) = "DRAFT"
      /\ rubric' = [rubric EXCEPT ![v].criteria = 0] /\ editor' = [editor EXCEPT ![x] = next]
      /\ UNCHANGED <<bar, qualification, editions, excused, lost>>
      /\ rubric \in [Q!Versions -> VersionRow] /\ editor[x] \in EditorRow
  BY DEF Q!EditDelete, Q!On, Q!GoesOn, RubricsInv, RubricsTyped, EditorFits
<1>2. next \in EditorRow /\ next.does = "edit" /\ next.v = v /\ next.at = "create"
  BY <1>1 DEF EditorRow
<1>3. row \in VersionRow /\ row.status = "DRAFT"
  BY <1>1, RubricBounds DEF VersionRow, Q!Status
<1>4. rubric' = [rubric EXCEPT ![v] = row]
  BY <1>1
<1> HIDE DEF row, next
<1>5. /\ editor' \in [Sessions -> EditorRow] /\ editor'[x] = next
      /\ \A y \in Sessions \ {x} : editor'[y] = editor[y]
  BY <1>1, <1>2, EditorMoves DEF RubricsInv
<1>6. EditorsApart'
  BY <1>1, <1>2, <1>5, EditorsStayApart DEF RubricsInv
<1>7. rubric'[v].status = "DRAFT"
  BY <1>1, <1>3, <1>4
<1>8. EditorFits(editor[x])'
  BY <1>1, <1>2, <1>5, <1>7 DEF EditorFits, Q!Status
<1>9. \A y \in Sessions \ {x} : editor[y].does # "publish"
  BY <1>1, RubricClashMeans DEF RubricsInv
<1>10. editions' \in 0 .. MaxEditions
  BY <1>1 DEF RubricsInv, RubricsTyped
<1> HIDE DEF v
<1>11. Rewritable(x, v, row)
  BY <1>1, <1>3, <1>9 DEF Rewritable
<1>12. /\ editor[x].does \in {"draft", "edit", "publish"} /\ editor'[x].does # "require"
       /\ v \in Q!Versions /\ UNCHANGED <<bar, qualification, excused, lost>>
  BY <1>1, <1>2, <1>5
<1> QED
  BY <1>3, <1>4, <1>5, <1>6, <1>8, <1>10, <1>11, <1>12, VersionWritten

LEMMA EditCreateStep == ASSUME RubricsInv, NEW x \in Sessions, Q!EditCreate(x) PROVE RubricsInv'
<1> DEFINE v == editor[x].v
           row == [rubric[v] EXCEPT !.criteria = editions + 1]
<1>1. /\ editor[x].does = "edit" /\ v \in Q!Versions /\ Q!Status(v) = "DRAFT" /\ Q!Leaves(x)
      /\ UNCHANGED <<bar, qualification, excused, lost>> /\ rubric \in [Q!Versions -> VersionRow]
  BY DEF Q!EditCreate, Q!On, RubricsInv, RubricsTyped, EditorFits
<1>2. CASE editions < MaxEditions
  <2>1. rubric' = [rubric EXCEPT ![v] = row] /\ editions' = editions + 1
    BY <1>1, <1>2 DEF Q!EditCreate
  <2>2. editions + 1 \in 0 .. MaxEditions /\ editions + 1 # 0
    BY <1>2, RubricBounds DEF RubricsInv, RubricsTyped
  <2>3. row \in VersionRow /\ row.status = "DRAFT" /\ row.criteria # 0
    BY <1>1, <2>2 DEF VersionRow, Q!Status
  <2> HIDE DEF row, v
  <2>4. /\ editor' \in [Sessions -> EditorRow] /\ EditorsApart' /\ EditorFits(editor[x])'
        /\ \A y \in Sessions \ {x} : editor'[y] = editor[y]
        /\ editor'[x].does # "require"
    BY <1>1, FreeRow, LeavesMeans
  <2>5. Rewritable(x, v, row)
    BY <1>1, <2>3 DEF Rewritable
  <2> QED
    BY <1>1, <2>1, <2>2, <2>3, <2>4, <2>5, VersionWritten
<1>3. CASE ~(editions < MaxEditions)
  <2>1. UNCHANGED <<rubric, editions>>
    BY <1>3 DEF Q!EditCreate
  <2> QED
    BY <1>1, <2>1, EditorEnds
<1> QED
  BY <1>2, <1>3

LEMMA PublishClaimStep == ASSUME RubricsInv, NEW x \in Sessions, Q!PublishClaim(x) PROVE RubricsInv'
<1> DEFINE v == editor[x].v
           row == [rubric[v] EXCEPT !.status = "PUBLISHED"]
<1>1. /\ editor[x].does = "publish" /\ v \in Q!Versions /\ rubric[v].criteria # 0 /\ Q!Leaves(x)
      /\ UNCHANGED <<bar, qualification, editions, excused, lost>> /\ rubric \in [Q!Versions -> VersionRow]
      /\ editions \in 0 .. MaxEditions
  BY DEF Q!PublishClaim, Q!On, RubricsInv, RubricsTyped, EditorFits
<1>2. CASE Q!Status(v) = "DRAFT"
  <2>1. rubric' = [rubric EXCEPT ![v] = row]
    BY <1>1, <1>2 DEF Q!PublishClaim
  <2>2. row \in VersionRow /\ row.status = "PUBLISHED" /\ row.criteria # 0
    BY <1>1 DEF VersionRow
  <2> HIDE DEF row, v
  <2>3. /\ editor' \in [Sessions -> EditorRow] /\ EditorsApart' /\ EditorFits(editor[x])'
        /\ \A y \in Sessions \ {x} : editor'[y] = editor[y]
        /\ editor'[x].does # "require"
    BY <1>1, FreeRow, LeavesMeans
  <2>4. \A y \in Sessions \ {x} : editor[y].does # "edit"
    BY <1>1, RubricClashMeans DEF RubricsInv
  <2>5. Rewritable(x, v, row)
    BY <1>2, <2>2, <2>4 DEF Rewritable
  <2>6. editor[x].does \in {"draft", "edit", "publish"} /\ v \in Q!Versions /\ editions' \in 0 .. MaxEditions
        /\ UNCHANGED <<bar, qualification, excused, lost>>
    BY <1>1
  <2> QED
    BY <2>1, <2>2, <2>3, <2>5, <2>6, VersionWritten
<1>3. CASE Q!Status(v) # "DRAFT"
  <2>1. rubric' = rubric
    BY <1>3 DEF Q!PublishClaim
  <2> QED
    BY <1>1, <2>1, EditorEnds
<1> QED
  BY <1>2, <1>3

\* One qualification changes, by id; whoever comes into force is excused.
LEMMA QualificationWritten ==
  ASSUME RubricsInv, NEW x \in Sessions, NEW v \in Q!Versions,
         NEW to \in {"ACTIVE", "NEEDS_REREVIEW", "SUPERSEDED", "REVOKED"},
         qualification' = [qualification EXCEPT ![v] = to],
         excused \subseteq excused', to = "ACTIVE" => v \in excused',
         editor' \in [Sessions -> EditorRow], EditorsApart', EditorFits(editor[x])',
         \A y \in Sessions \ {x} : editor'[y] = editor[y],
         \A u \in Q!Versions \ {v} : Awaited(u) => Awaited(u)',
         to # "NEEDS_REREVIEW" =>
           \A y \in Sessions \ {x} : editor[y].does # "rereview" /\ (editor[y].does = "require" => to = "ACTIVE"),
         UNCHANGED <<rubric, bar, editions, lost>>
  PROVE  RubricsInv'
<1>1. /\ qualification'[v] = to /\ \A u \in Q!Versions \ {v} : qualification'[u] = qualification[u]
      /\ qualification' \in [Q!Versions -> {"NONE", "ACTIVE", "NEEDS_REREVIEW", "SUPERSEDED", "REVOKED"}]
  BY DEF RubricsInv, RubricsTyped
<1>2. RubricsTyped'
  BY <1>1 DEF RubricsInv, RubricsTyped
<1>3. ASSUME NEW y \in Sessions \ {x} PROVE EditorFits(editor[y])'
  <2>1. EditorFits(editor[y]) /\ editor'[y] = editor[y] /\ editor[y].todo \subseteq Q!Versions
    BY DEF RubricsInv, RubricsTyped, EditorRow
  <2> QED
    BY <1>1, <2>1 DEF EditorFits, Q!Status
<1>4. \A y \in Sessions : EditorFits(editor[y])'
  BY <1>3
<1>5. Numbered'
  BY DEF RubricsInv, Numbered, Q!Used, Q!Status
<1>6. Surfaced'
  BY <1>1 DEF RubricsInv, Surfaced
<1> QED
  BY <1>2, <1>4, <1>5, <1>6 DEF RubricsInv

LEMMA GrantStep == ASSUME RubricsInv, NEW v \in Q!Versions, Q!Grant(v) PROVE RubricsInv'
<1>1. /\ qualification' = [qualification EXCEPT ![v] = "ACTIVE"] /\ qualification[v] = "NONE"
      /\ excused' = excused \cup {v} /\ UNCHANGED <<rubric, bar, editor, editions, lost>>
  BY DEF Q!Grant
<1>2. /\ qualification'[v] = "ACTIVE" /\ \A u \in Q!Versions \ {v} : qualification'[u] = qualification[u]
      /\ qualification' \in [Q!Versions -> {"NONE", "ACTIVE", "NEEDS_REREVIEW", "SUPERSEDED", "REVOKED"}]
  BY <1>1 DEF RubricsInv, RubricsTyped
<1>3. RubricsTyped' /\ EditorsApart' /\ Numbered'
  BY <1>1, <1>2 DEF RubricsInv, RubricsTyped, EditorsApart, Numbered, Q!Used, Q!Status
<1>4. ASSUME NEW y \in Sessions PROVE EditorFits(editor[y])'
  <2>1. EditorFits(editor[y]) /\ editor'[y] = editor[y] /\ editor[y].todo \subseteq Q!Versions
    BY <1>1 DEF RubricsInv, RubricsTyped, EditorRow
  <2> QED
    BY <1>1, <1>2, <2>1 DEF EditorFits, Q!Status
<1>5. Surfaced'
  <2>1. \A u : Awaited(u) => Awaited(u)'
    BY <1>1 DEF Awaited
  <2> QED
    BY <1>1, <1>2, <2>1 DEF RubricsInv, Surfaced
<1> QED
  BY <1>3, <1>4, <1>5 DEF RubricsInv

LEMMA RequireWriteStep ==
  ASSUME RubricsInv, NEW x \in Sessions, NEW p \in Projects, NEW v \in Q!Versions, Q!RequireWrite(x, p, v)
  PROVE  RubricsInv'
<1> DEFINE first == [Q!Free EXCEPT !.at = "find", !.v = v, !.p = p]
<1>1. /\ bar' = [bar EXCEPT ![p] = v] /\ excused' = excused \ 1 .. (v - 1)
      /\ Q!TakesUp(x, "require", first) /\ UNCHANGED <<rubric, qualification, editions, lost>>
  BY DEF Q!RequireWrite
<1>2. first \in EditorRow /\ first.at = "find" /\ first.v = v
  <2>1. v \in 0 .. MaxVersion
    BY RubricBounds DEF Q!Versions
  <2>2. {} \in SUBSET Q!Versions
    OBVIOUS
  <2> QED
    BY <2>1, <2>2 DEF Q!Free, EditorRow
<1> HIDE DEF first
<1>3. PICK row \in EditorRow :
        /\ row.does = "require" /\ row.at = "find" /\ row.v = v
        /\ editor' = [editor EXCEPT ![x] = row] /\ EditorsApart' /\ editor[x].does = "none"
  <2>1. "require" \in Q!Tasks
    BY DEF Q!Tasks
  <2> QED
    BY <1>1, <1>2, <2>1, TakesUpMeans
<1>4. /\ editor' \in [Sessions -> EditorRow] /\ editor'[x] = row
      /\ \A y \in Sessions \ {x} : editor'[y] = editor[y]
  BY <1>3, EditorMoves DEF RubricsInv
<1>5. bar' \in [Projects -> 0 .. MaxVersion] /\ bar'[p] = v /\ \A q \in Projects \ {p} : bar'[q] = bar[q]
  <2>1. v \in 0 .. MaxVersion
    BY RubricBounds DEF Q!Versions
  <2> QED
    BY <1>1, <2>1 DEF RubricsInv, RubricsTyped
<1>6. RubricsTyped' /\ Numbered'
  BY <1>1, <1>4, <1>5 DEF RubricsInv, RubricsTyped, Numbered, Q!Used, Q!Status
<1>7. ASSUME NEW y \in Sessions PROVE EditorFits(editor[y])'
  <2>1. CASE y = x
    BY <1>3, <1>4, <2>1 DEF EditorFits
  <2>2. CASE y # x
    BY <1>1, <1>4, <2>2 DEF RubricsInv, EditorFits, Q!Status
  <2> QED
    BY <2>1, <2>2
<1>8. Surfaced'
  <2>1. \A u : Awaited(u) => Awaited(u)'
    BY <1>3, <1>4 DEF Awaited
  <2>2. \A u \in Q!Versions : u < v => Awaited(u)'
    BY <1>3, <1>4 DEF Awaited
  <2>3. \A u \in Q!Versions : u \in excused /\ u \notin excused' => u < v
    BY <1>1, RubricBounds DEF Q!Versions
  <2>4. ASSUME NEW q \in Projects, NEW u \in Q!Versions, ~lost', u < bar'[q], qualification'[u] = "ACTIVE"
        PROVE  u \in excused' \/ Awaited(u)'
    <3>1. CASE q = p
      BY <1>5, <2>2, <2>4, <3>1
    <3>2. CASE q # p
      <4>1. u \in excused \/ Awaited(u)
        BY <1>1, <1>5, <2>4, <3>2 DEF RubricsInv, Surfaced
      <4> QED
        BY <2>1, <2>2, <2>3, <4>1
    <3> QED
      BY <3>1, <3>2
  <2> QED
    BY <2>4 DEF Surfaced
<1> QED
  BY <1>3, <1>6, <1>7, <1>8 DEF RubricsInv

LEMMA RequireFindStep == ASSUME RubricsInv, NEW x \in Sessions, Q!RequireFind(x) PROVE RubricsInv'
<1> DEFINE found == Q!BelowBar(editor[x].v)
           row == [editor[x] EXCEPT !.todo = found, !.at = "flag"]
<1>1. /\ editor[x].does = "require" /\ editor[x].at = "find" /\ editor[x] \in EditorRow
      /\ EditorFits(editor[x]) /\ UNCHANGED <<rubric, bar, qualification, editions, excused, lost>>
      /\ lost \in BOOLEAN
  BY DEF Q!RequireFind, Q!On, Q!books, RubricsInv, RubricsTyped
<1>2. CASE found = {}
  <2>1. editor' = [editor EXCEPT ![x] = Q!Free] /\ Q!Leaves(x)
    BY <1>2 DEF Q!RequireFind, Q!Leaves
  <2>2. EditorsApart' /\ EditorFits(Q!Free)
    BY <2>1, FreeRow, LeavesMeans DEF EditorFits
  <2>3. /\ editor' \in [Sessions -> EditorRow] /\ editor'[x] = Q!Free
        /\ \A y \in Sessions \ {x} : editor'[y] = editor[y]
    BY <2>1, FreeRow, EditorMoves DEF RubricsInv
  <2>4. Surfaced'
    <3>1. ASSUME NEW u \in Q!Versions, qualification[u] = "ACTIVE", Awaited(u) PROVE Awaited(u)'
      <4>1. PICK y \in Sessions :
              /\ editor[y].does = "require"
              /\ \/ editor[y].at = "find" /\ u < editor[y].v
                 \/ editor[y].at = "flag" /\ u \in editor[y].todo
        BY <3>1 DEF Awaited
      <4>2. y # x
        BY <1>1, <1>2, <3>1, <4>1 DEF Q!BelowBar
      <4> QED
        BY <2>3, <4>1, <4>2 DEF Awaited
    <3> QED
      BY <1>1, <3>1 DEF RubricsInv, Surfaced
  <2>5. RubricsTyped' /\ Numbered'
    BY <1>1, <2>3 DEF RubricsInv, RubricsTyped, Numbered, Q!Used, Q!Status
  <2>6. ASSUME NEW y \in Sessions PROVE EditorFits(editor[y])'
    BY <1>1, <2>2, <2>3 DEF RubricsInv, EditorFits, Q!Status
  <2> QED
    BY <2>2, <2>4, <2>5, <2>6 DEF RubricsInv
<1>3. CASE found # {}
  <2>1. editor' = [editor EXCEPT ![x].todo = found, ![x].at = "flag"]
    BY <1>3 DEF Q!RequireFind
  <2>2. editor' = [editor EXCEPT ![x] = row]
    BY <2>1 DEF RubricsInv, RubricsTyped
  <2>3. /\ row \in EditorRow /\ row.does = "require" /\ row.at = "flag" /\ row.v = editor[x].v
        /\ row.todo = found
    <3>1. found \in SUBSET Q!Versions
      BY DEF Q!BelowBar
    <3> QED
      BY <1>1, <3>1 DEF EditorRow
  <2>4. \A u \in found : qualification[u] = "ACTIVE"
    BY DEF Q!BelowBar
  <2>5. \A u \in Q!Versions : u < editor[x].v /\ qualification[u] = "ACTIVE" => u \in found
    BY DEF Q!BelowBar
  <2> HIDE DEF row, found
  <2>6. /\ editor' \in [Sessions -> EditorRow] /\ editor'[x] = row
        /\ \A y \in Sessions \ {x} : editor'[y] = editor[y]
    BY <2>2, <2>3, EditorMoves DEF RubricsInv
  <2>7. EditorsApart'
    BY <1>1, <2>3, <2>6, EditorsStayApart DEF RubricsInv
  <2>8. ASSUME NEW y \in Sessions PROVE EditorFits(editor[y])'
    <3>1. CASE y = x
      BY <1>1, <2>3, <2>4, <2>6, <3>1 DEF EditorFits
    <3>2. CASE y # x
      BY <1>1, <2>6, <3>2 DEF RubricsInv, EditorFits, Q!Status
    <3> QED
      BY <3>1, <3>2
  <2>9. Surfaced'
    <3>1. ASSUME NEW u \in Q!Versions, qualification[u] = "ACTIVE", Awaited(u) PROVE Awaited(u)'
      <4>1. PICK y \in Sessions :
              /\ editor[y].does = "require"
              /\ \/ editor[y].at = "find" /\ u < editor[y].v
                 \/ editor[y].at = "flag" /\ u \in editor[y].todo
        BY <3>1 DEF Awaited
      <4>2. CASE y = x
        <5>1. u \in row.todo
          BY <1>1, <2>3, <2>5, <3>1, <4>1, <4>2
        <5> QED
          BY <2>3, <2>6, <5>1 DEF Awaited
      <4>3. CASE y # x
        BY <2>6, <4>1, <4>3 DEF Awaited
      <4> QED
        BY <4>2, <4>3
    <3> QED
      BY <1>1, <3>1 DEF RubricsInv, Surfaced
  <2>10. RubricsTyped' /\ Numbered'
    BY <1>1, <2>6 DEF RubricsInv, RubricsTyped, Numbered, Q!Used, Q!Status
  <2> QED
    BY <2>7, <2>8, <2>9, <2>10 DEF RubricsInv
<1> QED
  BY <1>2, <1>3

LEMMA RequireFlagStep == ASSUME RubricsInv, NEW x \in Sessions, Q!RequireFlag(x) PROVE RubricsInv'
<1>1. /\ editor[x].does = "require" /\ editor[x].at = "flag" /\ editor[x] \in EditorRow
      /\ EditorFits(editor[x]) /\ UNCHANGED <<rubric, bar, editions, excused, lost>>
      /\ editor[x].todo \subseteq Q!Versions /\ EditorsApart /\ editor \in [Sessions -> EditorRow]
  BY DEF Q!RequireFlag, Q!On, RubricsInv, RubricsTyped, EditorRow
<1>2. PICK v \in editor[x].todo :
        /\ qualification' = [qualification EXCEPT ![v] = "NEEDS_REREVIEW"]
        /\ IF editor[x].todo = {v} THEN Q!Leaves(x)
           ELSE editor' = [editor EXCEPT ![x].todo = @ \ {v}]
  BY DEF Q!RequireFlag
<1>3. v \in Q!Versions /\ excused \subseteq excused'
  BY <1>1
<1>4. qualification'[v] = "NEEDS_REREVIEW" /\ \A u \in Q!Versions \ {v} : qualification'[u] = qualification[u]
  BY <1>2, <1>3 DEF RubricsInv, RubricsTyped
<1>5. /\ editor' \in [Sessions -> EditorRow] /\ EditorsApart' /\ EditorFits(editor[x])'
      /\ \A y \in Sessions \ {x} : editor'[y] = editor[y]
      /\ \A u \in Q!Versions \ {v} : Awaited(u) => Awaited(u)'
  <2>1. CASE editor[x].todo = {v}
    <3>1. Q!Leaves(x)
      BY <1>2, <2>1
    <3>2. /\ editor' \in [Sessions -> EditorRow] /\ EditorsApart' /\ EditorFits(editor[x])'
          /\ \A y \in Sessions \ {x} : editor'[y] = editor[y]
      BY <3>1, LeavesMeans
    <3>3. ASSUME NEW u \in Q!Versions \ {v}, Awaited(u) PROVE Awaited(u)'
      <4>1. PICK y \in Sessions :
              /\ editor[y].does = "require"
              /\ \/ editor[y].at = "find" /\ u < editor[y].v
                 \/ editor[y].at = "flag" /\ u \in editor[y].todo
        BY <3>3 DEF Awaited
      <4>2. y # x
        BY <1>1, <2>1, <3>3, <4>1
      <4> QED
        BY <3>2, <4>1, <4>2 DEF Awaited
    <3> QED
      BY <3>2, <3>3
  <2>2. CASE editor[x].todo # {v}
    <3> DEFINE row == [editor[x] EXCEPT !.todo = editor[x].todo \ {v}]
    <3>1. editor' = [editor EXCEPT ![x] = row]
      BY <1>1, <1>2, <2>2
    <3>2. /\ row \in EditorRow /\ row.does = "require" /\ row.at = "flag" /\ row.v = editor[x].v
          /\ row.todo = editor[x].todo \ {v}
      <4>1. editor[x].todo \ {v} \in SUBSET Q!Versions
        BY <1>1
      <4> QED
        BY <1>1, <4>1 DEF EditorRow
    <3> HIDE DEF row
    <3>3. /\ editor' \in [Sessions -> EditorRow] /\ editor'[x] = row
          /\ \A y \in Sessions \ {x} : editor'[y] = editor[y]
      BY <3>1, <3>2, EditorMoves DEF RubricsInv
    <3>4. EditorsApart'
      BY <1>1, <3>2, <3>3, EditorsStayApart
    <3>5. EditorFits(editor[x])'
      BY <1>1, <1>4, <3>2, <3>3 DEF EditorFits
    <3>6. ASSUME NEW u \in Q!Versions \ {v}, Awaited(u) PROVE Awaited(u)'
      <4>1. PICK y \in Sessions :
              /\ editor[y].does = "require"
              /\ \/ editor[y].at = "find" /\ u < editor[y].v
                 \/ editor[y].at = "flag" /\ u \in editor[y].todo
        BY <3>6 DEF Awaited
      <4>2. CASE y = x
        BY <1>1, <3>2, <3>3, <3>6, <4>1, <4>2 DEF Awaited
      <4>3. CASE y # x
        BY <3>3, <4>1, <4>3 DEF Awaited
      <4> QED
        BY <4>2, <4>3
    <3> QED
      BY <3>3, <3>4, <3>5, <3>6
  <2> QED
    BY <2>1, <2>2
<1> QED
  BY <1>1, <1>2, <1>3, <1>5, QualificationWritten

LEMMA RereviewWriteStep == ASSUME RubricsInv, NEW x \in Sessions, Q!RereviewWrite(x) PROVE RubricsInv'
<1>1. PICK to \in {"ACTIVE", "SUPERSEDED"} : qualification' = [qualification EXCEPT ![editor[x].v] = to]
  BY DEF Q!RereviewWrite
<1>2. /\ editor[x].does = "rereview" /\ excused' = excused \cup {editor[x].v} /\ Q!Leaves(x)
      /\ UNCHANGED <<rubric, bar, editions, lost>> /\ editor[x].v \in Q!Versions
  BY DEF Q!RereviewWrite, Q!On, RubricsInv, EditorFits
<1>3. /\ editor' \in [Sessions -> EditorRow] /\ EditorsApart' /\ EditorFits(editor[x])'
      /\ \A y \in Sessions \ {x} : editor'[y] = editor[y]
  BY <1>2, LeavesMeans
<1>4. \A u \in Q!Versions : Awaited(u) => Awaited(u)'
  BY <1>2, <1>3 DEF Awaited
<1>5. \A y \in Sessions \ {x} : editor[y].does # "rereview" /\ editor[y].does # "require"
  BY <1>2, RubricClashMeans DEF RubricsInv
<1>6. PICK v \in Q!Versions : v = editor[x].v
  BY <1>2
<1>7. excused \subseteq excused' /\ v \in excused'
  BY <1>2, <1>6
<1> QED
  BY <1>1, <1>2, <1>3, <1>4, <1>5, <1>6, <1>7, QualificationWritten

LEMMA RevokeWriteStep == ASSUME RubricsInv, NEW x \in Sessions, Q!RevokeWrite(x) PROVE RubricsInv'
<1>1. /\ editor[x].does = "revoke" /\ qualification' = [qualification EXCEPT ![editor[x].v] = "REVOKED"]
      /\ Q!Leaves(x) /\ UNCHANGED <<rubric, bar, editions, excused, lost>> /\ editor[x].v \in Q!Versions
  BY DEF Q!RevokeWrite, Q!On, RubricsInv, EditorFits
<1>2. /\ editor' \in [Sessions -> EditorRow] /\ EditorsApart' /\ EditorFits(editor[x])'
      /\ \A y \in Sessions \ {x} : editor'[y] = editor[y]
  BY <1>1, LeavesMeans
<1>3. \A u \in Q!Versions : Awaited(u) => Awaited(u)'
  BY <1>1, <1>2 DEF Awaited
<1>4. \A y \in Sessions \ {x} : editor[y].does # "rereview" /\ editor[y].does # "require"
  BY <1>1, RubricClashMeans DEF RubricsInv
<1>5. PICK v \in Q!Versions : v = editor[x].v
  BY <1>1
<1>6. excused \subseteq excused'
  BY <1>1
<1> QED
  BY <1>1, <1>2, <1>3, <1>4, <1>5, <1>6, QualificationWritten

LEMMA EditorDiesStep == ASSUME RubricsInv, NEW x \in Sessions, Q!EditorDies(x) PROVE RubricsInv'
<1>1. /\ lost' = (lost \/ editor[x].does = "require") /\ Q!Leaves(x)
      /\ UNCHANGED <<rubric, bar, qualification, editions, excused>>
  BY DEF Q!EditorDies, Q!books
<1>2. lost' \in BOOLEAN /\ (lost => lost') /\ (~lost' => editor[x].does # "require")
  <2>1. lost \in BOOLEAN
    BY DEF RubricsInv, RubricsTyped
  <2> QED
    BY <1>1, <2>1
<1>3. editor' = [editor EXCEPT ![x] = Q!Free] /\ EditorsApart' /\ EditorFits(Q!Free)
  BY <1>1, FreeRow, LeavesMeans DEF Q!Leaves, EditorFits
<1> QED
  BY <1>1, <1>2, <1>3, FreeRow, EditorTurns

LEMMA RubricsStep == ASSUME RubricsInv, [Q!Next]_(Q!vars) PROVE RubricsInv'
<1>1. ASSUME NEW x \in Sessions, NEW v \in Q!Versions,
             Q!EditRead(x, v) \/ Q!PublishRead(x, v) \/ Q!RereviewRead(x, v) \/ Q!RevokeRead(x, v)
      PROVE  RubricsInv'
  BY <1>1, RubricReads
<1>2. ASSUME NEW x \in Sessions, Q!DraftRead(x) PROVE RubricsInv'
  BY <1>2, RubricReads
<1>3. ASSUME NEW x \in Sessions,
             \/ \E p \in Projects, v \in Q!Versions : Q!RequireWrite(x, p, v)
             \/ Q!DraftWrite(x) \/ Q!EditDelete(x) \/ Q!EditCreate(x) \/ Q!PublishClaim(x)
             \/ Q!RequireFind(x) \/ Q!RequireFlag(x) \/ Q!RereviewWrite(x) \/ Q!RevokeWrite(x)
             \/ Q!EditorDies(x)
      PROVE  RubricsInv'
  BY <1>3, RequireWriteStep, DraftWriteStep, EditDeleteStep, EditCreateStep, PublishClaimStep,
     RequireFindStep, RequireFlagStep, RereviewWriteStep, RevokeWriteStep, EditorDiesStep
<1>4. ASSUME NEW v \in Q!Versions, Q!Grant(v) PROVE RubricsInv'
  BY <1>4, GrantStep
<1>5. CASE UNCHANGED Q!vars
  BY <1>5 DEF Q!vars, Q!books, RubricsInv, RubricsTyped, EditorsApart, EditorFits, Numbered, Surfaced,
     Awaited, Q!Used, Q!Status
<1> QED
  BY <1>1, <1>2, <1>3, <1>4, <1>5 DEF Q!Next, Q!EditorStep

LEMMA RubricsKept == ASSUME RubricsInv PROVE Q!VersionsSound /\ Q!BarSurfaces
<1> DEFINE n == Q!LatestVersion
<1>1. n \in 0 .. MaxVersion /\ Q!Used = 1 .. n
  BY VersionsCounted
<1>2. Q!VersionsSound
  <2>1. ASSUME NEW v \in Q!Used, Q!Status(v) = "DRAFT" PROVE v = n
    <3>1. v \in Q!Versions /\ v \in 1 .. n /\ n \in Q!Used /\ n \in Q!Versions
      BY <1>1, <2>1, RubricBounds DEF Q!Versions
    <3>2. ~(v < n)
      BY <2>1, <3>1 DEF RubricsInv, Numbered
    <3> QED
      BY <1>1, <3>1, <3>2
  <2>2. \A v \in Q!Used : v \in Q!Versions
    BY DEF Q!Used
  <2> QED
    BY <1>1, <2>1, <2>2 DEF Q!VersionsSound, RubricsInv, Numbered
<1>3. Q!BarSurfaces
  <2>1. ASSUME NEW p \in Projects, ~lost, \A x \in Sessions : editor[x].does # "require",
               NEW v \in 1 .. (bar[p] - 1), qualification[v] = "ACTIVE"
        PROVE  v \in excused
    <3>1. bar[p] \in 0 .. MaxVersion
      BY DEF RubricsInv, RubricsTyped
    <3>2. v \in Q!Versions /\ v < bar[p]
      BY <3>1, RubricBounds DEF Q!Versions
    <3>3. v \in excused \/ Awaited(v)
      BY <2>1, <3>2 DEF RubricsInv, Surfaced
    <3> QED
      BY <2>1, <3>3 DEF Awaited
  <2> QED
    BY <2>1 DEF Q!BarSurfaces
<1> QED
  BY <1>2, <1>3

LEMMA PublishedKept ==
  ASSUME RubricsInv, [Q!Next]_(Q!vars), NEW v \in Q!Versions, Q!Status(v) = "PUBLISHED"
  PROVE  rubric'[v] = rubric[v]
<1>1. ASSUME NEW x \in Sessions, Q!DraftWrite(x) PROVE rubric'[v] = rubric[v]
  BY <1>1 DEF Q!DraftWrite, Q!NextVersion, Q!Used, RubricsInv, RubricsTyped
<1>2. ASSUME NEW x \in Sessions, Q!EditDelete(x) \/ Q!EditCreate(x) PROVE rubric'[v] = rubric[v]
  <2>1. Q!Status(editor[x].v) = "DRAFT"
    BY <1>2 DEF Q!EditDelete, Q!EditCreate, Q!On, RubricsInv, EditorFits
  <2>2. editor[x].v # v
    BY <2>1
  <2> QED
    BY <1>2, <2>2 DEF Q!EditDelete, Q!EditCreate, RubricsInv, RubricsTyped
<1>3. ASSUME NEW x \in Sessions, Q!PublishClaim(x) PROVE rubric'[v] = rubric[v]
  BY <1>3 DEF Q!PublishClaim, RubricsInv, RubricsTyped
<1>4. ASSUME NEW x \in Sessions,
             \/ \E u \in Q!Versions : Q!EditRead(x, u) \/ Q!PublishRead(x, u) \/ Q!RereviewRead(x, u) \/ Q!RevokeRead(x, u)
             \/ \E p \in Projects, u \in Q!Versions : Q!RequireWrite(x, p, u)
             \/ Q!DraftRead(x) \/ Q!RequireFind(x) \/ Q!RequireFlag(x) \/ Q!RereviewWrite(x)
             \/ Q!RevokeWrite(x) \/ Q!EditorDies(x)
      PROVE  rubric' = rubric
  BY <1>4 DEF Q!EditRead, Q!PublishRead, Q!RereviewRead, Q!RevokeRead, Q!RequireWrite, Q!DraftRead,
     Q!RequireFind, Q!RequireFlag, Q!RereviewWrite, Q!RevokeWrite, Q!EditorDies, Q!books
<1>5. ASSUME NEW u \in Q!Versions, Q!Grant(u) PROVE rubric' = rubric
  BY <1>5 DEF Q!Grant
<1>6. CASE UNCHANGED Q!vars
  BY <1>6 DEF Q!vars, Q!books
<1> QED
  BY <1>1, <1>2, <1>3, <1>4, <1>5, <1>6 DEF Q!Next, Q!EditorStep

LEMMA RevokedKept ==
  ASSUME RubricsInv, [Q!Next]_(Q!vars), NEW v \in Q!Versions, qualification[v] \in {"REVOKED", "SUPERSEDED"}
  PROVE  qualification'[v] \notin {"ACTIVE", "NEEDS_REREVIEW"}
<1>1. ASSUME NEW x \in Sessions, Q!RequireFlag(x) PROVE qualification'[v] = qualification[v]
  <2>1. PICK u \in editor[x].todo : qualification' = [qualification EXCEPT ![u] = "NEEDS_REREVIEW"]
    BY <1>1 DEF Q!RequireFlag
  <2>2. qualification[u] \in {"ACTIVE", "NEEDS_REREVIEW"}
    BY <1>1, <2>1 DEF Q!RequireFlag, Q!On, RubricsInv, EditorFits
  <2>3. u # v
    BY <2>2
  <2> QED
    BY <2>1, <2>3 DEF RubricsInv, RubricsTyped
<1>2. ASSUME NEW x \in Sessions, Q!RereviewWrite(x) PROVE qualification'[v] = qualification[v]
  <2>1. qualification[editor[x].v] = "NEEDS_REREVIEW"
    BY <1>2 DEF Q!RereviewWrite, Q!On, RubricsInv, EditorFits
  <2>2. editor[x].v # v
    BY <2>1
  <2> QED
    BY <1>2, <2>2 DEF Q!RereviewWrite, RubricsInv, RubricsTyped
<1>3. ASSUME NEW x \in Sessions, Q!RevokeWrite(x) PROVE qualification'[v] \in {qualification[v], "REVOKED"}
  BY <1>3 DEF Q!RevokeWrite, RubricsInv, RubricsTyped
<1>4. ASSUME NEW x \in Sessions,
             \/ \E u \in Q!Versions : Q!EditRead(x, u) \/ Q!PublishRead(x, u) \/ Q!RereviewRead(x, u) \/ Q!RevokeRead(x, u)
             \/ \E p \in Projects, u \in Q!Versions : Q!RequireWrite(x, p, u)
             \/ Q!DraftRead(x) \/ Q!DraftWrite(x) \/ Q!EditDelete(x) \/ Q!EditCreate(x)
             \/ Q!PublishClaim(x) \/ Q!RequireFind(x) \/ Q!EditorDies(x)
      PROVE  qualification' = qualification
  BY <1>4 DEF Q!EditRead, Q!PublishRead, Q!RereviewRead, Q!RevokeRead, Q!RequireWrite, Q!DraftRead,
     Q!DraftWrite, Q!EditDelete, Q!EditCreate, Q!PublishClaim, Q!RequireFind, Q!EditorDies, Q!books
<1>5. ASSUME NEW u \in Q!Versions, Q!Grant(u) PROVE qualification'[v] = qualification[v]
  BY <1>5 DEF Q!Grant, RubricsInv, RubricsTyped
<1>6. CASE UNCHANGED Q!vars
  BY <1>6 DEF Q!vars, Q!books
<1> QED
  BY <1>1, <1>2, <1>3, <1>4, <1>5, <1>6 DEF Q!Next, Q!EditorStep

-----------------------------------------------------------------------------
(***************************************************************************)
(* Duplicates and applications: the theorems of FunnelProofs, for the two  *)
(* sets of calls that MCRecruitment lets overlap.                          *)
(***************************************************************************)

DP == INSTANCE FunnelProofs WITH Overlapping <- DuplicatePairs, People <- Records, Applications <- {},
        MaxCut <- 0
FP == INSTANCE FunnelProofs WITH Overlapping <- ApplicationPairs, People <- Applicants

LEMMA FunnelApart ==
  /\ DuplicatePairs \cap DP!Conflicting = {}
  /\ ApplicationPairs \cap FP!Conflicting = {}
BY DEF DuplicatePairs, ApplicationPairs, Pairs, DP!Conflicting, FP!Conflicting

LEMMA FunnelsGiven == DP!FunnelAssumption /\ FP!FunnelAssumption
BY RecruitmentAssumption
   DEF D!FunnelAssumption, DP!FunnelAssumption, F!FunnelAssumption, FP!FunnelAssumption,
       D!IsFiniteSet, DP!IsFiniteSet, F!IsFiniteSet, FP!IsFiniteSet, D!Calls, DP!Calls, F!Calls, FP!Calls

\* The two instances of Funnel are the ones the lemmas are about.
LEMMA DuplicatesSame ==
  /\ D!Init <=> DP!Init
  /\ D!Next <=> DP!Next
  /\ D!vars = DP!vars
  /\ DP!FunnelHolds => D!FunnelHolds
<1>1. D!Init <=> DP!Init
  BY DEF D!Init, D!Absent, D!NoApplication, D!Idle, DP!Init, DP!Absent, DP!NoApplication, DP!Idle
<1>2. D!Next <=> DP!Next
  BY DEF D!Next, D!SessionStep, D!CreateRow, D!Record, D!StartScreening, D!ResolveRead,
         D!StatusRead, D!WithdrawRead, D!DetectDuplicates, D!AddFlag, D!Hold, D!ResolveClaim,
         D!ConfirmSame, D!ConfirmDifferent, D!StatusWrite, D!ApplyRead, D!ApplyNew, D!ApplyKnown,
         D!ApplyReopen, D!RecordEnqueue, D!WithdrawWrite, D!MarkRead, D!MarkWrite, D!Crash,
         D!OptOutCandidate, D!Acknowledge, D!MoveDeadline, D!Exists, D!Arrives, D!Busy, D!Idle,
         D!rows, D!At, D!Goes, D!Ends, D!OpenFlags, D!MatchesNew, D!Matches, D!Released,
         D!Accepting, D!Listed, D!Unused, D!Submitted, D!Reopened, D!Calls, D!Cardinality,
         DP!Next, DP!SessionStep, DP!CreateRow, DP!Record, DP!StartScreening, DP!ResolveRead,
         DP!StatusRead, DP!WithdrawRead, DP!DetectDuplicates, DP!AddFlag, DP!Hold,
         DP!ResolveClaim, DP!ConfirmSame, DP!ConfirmDifferent, DP!StatusWrite, DP!ApplyRead,
         DP!ApplyNew, DP!ApplyKnown, DP!ApplyReopen, DP!RecordEnqueue, DP!WithdrawWrite,
         DP!MarkRead, DP!MarkWrite, DP!Crash, DP!OptOutCandidate, DP!Acknowledge,
         DP!MoveDeadline, DP!Exists, DP!Arrives, DP!Busy, DP!Idle, DP!rows, DP!At, DP!Goes,
         DP!Ends, DP!OpenFlags, DP!MatchesNew, DP!Matches, DP!Released, DP!Accepting, DP!Listed,
         DP!Unused, DP!Submitted, DP!Reopened, DP!Calls, DP!Cardinality
<1>3. D!vars = DP!vars
  BY DEF D!vars, D!rows, DP!vars, DP!rows
<1>4. DP!FunnelHolds => D!FunnelHolds
  <2>1. \A X : D!Cardinality(X) = DP!Cardinality(X)
    BY Zenon DEF D!Cardinality, DP!Cardinality
  <2> QED
    BY <2>1 DEF D!FunnelHolds, D!PairsNoticed, D!HeldWhileOpen, D!OnePerPerson, D!Acknowledged,
                D!AtWork, D!Exists, D!OpenFlags, D!Listed,
                DP!FunnelHolds, DP!PairsNoticed, DP!HeldWhileOpen, DP!OnePerPerson, DP!Acknowledged,
                DP!AtWork, DP!Exists, DP!OpenFlags, DP!Listed
<1> QED
  BY <1>1, <1>2, <1>3, <1>4

LEMMA ApplicationsSame ==
  /\ F!Init <=> FP!Init
  /\ F!Next <=> FP!Next
  /\ F!vars = FP!vars
  /\ FP!FunnelHolds => F!FunnelHolds
<1>1. F!Init <=> FP!Init
  BY DEF F!Init, F!Absent, F!NoApplication, F!Idle, FP!Init, FP!Absent, FP!NoApplication, FP!Idle
<1>2. F!Next <=> FP!Next
  BY DEF F!Next, F!SessionStep, F!CreateRow, F!Record, F!StartScreening, F!ResolveRead,
         F!StatusRead, F!WithdrawRead, F!DetectDuplicates, F!AddFlag, F!Hold, F!ResolveClaim,
         F!ConfirmSame, F!ConfirmDifferent, F!StatusWrite, F!ApplyRead, F!ApplyNew, F!ApplyKnown,
         F!ApplyReopen, F!RecordEnqueue, F!WithdrawWrite, F!MarkRead, F!MarkWrite, F!Crash,
         F!OptOutCandidate, F!Acknowledge, F!MoveDeadline, F!Exists, F!Arrives, F!Busy, F!Idle,
         F!rows, F!At, F!Goes, F!Ends, F!OpenFlags, F!MatchesNew, F!Matches, F!Released,
         F!Accepting, F!Listed, F!Unused, F!Submitted, F!Reopened, F!Calls, F!Cardinality,
         FP!Next, FP!SessionStep, FP!CreateRow, FP!Record, FP!StartScreening, FP!ResolveRead,
         FP!StatusRead, FP!WithdrawRead, FP!DetectDuplicates, FP!AddFlag, FP!Hold,
         FP!ResolveClaim, FP!ConfirmSame, FP!ConfirmDifferent, FP!StatusWrite, FP!ApplyRead,
         FP!ApplyNew, FP!ApplyKnown, FP!ApplyReopen, FP!RecordEnqueue, FP!WithdrawWrite,
         FP!MarkRead, FP!MarkWrite, FP!Crash, FP!OptOutCandidate, FP!Acknowledge,
         FP!MoveDeadline, FP!Exists, FP!Arrives, FP!Busy, FP!Idle, FP!rows, FP!At, FP!Goes,
         FP!Ends, FP!OpenFlags, FP!MatchesNew, FP!Matches, FP!Released, FP!Accepting, FP!Listed,
         FP!Unused, FP!Submitted, FP!Reopened, FP!Calls, FP!Cardinality
<1>3. F!vars = FP!vars
  BY DEF F!vars, F!rows, FP!vars, FP!rows
<1>4. FP!FunnelHolds => F!FunnelHolds
  <2>1. \A X : F!Cardinality(X) = FP!Cardinality(X)
    BY Zenon DEF F!Cardinality, FP!Cardinality
  <2> QED
    BY <2>1 DEF F!FunnelHolds, F!PairsNoticed, F!HeldWhileOpen, F!OnePerPerson, F!Acknowledged,
                F!AtWork, F!Exists, F!OpenFlags, F!Listed,
                FP!FunnelHolds, FP!PairsNoticed, FP!HeldWhileOpen, FP!OnePerPerson, FP!Acknowledged,
                FP!AtWork, FP!Exists, FP!OpenFlags, FP!Listed
<1> QED
  BY <1>1, <1>2, <1>3, <1>4

FunnelsInv == IF focus = "duplicates" THEN DP!FunnelInv ELSE FP!FunnelInv

LEMMA FunnelsInit == ASSUME Init PROVE FunnelsInv
BY FunnelsGiven, DuplicatesSame, ApplicationsSame, DP!FunnelInit, FP!FunnelInit DEF Init, FunnelsInv

LEMMA FunnelsStep ==
  ASSUME FunnelsInv, focus' = focus,
         IF focus = "duplicates" THEN [D!Next]_(D!vars) ELSE [F!Next]_(F!vars)
  PROVE  FunnelsInv'
<1>1. CASE focus = "duplicates"
  <2>1. DP!FunnelInv /\ [DP!Next]_(DP!vars)
    BY <1>1, DuplicatesSame DEF FunnelsInv, D!vars, D!rows, DP!vars, DP!rows
  <2>2. DP!FunnelInv'
    BY <2>1, FunnelsGiven, FunnelApart, DP!FunnelStep
  <2> QED
    BY <1>1, <2>2 DEF FunnelsInv
<1>2. CASE focus # "duplicates"
  <2>1. FP!FunnelInv /\ [FP!Next]_(FP!vars)
    BY <1>2, ApplicationsSame DEF FunnelsInv, F!vars, F!rows, FP!vars, FP!rows
  <2>2. FP!FunnelInv'
    BY <2>1, FunnelsGiven, FunnelApart, FP!FunnelStep
  <2> QED
    BY <1>2, <2>2 DEF FunnelsInv
<1> QED
  BY <1>1, <1>2

LEMMA FunnelsKept == ASSUME FunnelsInv PROVE FunnelHolds
BY DuplicatesSame, ApplicationsSame, DP!FunnelKept, FP!FunnelKept DEF FunnelsInv, FunnelHolds

-----------------------------------------------------------------------------
(***************************************************************************)
(* Screenings: the lemmas of ScreeningProofs, for one screening with many  *)
(* calls and for two screenings with one call at a time.                   *)
(***************************************************************************)

SP == INSTANCE ScreeningProofs WITH Overlapping <- ScreeningPairs, MayCrash <- TRUE, MaxScreenings <- 1
TP == INSTANCE ScreeningProofs WITH Overlapping <- {}, MayCrash <- FALSE, MaxScreenings <- 2,
        MaxRevisions <- 1

LEMMA ScreeningApart ==
  /\ ScreeningPairs \cap SP!Conflicting = {}
  /\ {} \cap TP!Conflicting = {}
BY DEF ScreeningPairs, SP!Conflicting

LEMMA ScreeningsGiven == SP!ScreeningAssumption /\ TP!ScreeningAssumption
BY RecruitmentAssumption
   DEF S!ScreeningAssumption, SP!ScreeningAssumption, T!ScreeningAssumption, TP!ScreeningAssumption,
       S!IsFiniteSet, SP!IsFiniteSet, T!IsFiniteSet, TP!IsFiniteSet, S!Calls, SP!Calls, T!Calls, TP!Calls

\* The two instances of Screening are the ones the lemmas are about.
LEMMA ScreeningSame ==
  /\ S!Init <=> SP!Init
  /\ S!Next <=> SP!Next
  /\ S!vars = SP!vars
  /\ SP!ScreeningSound => S!ScreeningSound
<1>1. S!Init <=> SP!Init
  BY DEF S!Init, S!NoScreening, S!NoReview, S!NoDispute, S!Idle,
         SP!Init, SP!NoScreening, SP!NoReview, SP!NoDispute, SP!Idle
<1>2. S!Next <=> SP!Next
  BY DEF S!Next, S!Read, S!Write, S!Crash, S!AutoAssignRead, S!InviteJob, S!ApplyJob,
         S!Overdue, S!ResolveConflict, S!StartRead, S!SubmitRead, S!ExpireRead, S!ReviseRead,
         S!GrantRead, S!RejectRead, S!AssignRead, S!ReviewClaim, S!StartCreate, S!SubmitWrite,
         S!ExpireClaim, S!AssignWrite, S!AssignUpdate, S!AutoAssignCommit,
         S!DetectReviewConflict, S!ReviseWrite, S!DecideClaim, S!Qualify, S!SetCandidateStage,
         S!Enqueue, S!Busy, S!Status, S!Arrives, S!At, S!Goes, S!Ends, S!CutShort, S!Stage,
         S!MayBecome, S!CANDIDATE_STAGE_TRANSITIONS, S!Open, S!Accepting, S!Reviewable, S!Idle,
         S!NoReview, S!NoDispute, S!rows, S!effects, S!Latest, S!Assignable, S!Assigned,
         S!Available, S!Load, S!Disagree, S!Reviewed, S!Undecided, S!TrustsItsRead,
         S!ReviewDecision, S!NoScreening, S!Calls, S!Cardinality,
         SP!Next, SP!Read, SP!Write, SP!Crash, SP!AutoAssignRead, SP!InviteJob, SP!ApplyJob,
         SP!Overdue, SP!ResolveConflict, SP!StartRead, SP!SubmitRead, SP!ExpireRead,
         SP!ReviseRead, SP!GrantRead, SP!RejectRead, SP!AssignRead, SP!ReviewClaim,
         SP!StartCreate, SP!SubmitWrite, SP!ExpireClaim, SP!AssignWrite, SP!AssignUpdate,
         SP!AutoAssignCommit, SP!DetectReviewConflict, SP!ReviseWrite, SP!DecideClaim,
         SP!Qualify, SP!SetCandidateStage, SP!Enqueue, SP!Busy, SP!Status, SP!Arrives, SP!At,
         SP!Goes, SP!Ends, SP!CutShort, SP!Stage, SP!MayBecome, SP!CANDIDATE_STAGE_TRANSITIONS,
         SP!Open, SP!Accepting, SP!Reviewable, SP!Idle, SP!NoReview, SP!NoDispute, SP!rows,
         SP!effects, SP!Latest, SP!Assignable, SP!Assigned, SP!Available, SP!Load, SP!Disagree,
         SP!Reviewed, SP!Undecided, SP!TrustsItsRead, SP!ReviewDecision, SP!NoScreening,
         SP!Calls, SP!Cardinality
<1>3. S!vars = SP!vars
  BY DEF S!vars, S!rows, S!effects, SP!vars, SP!rows, SP!effects
<1>4. SP!ScreeningSound => S!ScreeningSound
  BY DEF S!ScreeningSound, S!RevisionsDense, S!QualifiedIsApproved, S!NothingStalls, S!Moving, S!Status,
         SP!ScreeningSound, SP!RevisionsDense, SP!QualifiedIsApproved, SP!NothingStalls, SP!Moving,
         SP!Status
<1> QED
  BY <1>1, <1>2, <1>3, <1>4

LEMMA RescreeningSame ==
  /\ S!Init <=> TP!Init
  /\ T!Next <=> TP!Next
  /\ T!vars = TP!vars
  /\ TP!ScreeningSound => S!ScreeningSound
<1>1. S!Init <=> TP!Init
  BY DEF S!Init, S!NoScreening, S!NoReview, S!NoDispute, S!Idle,
         TP!Init, TP!NoScreening, TP!NoReview, TP!NoDispute, TP!Idle
<1>2. T!Next <=> TP!Next
  BY DEF T!Next, T!Read, T!Write, T!Crash, T!AutoAssignRead, T!InviteJob, T!ApplyJob,
         T!Overdue, T!ResolveConflict, T!StartRead, T!SubmitRead, T!ExpireRead, T!ReviseRead,
         T!GrantRead, T!RejectRead, T!AssignRead, T!ReviewClaim, T!StartCreate, T!SubmitWrite,
         T!ExpireClaim, T!AssignWrite, T!AssignUpdate, T!AutoAssignCommit,
         T!DetectReviewConflict, T!ReviseWrite, T!DecideClaim, T!Qualify, T!SetCandidateStage,
         T!Enqueue, T!Busy, T!Status, T!Arrives, T!At, T!Goes, T!Ends, T!CutShort, T!Stage,
         T!MayBecome, T!CANDIDATE_STAGE_TRANSITIONS, T!Open, T!Accepting, T!Reviewable, T!Idle,
         T!NoReview, T!NoDispute, T!rows, T!effects, T!Latest, T!Assignable, T!Assigned,
         T!Available, T!Load, T!Disagree, T!Reviewed, T!Undecided, T!TrustsItsRead,
         T!ReviewDecision, T!NoScreening, T!Calls, T!Cardinality,
         TP!Next, TP!Read, TP!Write, TP!Crash, TP!AutoAssignRead, TP!InviteJob, TP!ApplyJob,
         TP!Overdue, TP!ResolveConflict, TP!StartRead, TP!SubmitRead, TP!ExpireRead,
         TP!ReviseRead, TP!GrantRead, TP!RejectRead, TP!AssignRead, TP!ReviewClaim,
         TP!StartCreate, TP!SubmitWrite, TP!ExpireClaim, TP!AssignWrite, TP!AssignUpdate,
         TP!AutoAssignCommit, TP!DetectReviewConflict, TP!ReviseWrite, TP!DecideClaim,
         TP!Qualify, TP!SetCandidateStage, TP!Enqueue, TP!Busy, TP!Status, TP!Arrives, TP!At,
         TP!Goes, TP!Ends, TP!CutShort, TP!Stage, TP!MayBecome, TP!CANDIDATE_STAGE_TRANSITIONS,
         TP!Open, TP!Accepting, TP!Reviewable, TP!Idle, TP!NoReview, TP!NoDispute, TP!rows,
         TP!effects, TP!Latest, TP!Assignable, TP!Assigned, TP!Available, TP!Load, TP!Disagree,
         TP!Reviewed, TP!Undecided, TP!TrustsItsRead, TP!ReviewDecision, TP!NoScreening,
         TP!Calls, TP!Cardinality
<1>3. T!vars = TP!vars
  BY DEF T!vars, T!rows, T!effects, TP!vars, TP!rows, TP!effects
<1>4. TP!ScreeningSound => S!ScreeningSound
  BY DEF S!ScreeningSound, S!RevisionsDense, S!QualifiedIsApproved, S!NothingStalls, S!Moving, S!Status,
         TP!ScreeningSound, TP!RevisionsDense, TP!QualifiedIsApproved, TP!NothingStalls, TP!Moving,
         TP!Status
<1> QED
  BY <1>1, <1>2, <1>3, <1>4

ScreeningsInv == IF focus = "rescreening" THEN TP!ScreeningInv ELSE SP!ScreeningInv

\* What one step may make of the screenings.
Settled ==
  \A s \in Screenings :
    /\ S!Status(s) \in {"DECIDED", "EXPIRED"} => screening'[s] = screening[s]
    /\ S!Status(s)' = "DECIDED" /\ S!Status(s) # "DECIDED" => S!Reviewed(s)
    /\ screening'[s].outcome = "APPROVED" /\ S!Status(s) # "DECIDED" => dispute[s].status # "OPEN"
    /\ S!Status(s)' = "EXPIRED" => screening[s].overdue

LEMMA ScreeningsInit == ASSUME Init PROVE ScreeningsInv
BY ScreeningsGiven, ScreeningSame, RescreeningSame, SP!ScreeningInit, TP!ScreeningInit
   DEF Init, ScreeningsInv

LEMMA ScreeningsStep ==
  ASSUME ScreeningsInv, focus' = focus,
         IF focus = "rescreening" THEN [T!Next]_(T!vars) ELSE [S!Next]_(S!vars)
  PROVE  ScreeningsInv' /\ Settled
<1>1. CASE focus = "rescreening"
  <2>1. TP!ScreeningInv /\ [TP!Next]_(TP!vars)
    BY <1>1, RescreeningSame DEF ScreeningsInv, T!vars, T!rows, T!effects, TP!vars, TP!rows, TP!effects
  <2>2. TP!ScreeningInv'
    BY <2>1, ScreeningsGiven, ScreeningApart, TP!ScreeningStep
  <2>3. \A s \in Screenings : TP!Settles(s)
    BY <2>1, TP!DecisionsKept
  <2>4. Settled
    BY <2>3 DEF Settled, S!Status, S!Reviewed, TP!Settles, TP!Status, TP!Reviewed
  <2> QED
    BY <1>1, <2>2, <2>4 DEF ScreeningsInv
<1>2. CASE focus # "rescreening"
  <2>1. SP!ScreeningInv /\ [SP!Next]_(SP!vars)
    BY <1>2, ScreeningSame DEF ScreeningsInv, S!vars, S!rows, S!effects, SP!vars, SP!rows, SP!effects
  <2>2. SP!ScreeningInv'
    BY <2>1, ScreeningsGiven, ScreeningApart, SP!ScreeningStep
  <2>3. \A s \in Screenings : SP!Settles(s)
    BY <2>1, SP!DecisionsKept
  <2>4. Settled
    BY <2>3 DEF Settled, S!Status, S!Reviewed, SP!Settles, SP!Status, SP!Reviewed
  <2> QED
    BY <1>2, <2>2, <2>4 DEF ScreeningsInv
<1> QED
  BY <1>1, <1>2

LEMMA ScreeningsKept == ASSUME ScreeningsInv PROVE ScreeningSound
BY ScreeningSame, RescreeningSame, SP!ScreeningKept, TP!ScreeningKept DEF ScreeningsInv, ScreeningSound

-----------------------------------------------------------------------------
(***************************************************************************)
(* All of them together: whichever component moves, it keeps its own       *)
(* invariant, and the state of the others stays as it is.                  *)
(***************************************************************************)
AllInv == ScreeningsInv /\ FunnelsInv /\ OnboardingInv /\ RubricsInv /\ RemindersInv /\ OutreachInv

LEMMA AllInit == Init => AllInv
BY ScreeningsInit, FunnelsInit, OnboardingInit, RubricsInit, RemindersInit, OutreachInit DEF Init, AllInv

\* A step of the whole is a step of each component, or leaves it alone.
LEMMA Split ==
  ASSUME [Next]_vars
  PROVE  /\ [B!Next]_(B!vars) /\ [Q!Next]_(Q!vars) /\ [R!Next]_(R!vars) /\ [O!Next]_(O!vars)
         /\ IF focus = "rescreening" THEN [T!Next]_(T!vars) ELSE [S!Next]_(S!vars)
         /\ IF focus = "duplicates" THEN [D!Next]_(D!vars) ELSE [F!Next]_(F!vars)
         /\ focus' = focus
<1> USE DEF B!vars, B!tables, Q!vars, Q!books, R!vars, O!vars, O!batchVars, O!historyVars,
            D!vars, D!rows, F!vars, F!rows, S!vars, S!rows, S!effects, T!vars, T!rows, T!effects,
            screeningVars, funnelVars, onboardingVars, rubricVars, reminderVars, outreachVars
<1>1. CASE UNCHANGED vars
  BY <1>1 DEF vars
<1>2. CASE ScreeningNext \/ RescreeningNext \/ DuplicatesNext \/ ApplicationsNext
  BY <1>2 DEF ScreeningNext, RescreeningNext, DuplicatesNext, ApplicationsNext
<1>3. CASE OnboardingNext
  BY <1>3 DEF OnboardingNext
<1>4. CASE RubricsNext
  BY <1>4 DEF RubricsNext
<1>5. CASE RemindersNext
  BY <1>5 DEF RemindersNext
<1>6. CASE OutreachNext
  BY <1>6 DEF OutreachNext
<1> QED
  BY <1>1, <1>2, <1>3, <1>4, <1>5, <1>6 DEF Next

LEMMA AllStep == AllInv /\ [Next]_vars => AllInv'
BY Split, ScreeningsStep, FunnelsStep, OnboardingStep, RubricsStep, RemindersStep, OutreachStep DEF AllInv

\* The invariant of all of them holds in every reachable state.
THEOREM AllHolds == Spec => []AllInv
BY AllInit, AllStep, PTL DEF Spec

\* submitOnboarding, decideVerification, onboarding.nudge, startOnboarding: what
\* was submitted was complete, the expert's status and what the attention queue
\* shows follow the case, and a case is nudged once a day, however the requests
\* overlap and wherever one is cut short.
THEOREM OnboardingHeld == Spec => []OnboardingSound
<1>1. AllInv => OnboardingSound
  BY OnboardingKept DEF AllInv, OnboardingSound
<1> QED
  BY <1>1, AllHolds, PTL

\* decideVerification, saveStep, submitOnboarding: a case that operators verified
\* stays verified, though three calls write the case by its id alone.
THEOREM VerificationStands == Spec => B!VerifiedStays
<1>1. AllInv /\ [Next]_vars => [case.status = "VERIFIED" => case'.status = "VERIFIED"]_(B!vars)
  BY Split, VerifiedKept DEF AllInv
<1> QED
  BY <1>1, AllInit, AllStep, PTL DEF Spec, B!VerifiedStays

\* createDraftVersion, updateDraftVersion, publishVersion,
\* setProjectQualificationRequirement, resolveRereview, revokeQualification:
\* versions without gaps and fixed once published, nobody qualified below a bar
\* unflagged, and nothing revoked back in force.
THEOREM RubricsHeld == Spec => RubricsHold
<1>1. AllInv => Q!VersionsSound /\ Q!BarSurfaces
  BY RubricsKept DEF AllInv
<1>2. AllInv /\ [Next]_vars =>
        [\A v \in Q!Versions : Q!Status(v) = "PUBLISHED" => rubric'[v] = rubric[v]]_(Q!vars)
  BY Split, PublishedKept DEF AllInv
<1>3. AllInv /\ [Next]_vars =>
        [\A v \in Q!Versions : qualification[v] \in {"REVOKED", "SUPERSEDED"} =>
           qualification'[v] \notin {"ACTIVE", "NEEDS_REREVIEW"}]_(Q!vars)
  BY Split, RevokedKept DEF AllInv
<1> QED
  BY <1>1, <1>2, <1>3, AllInit, AllStep, PTL
     DEF Spec, RubricsHold, Q!RubricsHold, Q!PublishedFixed, Q!RevokedStays

\* reminderAllowed and the conditional updates of the reminder jobs: one letter
\* a day about one subject, no more of them than the policy allows, and the row
\* counts them, for any number of workers whatever they read.
THEOREM RemindersHeld == Spec => []RemindersHold
<1>1. AllInv => RemindersHold
  BY RemindersKept DEF AllInv, RemindersHold
<1> QED
  BY <1>1, AllHolds, PTL

\* dispatchBatch, dispatchItem, finaliseBatch, decideBatch: what a batch reports
\* is what it did, nobody was invited but by an approved batch, and a large one
\* was approved by another operator than its author, for any number of requests
\* that dispatch it at once.
THEOREM BatchHonestHolds == Spec => []BatchHonest
<1>1. AllInv => BatchHonest
  BY OutreachHonest DEF AllInv, BatchHonest
<1> QED
  BY <1>1, AllHolds, PTL

\* createCandidate, resolveDuplicate, applyToOpportunity, submitApplication,
\* withdrawApplication: one person is one candidate with one application and is
\* not lost, for any number of people, applications and sessions.
THEOREM FunnelHeld == Spec => []FunnelHolds
<1>1. AllInv => FunnelHolds
  BY FunnelsKept DEF AllInv
<1> QED
  BY <1>1, AllHolds, PTL

\* submitScreening, grantQualification, screening.assign_reviewer: no revision of
\* a screening is missing or twice, a qualification rests on an approval, and
\* what was handed in or granted is seen to, for any number of sessions.
THEOREM ScreeningHeld == Spec => []ScreeningSound
<1>1. AllInv => ScreeningSound
  BY ScreeningsKept DEF AllInv
<1> QED
  BY <1>1, AllHolds, PTL

\* grantQualification, rejectScreening, expireOverdueScreenings and
\* decideVerification: what was decided stays decided, and a screening is decided
\* on reviewed work without an open dispute.
THEOREM DecisionsHeld == Spec => DecisionsFinal
<1>1. AllInv /\ [Next]_vars =>
        [\A s \in Screenings :
           /\ S!Status(s) \in {"DECIDED", "EXPIRED"} => screening'[s] = screening[s]
           /\ S!Status(s)' = "DECIDED" /\ S!Status(s) # "DECIDED" => S!Reviewed(s)
           /\ screening'[s].outcome = "APPROVED" /\ S!Status(s) # "DECIDED" => dispute[s].status # "OPEN"
           /\ S!Status(s)' = "EXPIRED" => screening[s].overdue]_(S!vars)
  <2>1. AllInv /\ [Next]_vars => Settled
    BY Split, ScreeningsStep DEF AllInv
  <2> QED
    BY <2>1 DEF Settled
<1>2. Spec => S!DecisionsFinal
  BY <1>1, AllInit, AllStep, PTL DEF Spec, S!DecisionsFinal
<1> QED
  BY <1>2, VerificationStands, PTL DEF DecisionsFinal
=============================================================================
