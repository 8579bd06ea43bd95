----------------------------- MODULE Reminders -----------------------------
(***************************************************************************)
(* The jobs screening.remind_candidate and review.remind with the policy   *)
(* they share (reminderAllowed of handlers.ts, REMINDER_POLICY of          *)
(* automation.ts).  A subject is an open screening or an assigned review.  *)
(* A run reads the subjects, decides on what it read and claims each one   *)
(* by its status and its counter; it commits as a whole.                   *)
(***************************************************************************)
EXTENDS Integers, FiniteSets

CONSTANTS
  Subjects,
  Chasers,   \* workers
  LastDay,   \* bound: the interval between two reminders is a day
  MaxReopenings \* bound: revisions asked for and reviews assigned again

\* What the constants must be; the runs assume it.
RemindersAssumption == LastDay \in Nat \ {0} /\ MaxReopenings \in Nat

maxReminders == 2

VARIABLES
  subject,    \* the row: its kind, whether it is open, remindersSent, lastRemindedAt, its deadline
  silenced,   \* the person opted out
  today,
  chaser,     \* what each worker read: [r, sent, now]
  reopenings,
  letters     \* history: reminders by subject and day

vars == <<subject, silenced, today, chaser, reopenings, letters>>

NoRun == [r |-> "none", sent |-> 0, now |-> 0]

TypeOK ==
  /\ subject \in [Subjects -> [kind : {"screening", "review"}, open : BOOLEAN, since : 0 .. LastDay,
       sent : 0 .. maxReminders + 1, last : 0 .. LastDay, deadline : {"ahead", "near", "past"}]]
  /\ silenced \subseteq Subjects
  /\ today \in 1 .. LastDay
  /\ reopenings \in 0 .. MaxReopenings
  /\ letters \in [Subjects -> [1 .. LastDay -> Nat]]

Init ==
  /\ subject \in [Subjects -> {[kind |-> k, open |-> TRUE, since |-> 1, sent |-> 0, last |-> 0,
                                deadline |-> "ahead"] : k \in {"screening", "review"}}]
  /\ silenced = {} /\ today = 1 /\ reopenings = 0
  /\ chaser = [w \in Chasers |-> NoRun]
  /\ letters = [r \in Subjects |-> [d \in 1 .. LastDay |-> 0]]

-----------------------------------------------------------------------------
\* Mutant of reminderAllowed: the cap is passed before it bites.
reminderAllowedOnceMore(r) == subject[r].sent <= maxReminders /\ subject[r].last < today

\* reminderAllowed: under the cap, a day after the last one.
reminderAllowed(r) == subject[r].sent < maxReminders /\ subject[r].last < today

\* A candidate is chased two days after the invitation unless opted out, and not
\* shortly before the end; a reviewer once the review is overdue.
Due(r) ==
  /\ subject[r].open
  /\ reminderAllowed(r)
  /\ IF subject[r].kind = "screening"
     THEN r \notin silenced /\ subject[r].deadline = "ahead" /\ today >= subject[r].since + 2
     ELSE subject[r].deadline = "past"

Read(w, r) ==
  /\ chaser[w] = NoRun /\ Due(r)
  /\ chaser' = [chaser EXCEPT ![w] = [r |-> r, sent |-> subject[r].sent, now |-> today]]
  /\ UNCHANGED <<subject, silenced, today, reopenings, letters>>

\* Mutant of Claims: only that the subject is still open.
ClaimsOpen(w) == subject[chaser[w].r].open

\* The condition of the claiming update.
Claims(w) == subject[chaser[w].r].open /\ subject[chaser[w].r].sent = chaser[w].sent

Claim(w) ==
  /\ chaser[w] # NoRun
  /\ LET r == chaser[w].r
     IN IF Claims(w)
        THEN /\ subject' = [subject EXCEPT ![r].sent = @ + 1, ![r].last = chaser[w].now]
             /\ letters' = [letters EXCEPT ![r][chaser[w].now] = @ + 1]
        ELSE UNCHANGED <<subject, letters>>
  /\ chaser' = [chaser EXCEPT ![w] = NoRun]
  /\ UNCHANGED <<silenced, today, reopenings>>

\* The worker dies; nothing of its run is left.
RunDies(w) ==
  /\ chaser[w] # NoRun
  /\ chaser' = [chaser EXCEPT ![w] = NoRun]
  /\ UNCHANGED <<subject, silenced, today, reopenings, letters>>

\* The screening is handed in, decided or expires; the review is submitted.
Closes(r) ==
  /\ subject[r].open
  /\ subject' = [subject EXCEPT ![r].open = FALSE]
  /\ UNCHANGED <<silenced, today, chaser, reopenings, letters>>

\* Mutant of Reopens: the counters start again.
ReopensAnew(r) ==
  /\ ~subject[r].open /\ reopenings < MaxReopenings
  /\ reopenings' = reopenings + 1
  /\ subject' = [subject EXCEPT ![r].open = TRUE, ![r].deadline = "ahead", ![r].sent = 0, ![r].last = 0]
  /\ UNCHANGED <<silenced, today, chaser, letters>>

\* requestRevision, and assignReviewer for a later revision, set a new deadline;
\* the counters stay.
Reopens(r) ==
  /\ ~subject[r].open /\ reopenings < MaxReopenings
  /\ reopenings' = reopenings + 1
  /\ subject' = [subject EXCEPT ![r].open = TRUE, ![r].deadline = "ahead"]
  /\ UNCHANGED <<silenced, today, chaser, letters>>

\* optOutCandidate.
Silence(r) ==
  /\ silenced' = silenced \cup {r}
  /\ UNCHANGED <<subject, today, chaser, reopenings, letters>>

Approaches(r) ==
  /\ subject[r].deadline # "past"
  /\ subject' = [subject EXCEPT ![r].deadline = IF @ = "ahead" THEN "near" ELSE "past"]
  /\ UNCHANGED <<silenced, today, chaser, reopenings, letters>>

DayPasses ==
  /\ today < LastDay /\ today' = today + 1
  /\ UNCHANGED <<subject, silenced, chaser, reopenings, letters>>

Next ==
  \/ \E w \in Chasers : (\E r \in Subjects : Read(w, r)) \/ Claim(w) \/ RunDies(w)
  \/ \E r \in Subjects : Closes(r) \/ Reopens(r) \/ Silence(r) \/ Approaches(r)
  \/ DayPasses

Spec == Init /\ [][Next]_vars

-----------------------------------------------------------------------------
(***************************************************************************)
(* What must hold.                                                         *)
(***************************************************************************)

Reminded(r) == {d \in 1 .. LastDay : letters[r][d] > 0}

\* Whatever two runs read, and however often the work is sent back, nobody is
\* reminded of one subject twice in a day or more often than the policy allows:
\* "Most reminders a single subject may receive" (REMINDER_POLICY).
RemindersHold ==
  \A r \in Subjects :
    /\ \A d \in 1 .. LastDay : letters[r][d] <= 1
    /\ Cardinality(Reminded(r)) <= maxReminders
    /\ subject[r].sent = Cardinality(Reminded(r))
=============================================================================
