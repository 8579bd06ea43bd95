----------------------------- MODULE Attention -----------------------------
(***************************************************************************)
(* The "needs attention" queue (attention.ts) and the sweeps that feed it  *)
(* (handlers.ts, staffing-gaps.ts).  A key names a condition of the system *)
(* that begins and ends; an item of the queue shows it to the operators.   *)
(*                                                                         *)
(* A sweep takes the rows whose condition holds, most sweeps no more than  *)
(* a fixed number of them and in no order, and raises an item for each.    *)
(* They differ in who closes the item again: the sweep, the request that   *)
(* ends the condition, or nobody.  A sweep that closes goes by the rows it *)
(* took: an open item of a row it did not take is closed, whether the      *)
(* condition is gone or only found no place.                               *)
(*                                                                         *)
(* For each row a sweep reads the item and writes it by id, with what it   *)
(* read; operators and requests write in between.  Keys do not touch one   *)
(* another but for the places they take, so a sweep is modelled by what it *)
(* does to each key; the write and the commit of its transaction are one   *)
(* step, before which nobody else can write the row or see the write.      *)
(***************************************************************************)
EXTENDS Integers, FiniteSets

CONSTANTS
  Keys,
  Sweepers,    \* jobs that sweep at the same time
  Limit,       \* rows a sweep takes
  MaxDismissals, \* bound
  MaxDeaths,   \* bound: sweeps that die
  MaxChanges   \* bound: times conditions begin or end

\* What the constants must be; the runs assume it.
AttentionAssumption ==
  /\ IsFiniteSet(Keys)
  /\ Limit \in Nat \ {0}
  /\ {MaxDismissals, MaxDeaths, MaxChanges} \subseteq Nat

AttentionStatus == {"NONE", "OPEN", "DISMISSED", "RESOLVED"}

\* The sweeps: the items they close when they did not take the row, by status
\* (the gap sweep in two ways: its project has no gap, or is not scanned), whether
\* they take Limit rows at most, and whether the request that ends the condition
\* closes the item.
GapSweep ==
  [category |-> "staffing.gap", closes |-> {{"OPEN", "DISMISSED"}, {"OPEN"}},
   limited |-> FALSE, request |-> FALSE]
BlockedSweep ==
  [category |-> "staffing.blocked_expert", closes |-> {{"OPEN"}},
   limited |-> FALSE, request |-> FALSE]
ReviewSweep ==
  [category |-> "review.overdue", closes |-> {{"OPEN"}},
   limited |-> TRUE, request |-> FALSE]
WorkSweep ==
  [category |-> "work.overdue", closes |-> {{"OPEN"}},
   limited |-> TRUE, request |-> FALSE]
SupportSweep ==
  [category |-> "support.response_overdue", closes |-> {{"OPEN"}},
   limited |-> TRUE, request |-> FALSE]
BatchSweep ==
  [category |-> "outreach.awaiting_approval", closes |-> {{}},
   limited |-> TRUE, request |-> TRUE]
DuplicateSweep ==
  [category |-> "candidate.duplicate", closes |-> {{}},
   limited |-> TRUE, request |-> FALSE]
ConflictSweep ==
  [category |-> "screening.review_conflict", closes |-> {{}},
   limited |-> TRUE, request |-> FALSE]
RereviewSweep ==
  [category |-> "qualification.needs_rereview", closes |-> {{}},
   limited |-> TRUE, request |-> FALSE]
PaymentSweep ==
  [category |-> "payment.awaiting_approval", closes |-> {{}},
   limited |-> TRUE, request |-> FALSE]

Sweeps == {GapSweep, BlockedSweep, ReviewSweep, WorkSweep, SupportSweep, BatchSweep,
           DuplicateSweep, ConflictSweep, RereviewSweep, PaymentSweep}

VARIABLES
  sort,        \* the sweep each key belongs to; it never changes
  holds,       \* whether the condition is there
  others,      \* other rows of its category that take a place in the sweep
  attention,   \* the item of each key: status, and whether it has an owner
  sweep,       \* what each sweep is doing about each key
  dismissals, deaths, changes

bounds == <<dismissals, deaths, changes>>
vars == <<sort, holds, others, attention, sweep, bounds>>

Resting == [at |-> "idle", was |-> "NONE", owned |-> FALSE]

TypeOK ==
  /\ sort \in [Keys -> Sweeps]
  /\ holds \in [Keys -> BOOLEAN]
  /\ others \in [Keys -> 0 .. Limit]
  /\ attention \in [Keys -> [status : AttentionStatus, owned : BOOLEAN]]
  /\ sweep \in [Sweepers -> [Keys -> [at : {"idle", "taken", "left", "raise", "close"},
                                      was : AttentionStatus, owned : BOOLEAN]]]
  /\ dismissals \in 0 .. MaxDismissals /\ deaths \in 0 .. MaxDeaths /\ changes \in 0 .. MaxChanges

Init ==
  /\ sort \in [Keys -> Sweeps]
  /\ holds = [k \in Keys |-> FALSE]
  /\ others = [k \in Keys |-> 0]
  /\ attention = [k \in Keys |-> [status |-> "NONE", owned |-> FALSE]]
  /\ sweep = [w \in Sweepers |-> [k \in Keys |-> Resting]]
  /\ dismissals = 0 /\ deaths = 0 /\ changes = 0

-----------------------------------------------------------------------------
Goes(w, k, r) == sweep' = [sweep EXCEPT ![w][k] = r]

\* resolveIfPresent: silent when there is nothing to close.
Resolved(item) ==
  IF item.status \in {"OPEN", "DISMISSED"} THEN [item EXCEPT !.status = "RESOLVED"] ELSE item

\* Whether a sweep has a place for this row whatever the others are.
Fits(k) == sort[k].limited => others[k] < Limit

\* Whether a sweep takes the row: a row that finds too many others, by chance.
Takes(k) == IF holds[k] /\ ~Fits(k) THEN BOOLEAN ELSE {holds[k]}

\* The sweep reads its rows.
SweepRead(w, k) ==
  /\ sweep[w][k].at = "idle"
  /\ \E takes \in Takes(k) :
       Goes(w, k, [Resting EXCEPT !.at = IF takes THEN "taken" ELSE "left"])
  /\ UNCHANGED <<sort, holds, others, attention, bounds>>

\* raiseAttention reads the item of a row that was taken ...
ReadItem(w, k) ==
  /\ sweep[w][k].at = "taken"
  /\ Goes(w, k, [at |-> "raise", was |-> attention[k].status, owned |-> attention[k].owned])
  /\ UNCHANGED <<sort, holds, others, attention, bounds>>

\* Mutant of Refreshed: an item that was resolved stays so.
RefreshedAsIs(r) == [status |-> r.was, owned |-> r.owned]

\* A refresh reopens what was resolved and keeps what was dismissed.
Refreshed(r) == [status |-> IF r.was = "RESOLVED" THEN "OPEN" ELSE r.was, owned |-> r.owned]

\* ... and writes it: a new row, or the old one by its id.  Two sweeps that both
\* create meet the unique key, and the later one is run again.
Raise(w, k) ==
  /\ sweep[w][k].at = "raise"
  /\ attention' = [attention EXCEPT ![k] =
       IF sweep[w][k].was # "NONE" THEN Refreshed(sweep[w][k])
       ELSE IF @.status # "NONE" THEN @ ELSE [status |-> "OPEN", owned |-> FALSE]]
  /\ Goes(w, k, Resting)
  /\ UNCHANGED <<sort, holds, others, bounds>>

\* Mutant of IsStale: a sweep only raises.
NeverStale(k, closes) == FALSE

\* Whether a sweep that left the row finds its item to be closed.
IsStale(k, closes) == attention[k].status \in closes

FindStale(w, k) ==
  /\ sweep[w][k].at = "left"
  /\ \E closes \in sort[k].closes :
       Goes(w, k, IF IsStale(k, closes) THEN [Resting EXCEPT !.at = "close"] ELSE Resting)
  /\ UNCHANGED <<sort, holds, others, attention, bounds>>

\* It is closed as it is by then, open or dismissed.
Close(w, k) ==
  /\ sweep[w][k].at = "close"
  /\ attention' = [attention EXCEPT ![k] = Resolved(@)]
  /\ Goes(w, k, Resting)
  /\ UNCHANGED <<sort, holds, others, bounds>>

\* A sweep's job dies and is run again.
SweepDies(w, k) ==
  /\ sweep[w][k].at # "idle" /\ deaths < MaxDeaths
  /\ Goes(w, k, Resting)
  /\ deaths' = deaths + 1
  /\ UNCHANGED <<sort, holds, others, attention, dismissals, changes>>

-----------------------------------------------------------------------------
\* dismissAttention: any item that exists, by its id.
DismissAttention(k) ==
  /\ attention[k].status # "NONE" /\ dismissals < MaxDismissals
  /\ attention' = [attention EXCEPT ![k].status = "DISMISSED"]
  /\ dismissals' = dismissals + 1
  /\ UNCHANGED <<sort, holds, others, sweep, deaths, changes>>

\* assignAttention.
AssignAttention(k, owned) ==
  /\ attention[k].status # "NONE" /\ attention[k].owned # owned
  /\ attention' = [attention EXCEPT ![k].owned = owned]
  /\ UNCHANGED <<sort, holds, others, sweep, bounds>>

ConditionBegins(k) ==
  /\ ~holds[k] /\ changes < MaxChanges
  /\ holds' = [holds EXCEPT ![k] = TRUE]
  /\ changes' = changes + 1
  /\ UNCHANGED <<sort, others, attention, sweep, dismissals, deaths>>

\* A condition ends; decideBatch closes the item in the same request.
ConditionEnds(k) ==
  /\ holds[k] /\ changes < MaxChanges
  /\ holds' = [holds EXCEPT ![k] = FALSE]
  /\ attention' = IF sort[k].request
                  THEN [attention EXCEPT ![k] = Resolved(@)] ELSE attention
  /\ changes' = changes + 1
  /\ UNCHANGED <<sort, others, sweep, dismissals, deaths>>

\* Other conditions of the category begin and end, as many as there are places.
OthersChange(k, n) ==
  /\ sort[k].limited /\ others[k] # n
  /\ others' = [others EXCEPT ![k] = n]
  /\ UNCHANGED <<sort, holds, attention, sweep, bounds>>

SweepStep(w, k) ==
  SweepRead(w, k) \/ ReadItem(w, k) \/ Raise(w, k) \/ FindStale(w, k) \/ Close(w, k)

Next ==
  \/ \E w \in Sweepers, k \in Keys : SweepStep(w, k) \/ SweepDies(w, k)
  \/ \E k \in Keys : \/ DismissAttention(k) \/ ConditionBegins(k) \/ ConditionEnds(k)
                     \/ \E owned \in BOOLEAN : AssignAttention(k, owned)
                     \/ \E n \in 0 .. Limit : OthersChange(k, n)

\* The schedules start every sweep again and again, and one that lives gets to
\* its end; which rows it takes is not for it to say.
Fairness == \A w \in Sweepers, k \in Keys : WF_vars(SweepStep(w, k))

Spec == Init /\ [][Next]_vars /\ Fairness

-----------------------------------------------------------------------------
(***************************************************************************)
(* What must hold.                                                         *)
(***************************************************************************)

\* Whether some sweep closes items of this sort at all.
Recomputed(k) == sort[k].closes # {{}}

\* A condition that stays is on record, shown or set aside by an operator, if
\* from some time on the rows of its category find place in a sweep
\* (raiseAttention, by every sweep): whatever was closed while there were too
\* many, or by a sweep that had not seen it yet, comes back.
Shown ==
  \A k \in Keys :
    <>[](holds[k] /\ Fits(k)) => <>[](attention[k].status \in {"OPEN", "DISMISSED"})

\* A blocker that is gone for good leaves the queue, if the sweep that raises
\* it recomputes it, whatever stale write was under way.
Cleared ==
  \A k \in Keys : <>[](Recomputed(k) /\ ~holds[k]) => <>[](attention[k].status # "OPEN")

\* attention.ts "self-resolving": so does every other.
SelfResolving == \A k \in Keys : <>[]~holds[k] => <>[](attention[k].status # "OPEN")

\* However many rows there are, a condition that stays is on record.
ShownBeyondLimit ==
  \A k \in Keys : <>[]holds[k] => <>[](attention[k].status \in {"OPEN", "DISMISSED"})

\* The queue follows the conditions it is about, as far as the sweeps take and
\* recompute them.
Follows == Shown /\ Cleared
=============================================================================
