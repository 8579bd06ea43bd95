-------------------------- MODULE ScreeningProofs --------------------------
(***************************************************************************)
(* What Screening promises, for any number of screenings, reviewers and    *)
(* sessions and for every choice of calls that may overlap but those of    *)
(* Conflicting: revisions, qualifications and reviewers agree with the     *)
(* screening they belong to, and what was decided stays decided.           *)
(***************************************************************************)
EXTENDS Screening, FiniteSetTheorems, TLAPS

ScreeningRow ==
  [status : ScreeningStatus, outcome : {"none", "APPROVED", "REJECTED"}, revision : Nat,
   overdue : BOOLEAN]
ReviewRow ==
  [state : {"NONE", "ASSIGNED", "SUBMITTED"}, of : Nat, decision : ReviewDecision \cup {"none"}]
DisputeRow == [status : {"NONE", "OPEN", "RESOLVED"}, of : Nat]
CallRow ==
  [at : {"idle", "create", "stage", "enqueue", "write", "claim", "update", "compare", "qualify"},
   does : Calls \cup {"none"}, s : Screenings \cup {None}, r : Reviewers \cup {None}, seen : Nat]

Typed ==
  /\ screening \in [Screenings -> ScreeningRow]
  /\ submitted \in [Screenings -> SUBSET Nat]
  /\ review \in [Screenings -> [Reviewers -> ReviewRow]]
  /\ dispute \in [Screenings -> DisputeRow]
  /\ call \in [Sessions -> CallRow]
  /\ jobs \subseteq {"invite", "assign", "apply"} \X Screenings \X Nat
  /\ {qualified, unassigned, broken, heard} \subseteq SUBSET Screenings

CallsApart == \A x, y \in Sessions : x # y => {call[x].does, call[y].does} \notin Conflicting
Placed(c) == c.does = "none" <=> c.at = "idle"
Rested == \A x \in Sessions : Placed(call[x])

\* What a call knows of its screening.
Fits(c) ==
  /\ c.does \notin {"none", "start"} => c.s \in Screenings
  /\ c.does = "start" => c.at \in {"create", "stage", "enqueue"} /\ (c.at # "create" => c.s \in Screenings)
  /\ c.does = "submit" =>
       /\ c.at \in {"write", "stage", "enqueue"}
       /\ c.at = "write" =>
            /\ c.seen <= screening[c.s].revision
            /\ c.seen = screening[c.s].revision => Status(c.s) \in Accepting
  /\ c.does = "expire" =>
       c.at = "claim" /\ screening[c.s].overdue /\ Status(c.s) \in Accepting \cup {"EXPIRED"}
  /\ c.does = "assign" =>
       c.at \in {"write", "update", "stage"} /\ c.r \in Reviewers /\ Status(c.s) \in Reviewable
  /\ c.does = "auto-assign" => c.at = "write" /\ c.r \in Reviewers /\ Status(c.s) \in Reviewable
  /\ c.does = "review" => c.at = "compare"
  /\ c.does = "revise" =>
       /\ c.at \in {"write", "stage"}
       /\ c.at = "write" => Status(c.s) \in Reviewable \cup {"REVISION_REQUESTED"}
  /\ c.does = "grant" =>
       /\ c.at \in {"claim", "qualify", "stage", "enqueue"}
       /\ c.at = "claim" => Reviewed(c.s) /\ dispute[c.s].status # "OPEN"
       /\ c.at = "qualify" => screening[c.s].outcome = "APPROVED"
  /\ c.does = "reject" => c.at \in {"claim", "stage"} /\ (c.at = "claim" => Reviewed(c.s))
CallsFit == \A x \in Sessions : Fits(call[x])

RowSound(s) ==
  /\ submitted[s] = 1 .. screening[s].revision
  /\ screening[s].outcome = "APPROVED" => Status(s) = "DECIDED"
  /\ Status(s) = "EXPIRED" => screening[s].overdue
RowsSound == \A s \in Screenings : RowSound(s)

\* The call about s that is at one of these steps.
Doing(s, does, steps) == \E x \in Sessions : call[x].does = does /\ call[x].at \in steps /\ call[x].s = s
Queued(s, kind) == \E j \in jobs : j[1] = kind /\ j[2] = s

\* An approval is followed by its qualification, and that by an onboarding case.
ApprovalsFollowed ==
  /\ \A s \in qualified : screening[s].outcome = "APPROVED"
  /\ \A s \in Screenings : screening[s].outcome = "APPROVED" =>
       s \in qualified \cup broken \/ Doing(s, "grant", {"qualify"})
  /\ \A s \in qualified \ broken :
       onboarding \/ Doing(s, "grant", {"stage", "enqueue"}) \/ Queued(s, "apply")

\* What was handed in is being seen to.
SubmissionsFollowed ==
  \A s \in Screenings \ broken : Status(s) = "SUBMITTED" =>
    \/ s \in heard \cup unassigned \/ \E r \in Reviewers : review[s][r].state = "ASSIGNED"
    \/ Doing(s, "submit", {"stage", "enqueue"}) \/ Queued(s, "assign")

ScreeningInv ==
  /\ Typed /\ CallsApart /\ Rested /\ CallsFit
  /\ RowsSound /\ ApprovalsFollowed /\ SubmissionsFollowed

LEMMA IdleRow == Idle \in CallRow /\ Idle.does = "none" /\ Idle.at = "idle"
BY DEF Idle, CallRow

LEMMA ScreeningInit == ASSUME ScreeningAssumption, Init PROVE ScreeningInv
<1>1. \A x \in Sessions : call[x] = Idle /\ call[x].does = "none" /\ call[x].at = "idle"
  BY IdleRow DEF Init
<1>2. Typed
  <2>1. screening \in [Screenings -> ScreeningRow]
    BY DEF Init, NoScreening, ScreeningRow, ScreeningStatus
  <2>2. review \in [Screenings -> [Reviewers -> ReviewRow]]
    <3>1. NoReview \in ReviewRow
      BY DEF NoReview, ReviewRow
    <3> QED
      BY <3>1 DEF Init
  <2>3. dispute \in [Screenings -> DisputeRow]
    BY DEF Init, NoDispute, DisputeRow
  <2>4. call \in [Sessions -> CallRow]
    BY IdleRow DEF Init
  <2>5. submitted \in [Screenings -> SUBSET Nat]
    BY DEF Init
  <2> QED
    BY <2>1, <2>2, <2>3, <2>4, <2>5 DEF Init, Typed
<1>3. CallsApart
  <2>1. {"none", "none"} \notin Conflicting
    BY DEF Conflicting
  <2> QED
    BY <1>1, <2>1 DEF CallsApart
<1>4. RowsSound
  <2>1. \A s \in Screenings : screening[s] = NoScreening /\ submitted[s] = {}
    BY DEF Init
  <2>2. 1 .. 0 = {} /\ NoScreening.revision = 0 /\ NoScreening.outcome = "none" /\ NoScreening.status = "NONE"
    BY DEF NoScreening
  <2>3. ASSUME NEW s \in Screenings PROVE RowSound(s)
    BY <2>1, <2>2 DEF RowSound, Status
  <2> QED
    BY <2>3 DEF RowsSound
<1>5. ApprovalsFollowed /\ SubmissionsFollowed
  BY DEF Init, ApprovalsFollowed, SubmissionsFollowed, NoScreening, Status
<1>6. CallsFit
  BY <1>1 DEF CallsFit, Fits
<1> QED
  BY <1>1, <1>2, <1>3, <1>4, <1>5, <1>6 DEF ScreeningInv, Rested, Placed

-----------------------------------------------------------------------------
(***************************************************************************)
(* How the calls move.                                                     *)
(***************************************************************************)
LEMMA CallMoves ==
  ASSUME Typed, NEW x \in Sessions, NEW row \in CallRow, call' = [call EXCEPT ![x] = row]
  PROVE  /\ call' \in [Sessions -> CallRow] /\ call'[x] = row
         /\ \A y \in Sessions \ {x} : call'[y] = call[y]
BY DEF Typed

LEMMA NothingConflictsWithNone ==
  \A does : {"none", does} \notin Conflicting /\ {does, "none"} \notin Conflicting
<1>1. \A s \in Conflicting : "none" \notin s
  BY DEF Conflicting
<1> QED
  BY <1>1

\* A call goes on as what it is, or ends.
LEMMA CallGoesOn ==
  ASSUME Typed, CallsApart, Rested, NEW x \in Sessions, NEW row \in CallRow,
         call' = [call EXCEPT ![x] = row],
         row.does \in {call[x].does, "none"}, Placed(row)
  PROVE  /\ call' \in [Sessions -> CallRow] /\ call'[x] = row
         /\ \A y \in Sessions \ {x} : call'[y] = call[y]
         /\ CallsApart' /\ Rested'
<1>1. /\ call' \in [Sessions -> CallRow] /\ call'[x] = row
      /\ \A y \in Sessions \ {x} : call'[y] = call[y]
  BY CallMoves
<1>2. CallsApart'
  <2>1. CASE row.does = "none"
    BY <1>1, <2>1, NothingConflictsWithNone DEF CallsApart
  <2>2. CASE row.does = call[x].does
    BY <1>1, <2>2 DEF CallsApart
  <2> QED
    BY <2>1, <2>2
<1>3. Rested'
  BY <1>1 DEF Rested
<1> QED
  BY <1>1, <1>2, <1>3

LEMMA CallEnds ==
  ASSUME Typed, CallsApart, Rested, NEW x \in Sessions, Ends(x)
  PROVE  /\ call' \in [Sessions -> CallRow] /\ call'[x] = Idle
         /\ \A y \in Sessions \ {x} : call'[y] = call[y]
         /\ CallsApart' /\ Rested' /\ Fits(call[x])'
<1>1. Placed(Idle)
  BY IdleRow DEF Placed
<1>2. /\ call' \in [Sessions -> CallRow] /\ call'[x] = Idle
      /\ \A y \in Sessions \ {x} : call'[y] = call[y]
      /\ CallsApart' /\ Rested'
  BY <1>1, IdleRow, CallGoesOn DEF Ends
<1>3. Fits(call[x])'
  BY <1>2, IdleRow DEF Fits
<1> QED
  BY <1>2, <1>3

LEMMA CallGoes ==
  ASSUME Typed, CallsApart, Rested, NEW x \in Sessions, NEW at,
         at \in {"stage", "enqueue", "update", "qualify"}, call[x].at # "idle", Goes(x, at)
  PROVE  \E row \in CallRow :
           /\ row.does = call[x].does /\ row.at = at /\ row.s = call[x].s /\ row.r = call[x].r
           /\ row.seen = call[x].seen
           /\ call' \in [Sessions -> CallRow] /\ call'[x] = row
           /\ \A y \in Sessions \ {x} : call'[y] = call[y]
           /\ CallsApart' /\ Rested'
<1> DEFINE row == [call[x] EXCEPT !.at = at]
<1>1. call[x] \in CallRow /\ Placed(call[x])
  BY DEF Typed, Rested
<1>2. /\ row \in CallRow /\ row.does = call[x].does /\ row.at = at /\ row.s = call[x].s
      /\ row.r = call[x].r /\ row.seen = call[x].seen
  BY <1>1 DEF CallRow
<1>3. call' = [call EXCEPT ![x] = row]
  BY DEF Goes
<1>4. Placed(row)
  BY <1>1, <1>2 DEF Placed
<1> HIDE DEF row
<1> QED
  BY <1>2, <1>3, <1>4, CallGoesOn

\* A call that begins does not go against any of those under way.
LEMMA CallBegins ==
  ASSUME Typed, CallsApart, Rested, Overlapping \cap Conflicting = {},
         NEW x \in Sessions, NEW does \in Calls, NEW s, NEW r, NEW at, NEW seen,
         [at |-> at, does |-> does, s |-> s, r |-> r, seen |-> seen] \in CallRow, at # "idle",
         Arrives(x, does, s, r, at, seen)
  PROVE  /\ call' \in [Sessions -> CallRow]
         /\ call'[x] = [at |-> at, does |-> does, s |-> s, r |-> r, seen |-> seen]
         /\ \A y \in Sessions \ {x} : call'[y] = call[y]
         /\ \A y \in Sessions \ {x} : {does, call[y].does} \notin Conflicting
         /\ CallsApart' /\ Rested' /\ call[x].does = "none"
<1> DEFINE row == [at |-> at, does |-> does, s |-> s, r |-> r, seen |-> seen]
<1>1. row \in CallRow /\ row.does = does /\ row.at = at
  OBVIOUS
<1>2. call' = [call EXCEPT ![x] = row] /\ call[x].at = "idle"
  BY DEF Arrives, Busy
<1>3. call[x].does = "none" /\ does # "none"
  BY <1>2 DEF Rested, Placed, Calls
<1>4. ASSUME NEW y \in Sessions \ {x} PROVE {does, call[y].does} \notin Conflicting
  <2>1. CASE call[y].at = "idle"
    BY <2>1, NothingConflictsWithNone DEF Rested, Placed
  <2>2. CASE call[y].at # "idle"
    BY <2>2 DEF Arrives, Busy
  <2> QED
    BY <2>1, <2>2
<1> HIDE DEF row
<1>5. /\ call' \in [Sessions -> CallRow] /\ call'[x] = row
      /\ \A y \in Sessions \ {x} : call'[y] = call[y]
  BY <1>1, <1>2, CallMoves
<1>6. CallsApart'
  <2>1. \A y \in Sessions \ {x} : {call[y].does, does} = {does, call[y].does}
    OBVIOUS
  <2> QED
    BY <1>1, <1>4, <1>5, <2>1 DEF CallsApart
<1>7. Rested'
  BY <1>1, <1>3, <1>5 DEF Rested, Placed
<1> QED
  BY <1>3, <1>4, <1>5, <1>6, <1>7 DEF row

LEMMA ConflictMeans ==
  ASSUME CallsApart, NEW x \in Sessions, NEW y \in Sessions \ {x}
  PROVE  /\ call[x].does = "submit" => call[y].does # "expire"
         /\ call[x].does = "expire" => call[y].does \notin {"submit", "revise"}
         /\ call[x].does \in {"assign", "auto-assign"} => call[y].does \notin {"grant", "reject", "revise"}
         /\ call[x].does = "review" => call[y].does # "grant"
         /\ call[x].does = "revise" => call[y].does \notin {"grant", "reject", "expire", "assign", "auto-assign"}
         /\ call[x].does = "grant" => call[y].does \notin {"assign", "auto-assign", "review", "revise"}
         /\ call[x].does = "reject" => call[y].does \notin {"assign", "auto-assign", "revise"}
<1>1. {call[x].does, call[y].does} \notin Conflicting /\ {call[y].does, call[x].does} \notin Conflicting
  BY DEF CallsApart
<1> QED
  BY <1>1 DEF Conflicting

-----------------------------------------------------------------------------
(***************************************************************************)
(* What a step leaves as it is.                                            *)
(***************************************************************************)

\* The calls about other screenings than the one that changed know what they
\* knew.
LEMMA OthersFit ==
  ASSUME CallsFit, NEW x \in Sessions, NEW s,
         \A y \in Sessions \ {x} : call'[y] = call[y],
         \A t \in Screenings \ {s} :
           screening'[t] = screening[t] /\ dispute'[t] = dispute[t] /\ review'[t] = review[t],
         \A y \in Sessions \ {x} : call[y].s = s => Fits(call[y])',
         Fits(call[x])'
  PROVE  CallsFit'
<1>1. ASSUME NEW y \in Sessions PROVE Fits(call[y])'
  <2>1. CASE y = x
    BY <2>1
  <2>2. CASE y # x /\ call[y].s = s
    BY <2>2
  <2>3. CASE y # x /\ call[y].s # s
    <3>1. call'[y] = call[y] /\ Fits(call[y])
      BY <2>3 DEF CallsFit
    <3>2. CASE call[y].s \in Screenings
      <4>1. screening'[call[y].s] = screening[call[y].s] /\ dispute'[call[y].s] = dispute[call[y].s]
            /\ review'[call[y].s] = review[call[y].s]
        BY <2>3, <3>2
      <4> QED
        BY <3>1, <4>1 DEF Fits, Status, Reviewed
    <3>3. CASE call[y].s \notin Screenings
      BY <3>1, <3>3 DEF Fits
    <3> QED
      BY <3>2, <3>3
  <2> QED
    BY <2>1, <2>2, <2>3
<1> QED
  BY <1>1 DEF CallsFit

LEMMA AllFit ==
  ASSUME CallsFit, NEW x \in Sessions, \A y \in Sessions \ {x} : call'[y] = call[y],
         UNCHANGED <<screening, dispute, review>>, Fits(call[x])'
  PROVE  CallsFit'
<1>1. ASSUME NEW y \in Sessions \ {x} PROVE Fits(call[y])'
  <2>1. call'[y] = call[y] /\ Fits(call[y])
    BY DEF CallsFit
  <2> QED
    BY <2>1 DEF Fits, Status, Reviewed
<1> QED
  BY <1>1 DEF CallsFit

\* A call that is not x's goes on.
LEMMA OthersGoOn ==
  ASSUME NEW x \in Sessions, \A y \in Sessions \ {x} : call'[y] = call[y], NEW s, NEW does, NEW steps,
         call[x].does # does \/ call[x].s # s \/ call[x].at \notin steps
  PROVE  Doing(s, does, steps) => Doing(s, does, steps)'
BY DEF Doing

LEMMA QueuedStays ==
  ASSUME jobs \subseteq jobs', NEW s, NEW kind PROVE Queued(s, kind) => Queued(s, kind)'
BY DEF Queued

\* What follows on an approval or a submission is not undone by a step of x that
\* neither submits nor grants.
LEMMA StillFollowed ==
  ASSUME Typed, ApprovalsFollowed, SubmissionsFollowed, NEW x \in Sessions,
         \A y \in Sessions \ {x} : call'[y] = call[y], call[x].does \notin {"submit", "grant"},
         UNCHANGED <<qualified, onboarding>>, broken \subseteq broken', heard \subseteq heard',
         jobs \subseteq jobs', unassigned \subseteq unassigned',
         \A s \in Screenings :
           /\ screening'[s].outcome = "APPROVED" <=> screening[s].outcome = "APPROVED"
           /\ screening'[s].status = "SUBMITTED" => screening[s].status = "SUBMITTED"
           /\ (\E r \in Reviewers : review[s][r].state = "ASSIGNED") =>
                s \in heard' \/ \E r \in Reviewers : review'[s][r].state = "ASSIGNED"
  PROVE  ApprovalsFollowed' /\ SubmissionsFollowed'
<1>1. \A s, does, steps : does \in {"submit", "grant"} => (Doing(s, does, steps) => Doing(s, does, steps)')
  BY OthersGoOn
<1>2. \A s, kind : Queued(s, kind) => Queued(s, kind)'
  BY QueuedStays
<1>3. SubmissionsFollowed'
  BY <1>1, <1>2 DEF SubmissionsFollowed, Status
<1>4. qualified \subseteq Screenings
  BY DEF Typed
<1>5. ApprovalsFollowed'
  BY <1>1, <1>2, <1>4 DEF ApprovalsFollowed
<1> QED
  BY <1>3, <1>5

-----------------------------------------------------------------------------
(***************************************************************************)
(* Calls that begin: they read, and only a verdict and a quiet job write.  *)
(***************************************************************************)
LEMMA ReadStep ==
  ASSUME ScreeningAssumption, Overlapping \cap Conflicting = {}, ScreeningInv,
         NEW x \in Sessions, NEW does \in Calls, NEW s \in Screenings \cup {None},
         NEW r \in Reviewers \cup {None}, NEW at, NEW seen \in Nat,
         at \in {"create", "write", "claim"}, Arrives(x, does, s, r, at, seen),
         UNCHANGED <<rows, effects, broken, heard>>,
         Fits([at |-> at, does |-> does, s |-> s, r |-> r, seen |-> seen])
  PROVE  ScreeningInv'
<1> USE DEF ScreeningInv
<1> DEFINE row == [at |-> at, does |-> does, s |-> s, r |-> r, seen |-> seen]
<1>1. row \in CallRow /\ at # "idle"
  BY DEF CallRow
<1>2. UNCHANGED <<screening, submitted, review, dispute, qualified, onboarding, jobs, unassigned, broken, heard>>
  BY DEF rows, effects
<1>3. /\ call' \in [Sessions -> CallRow] /\ call'[x] = row
      /\ \A y \in Sessions \ {x} : call'[y] = call[y]
      /\ CallsApart' /\ Rested' /\ call[x].does = "none"
  BY <1>1, CallBegins
<1>4. Fits(call[x])'
  <2>1. Fits(row)'
    BY <1>2 DEF Fits, Status, Reviewed
  <2> HIDE DEF row
  <2> QED
    BY <1>3, <2>1 DEF Fits, Status, Reviewed
<1> HIDE DEF row
<1>5. CallsFit'
  BY <1>2, <1>3, <1>4, AllFit
<1>6. RowsSound'
  BY <1>2 DEF RowsSound, RowSound, Status
<1>7. ApprovalsFollowed' /\ SubmissionsFollowed'
  BY <1>2, <1>3, StillFollowed
<1>8. Typed'
  BY <1>2, <1>3 DEF Typed
<1> QED
  BY <1>3, <1>5, <1>6, <1>7, <1>8

LEMMA BeginStep ==
  ASSUME ScreeningAssumption, Overlapping \cap Conflicting = {}, ScreeningInv, NEW x \in Sessions,
         \/ StartRead(x)
         \/ \E s \in Screenings :
              \/ SubmitRead(x, s) \/ ExpireRead(x, s) \/ ReviseRead(x, s) \/ GrantRead(x, s) \/ RejectRead(x, s)
              \/ \E r \in Reviewers : AssignRead(x, s, r)
  PROVE  ScreeningInv'
<1> DEFINE Row(at, does, s, r, seen) == [at |-> at, does |-> does, s |-> s, r |-> r, seen |-> seen]
<1>1. CASE StartRead(x)
  <2>1. "start" \in Calls /\ Fits([at |-> "create", does |-> "start", s |-> None, r |-> None, seen |-> 0])
    BY DEF Calls, Fits
  <2> QED
    BY <1>1, <2>1, ReadStep DEF StartRead
<1>2. ASSUME NEW s \in Screenings, SubmitRead(x, s) PROVE ScreeningInv'
  <2>1. screening[s].revision \in Nat
    BY DEF ScreeningInv, Typed, ScreeningRow
  <2> DEFINE seen == screening[s].revision
  <2>2. "submit" \in Calls /\ Fits([at |-> "write", does |-> "submit", s |-> s, r |-> None, seen |-> seen])
    BY <1>2, <2>1 DEF Calls, Fits, SubmitRead
  <2>3. PICK n \in Nat : n = seen
    BY <2>1
  <2>4. /\ Arrives(x, "submit", s, None, "write", n) /\ UNCHANGED <<rows, effects, broken, heard>>
        /\ Fits([at |-> "write", does |-> "submit", s |-> s, r |-> None, seen |-> n])
    BY <1>2, <2>2, <2>3 DEF SubmitRead
  <2> QED
    BY <2>2, <2>4, ReadStep
<1>3. ASSUME NEW s \in Screenings, ExpireRead(x, s) PROVE ScreeningInv'
  <2>1. "expire" \in Calls /\ Fits([at |-> "claim", does |-> "expire", s |-> s, r |-> None, seen |-> 0])
    BY <1>3 DEF Calls, Fits, ExpireRead
  <2> QED
    BY <1>3, <2>1, ReadStep DEF ExpireRead
<1>4. ASSUME NEW s \in Screenings, ReviseRead(x, s) PROVE ScreeningInv'
  <2>1. "revise" \in Calls /\ Fits([at |-> "write", does |-> "revise", s |-> s, r |-> None, seen |-> 0])
    BY <1>4 DEF Calls, Fits, ReviseRead
  <2> QED
    BY <1>4, <2>1, ReadStep DEF ReviseRead
<1>5. ASSUME NEW s \in Screenings, GrantRead(x, s) PROVE ScreeningInv'
  <2>1. "grant" \in Calls /\ Fits([at |-> "claim", does |-> "grant", s |-> s, r |-> None, seen |-> 0])
    BY <1>5 DEF Calls, Fits, GrantRead
  <2> QED
    BY <1>5, <2>1, ReadStep DEF GrantRead
<1>6. ASSUME NEW s \in Screenings, RejectRead(x, s) PROVE ScreeningInv'
  <2>1. "reject" \in Calls /\ Fits([at |-> "claim", does |-> "reject", s |-> s, r |-> None, seen |-> 0])
    BY <1>6 DEF Calls, Fits, RejectRead
  <2> QED
    BY <1>6, <2>1, ReadStep DEF RejectRead
<1>7. ASSUME NEW s \in Screenings, NEW r \in Reviewers, AssignRead(x, s, r) PROVE ScreeningInv'
  <2>1. "assign" \in Calls /\ Fits([at |-> "write", does |-> "assign", s |-> s, r |-> r, seen |-> 0])
    BY <1>7 DEF Calls, Fits, AssignRead
  <2> QED
    BY <1>7, <2>1, ReadStep DEF AssignRead
<1> QED
  BY <1>1, <1>2, <1>3, <1>4, <1>5, <1>6, <1>7

\* screening.assign_reviewer chooses a reviewer, or finds that there is nothing
\* to do, or nobody to do it.
LEMMA AutoAssignReadStep ==
  ASSUME ScreeningAssumption, Overlapping \cap Conflicting = {}, ScreeningInv, NEW x \in Sessions,
         NEW j \in jobs, AutoAssignRead(x, j)
  PROVE  ScreeningInv'
<1> USE DEF ScreeningInv
<1> DEFINE s == j[2]
<1>1. s \in Screenings /\ j[3] \in Nat /\ j[1] = "assign"
  BY DEF Typed, AutoAssignRead
<1>2. PICK t \in Screenings : t = j[2]
  BY <1>1
<1> DEFINE wanted == Status(t) \in Reviewable /\ \A r \in Reviewers : review[t][r].state # "ASSIGNED"
<1>3. CASE wanted /\ Available(t) # {}
  <2>1. PICK r \in Available(t) : Arrives(x, "auto-assign", t, r, "write", j[3])
    BY <1>2, <1>3 DEF AutoAssignRead
  <2>2. r \in Reviewers
    BY DEF Available
  <2>3. UNCHANGED <<rows, effects, broken, heard>>
    BY <1>2, <1>3 DEF AutoAssignRead, effects
  <2>4. "auto-assign" \in Calls
        /\ Fits([at |-> "write", does |-> "auto-assign", s |-> t, r |-> r, seen |-> j[3]])
    BY <1>3, <2>2 DEF Calls, Fits
  <2>5. PICK n \in Nat : n = j[3]
    BY <1>1
  <2>6. /\ Arrives(x, "auto-assign", t, r, "write", n)
        /\ Fits([at |-> "write", does |-> "auto-assign", s |-> t, r |-> r, seen |-> n])
    BY <2>1, <2>4, <2>5
  <2> QED
    BY <2>2, <2>3, <2>4, <2>6, ReadStep
<1>4. CASE ~(wanted /\ Available(t) # {})
  <2>1. /\ jobs' = jobs \ {j} /\ UNCHANGED call
        /\ unassigned' = IF wanted THEN unassigned \cup {t} ELSE unassigned
        /\ UNCHANGED <<screening, submitted, review, dispute, qualified, onboarding, broken, heard>>
    BY <1>2, <1>4 DEF AutoAssignRead, rows
  <2> HIDE DEF wanted
  <2>2. CallsFit' /\ CallsApart' /\ Rested'
    BY <2>1 DEF CallsFit, Fits, Status, Reviewed, CallsApart, Rested
  <2>3. RowsSound'
    BY <2>1 DEF RowsSound, RowSound, Status
  <2>4. \A u, does, steps : Doing(u, does, steps) => Doing(u, does, steps)'
    BY <2>1 DEF Doing
  <2>5. \A u, kind : Queued(u, kind) => Queued(u, kind)' \/ (kind = "assign" /\ u = t)
    BY <1>1, <1>2, <2>1 DEF Queued
  <2>6. ApprovalsFollowed'
    BY <2>1, <2>4, <2>5 DEF ApprovalsFollowed
  <2>7. SubmissionsFollowed'
    <3>1. ASSUME NEW u \in Screenings \ broken, Status(u) = "SUBMITTED"
          PROVE  \/ u \in heard \cup unassigned' \/ \E r \in Reviewers : review[u][r].state = "ASSIGNED"
                 \/ Doing(u, "submit", {"stage", "enqueue"})' \/ Queued(u, "assign")'
      <4>1. CASE u # t
        BY <2>1, <2>4, <2>5, <3>1, <4>1 DEF SubmissionsFollowed
      <4>2. CASE u = t
        <5>1. wanted \/ \E r \in Reviewers : review[u][r].state = "ASSIGNED"
          BY <3>1, <4>2 DEF wanted, Reviewable
        <5> QED
          BY <2>1, <4>2, <5>1
      <4> QED
        BY <4>1, <4>2
    <3> QED
      BY <2>1, <3>1 DEF SubmissionsFollowed, Status
  <2>8. Typed'
    BY <2>1 DEF Typed
  <2> QED
    BY <2>2, <2>3, <2>6, <2>7, <2>8
<1> QED
  BY <1>3, <1>4

\* A verdict is heard, and its comparison is still to come.
LEMMA ReviewClaimStep ==
  ASSUME ScreeningAssumption, Overlapping \cap Conflicting = {}, ScreeningInv, NEW x \in Sessions,
         NEW s \in Screenings, NEW r \in Reviewers, NEW d \in ReviewDecision, ReviewClaim(x, s, r, d)
  PROVE  ScreeningInv'
<1> USE DEF ScreeningInv
<1> DEFINE new == [review[s][r] EXCEPT !.state = "SUBMITTED", !.decision = d]
           mine == [review[s] EXCEPT ![r] = new]
           row == [at |-> "compare", does |-> "review", s |-> s, r |-> r, seen |-> 0]
<1>1. /\ review' = [review EXCEPT ![s] = mine] /\ heard' = heard \cup {s}
      /\ Arrives(x, "review", s, r, "compare", 0)
      /\ UNCHANGED <<screening, submitted, dispute, qualified, onboarding, jobs, unassigned, broken>>
  BY DEF ReviewClaim, effects
<1>2. new \in ReviewRow /\ new.state = "SUBMITTED"
  <2>1. review[s][r] \in ReviewRow
    BY DEF Typed
  <2> QED
    BY <2>1 DEF ReviewRow
<1> HIDE DEF new
<1>3. mine \in [Reviewers -> ReviewRow] /\ mine[r] = new /\ \A q \in Reviewers \ {r} : mine[q] = review[s][q]
  BY <1>2 DEF Typed
<1> HIDE DEF mine
<1>4. /\ review' \in [Screenings -> [Reviewers -> ReviewRow]] /\ review'[s] = mine
      /\ \A t \in Screenings \ {s} : review'[t] = review[t]
  BY <1>1, <1>3 DEF Typed
<1>5. row \in CallRow /\ "review" \in Calls
  BY DEF CallRow, Calls
<1>6. /\ call' \in [Sessions -> CallRow] /\ call'[x] = row
      /\ \A y \in Sessions \ {x} : call'[y] = call[y]
      /\ CallsApart' /\ Rested' /\ call[x].does = "none"
  BY <1>1, <1>5, CallBegins
<1>7. Fits(call[x])'
  BY <1>6 DEF Fits
<1> HIDE DEF row
<1>8. \A t \in Screenings : Reviewed(t) => Reviewed(t)'
  BY <1>2, <1>3, <1>4 DEF Reviewed
<1>9. CallsFit'
  <2>1. ASSUME NEW y \in Sessions \ {x}, call[y].s = s PROVE Fits(call[y])'
    <3>1. call'[y] = call[y] /\ Fits(call[y])
      BY <1>6 DEF CallsFit
    <3> QED
      BY <1>1, <1>8, <2>1, <3>1 DEF Fits, Status
  <2> QED
    BY <1>1, <1>4, <1>6, <1>7, <2>1, OthersFit
<1>10. RowsSound'
  BY <1>1 DEF RowsSound, RowSound, Status
<1>11. ApprovalsFollowed' /\ SubmissionsFollowed'
  <2>1. ASSUME NEW t \in Screenings, \E q \in Reviewers : review[t][q].state = "ASSIGNED"
        PROVE  t \in heard' \/ \E q \in Reviewers : review'[t][q].state = "ASSIGNED"
    BY <1>1, <1>4, <2>1
  <2>2. call[x].does \notin {"submit", "grant"}
    BY <1>6
  <2> QED
    BY <1>1, <1>6, <2>1, <2>2, StillFollowed
<1>12. Typed'
  BY <1>1, <1>4, <1>6 DEF Typed
<1> QED
  BY <1>6, <1>9, <1>10, <1>11, <1>12

-----------------------------------------------------------------------------
(***************************************************************************)
(* Calls that end, and calls that are cut short.                           *)
(***************************************************************************)

\* What a call that was cut short would have followed up is in broken.
LEMMA CutStep ==
  ASSUME ScreeningInv, NEW x \in Sessions, CutShort(x),
         UNCHANGED <<screening, submitted, review, dispute, qualified, onboarding, unassigned, heard>>,
         jobs' \subseteq jobs, \A t : t # call[x].s => \A kind : Queued(t, kind) => Queued(t, kind)'
  PROVE  ScreeningInv'
<1> USE DEF ScreeningInv
<1>1. Ends(x) /\ broken' = broken \cup ({call[x].s} \cap Screenings)
  BY DEF CutShort
<1>2. /\ call' \in [Sessions -> CallRow] /\ call'[x] = Idle
      /\ \A y \in Sessions \ {x} : call'[y] = call[y]
      /\ CallsApart' /\ Rested' /\ Fits(call[x])'
  BY <1>1, CallEnds
<1>3. CallsFit'
  BY <1>2, AllFit
<1>4. RowsSound'
  BY DEF RowsSound, RowSound, Status
<1>5. qualified \subseteq Screenings
  BY DEF Typed
<1>6. \A t, does, steps : t # call[x].s => (Doing(t, does, steps) => Doing(t, does, steps)')
  BY <1>2, OthersGoOn
<1>7. ApprovalsFollowed'
  <2>1. \A s \in Screenings : screening[s].outcome = "APPROVED" =>
          s \in qualified \cup broken' \/ Doing(s, "grant", {"qualify"})'
    BY <1>1, <1>6 DEF ApprovalsFollowed
  <2>2. \A s \in qualified \ broken' :
          onboarding \/ Doing(s, "grant", {"stage", "enqueue"})' \/ Queued(s, "apply")'
    BY <1>1, <1>5, <1>6 DEF ApprovalsFollowed
  <2> QED
    BY <2>1, <2>2 DEF ApprovalsFollowed
<1>8. SubmissionsFollowed'
  <2>1. ASSUME NEW s \in Screenings \ broken', Status(s) = "SUBMITTED"
        PROVE  \/ s \in heard \cup unassigned \/ \E r \in Reviewers : review[s][r].state = "ASSIGNED"
               \/ Doing(s, "submit", {"stage", "enqueue"})' \/ Queued(s, "assign")'
    <3>1. s # call[x].s /\ s \notin broken
      BY <1>1
    <3> QED
      BY <1>6, <2>1, <3>1 DEF SubmissionsFollowed
  <2> QED
    BY <2>1 DEF SubmissionsFollowed, Status
<1>9. Typed'
  BY <1>1, <1>2 DEF Typed
<1> QED
  BY <1>2, <1>3, <1>4, <1>7, <1>8, <1>9

\* A call that has nothing left to do.
LEMMA EndStep ==
  ASSUME ScreeningInv, NEW x \in Sessions, Ends(x),
         call[x].does \notin {"submit", "grant"} \/ call[x].at \notin {"qualify", "stage", "enqueue"},
         UNCHANGED <<screening, submitted, review, dispute, qualified, onboarding, jobs, unassigned,
                     broken, heard>>
  PROVE  ScreeningInv'
<1> USE DEF ScreeningInv
<1>1. /\ call' \in [Sessions -> CallRow] /\ call'[x] = Idle
      /\ \A y \in Sessions \ {x} : call'[y] = call[y]
      /\ CallsApart' /\ Rested' /\ Fits(call[x])'
  BY CallEnds
<1>2. CallsFit'
  BY <1>1, AllFit
<1>3. RowsSound'
  BY DEF RowsSound, RowSound, Status
<1>4. /\ \A t : Doing(t, "grant", {"qualify"}) => Doing(t, "grant", {"qualify"})'
      /\ \A t : Doing(t, "grant", {"stage", "enqueue"}) => Doing(t, "grant", {"stage", "enqueue"})'
      /\ \A t : Doing(t, "submit", {"stage", "enqueue"}) => Doing(t, "submit", {"stage", "enqueue"})'
  BY <1>1 DEF Doing
<1>5. \A t, kind : Queued(t, kind) => Queued(t, kind)'
  BY DEF Queued
<1>6. ApprovalsFollowed'
  BY <1>4, <1>5 DEF ApprovalsFollowed
<1>7. SubmissionsFollowed'
  BY <1>4, <1>5 DEF SubmissionsFollowed, Status
<1>8. Typed'
  BY <1>1 DEF Typed
<1> QED
  BY <1>1, <1>2, <1>3, <1>6, <1>7, <1>8

\* A call that goes on from one of its last steps to the next.
LEMMA GoStep ==
  ASSUME ScreeningInv, NEW x \in Sessions, call[x].at = "stage", Goes(x, "enqueue"),
         call[x].does \in {"start", "submit", "grant"},
         UNCHANGED <<screening, submitted, review, dispute, qualified, onboarding, jobs, unassigned,
                     broken, heard>>
  PROVE  ScreeningInv'
<1> USE DEF ScreeningInv
<1>1. PICK row \in CallRow :
        /\ row.does = call[x].does /\ row.at = "enqueue" /\ row.s = call[x].s /\ row.r = call[x].r
        /\ row.seen = call[x].seen
        /\ call' \in [Sessions -> CallRow] /\ call'[x] = row
        /\ \A y \in Sessions \ {x} : call'[y] = call[y]
        /\ CallsApart' /\ Rested'
  BY CallGoes
<1>2. Fits(call[x])'
  BY <1>1 DEF CallsFit, Fits
<1>3. CallsFit'
  BY <1>1, <1>2, AllFit
<1>4. RowsSound'
  BY DEF RowsSound, RowSound, Status
<1>5. /\ \A t : Doing(t, "grant", {"qualify"}) => Doing(t, "grant", {"qualify"})'
      /\ \A t : Doing(t, "grant", {"stage", "enqueue"}) => Doing(t, "grant", {"stage", "enqueue"})'
      /\ \A t : Doing(t, "submit", {"stage", "enqueue"}) => Doing(t, "submit", {"stage", "enqueue"})'
  BY <1>1 DEF Doing
<1>6. \A t, kind : Queued(t, kind) => Queued(t, kind)'
  BY DEF Queued
<1>7. ApprovalsFollowed'
  BY <1>5, <1>6 DEF ApprovalsFollowed
<1>8. SubmissionsFollowed'
  BY <1>5, <1>6 DEF SubmissionsFollowed, Status
<1>9. Typed'
  BY <1>1 DEF Typed
<1> QED
  BY <1>1, <1>3, <1>4, <1>7, <1>8, <1>9

LEMMA CrashStep == ASSUME ScreeningInv, NEW x \in Sessions, Crash(x) PROVE ScreeningInv'
<1>1. UNCHANGED <<screening, submitted, review, dispute, qualified, onboarding, jobs, unassigned, heard>>
  BY DEF Crash, rows, effects
<1>2. \A t : t # call[x].s => \A kind : Queued(t, kind) => Queued(t, kind)'
  BY <1>1 DEF Queued
<1>3. CASE call[x].does \in {"auto-assign", "expire"}
  BY <1>1, <1>3, EndStep DEF Crash
<1>4. CASE call[x].does \notin {"auto-assign", "expire"}
  BY <1>1, <1>2, <1>4, CutStep DEF Crash
<1> QED
  BY <1>3, <1>4

LEMMA SetCandidateStageStep ==
  ASSUME ScreeningInv, NEW x \in Sessions, SetCandidateStage(x) PROVE ScreeningInv'
<1>1. /\ call[x].at = "stage"
      /\ UNCHANGED <<screening, submitted, review, dispute, qualified, onboarding, jobs, unassigned, heard>>
  BY DEF SetCandidateStage, effects
<1>2. \A t : t # call[x].s => \A kind : Queued(t, kind) => Queued(t, kind)'
  BY <1>1 DEF Queued
<1>3. CASE CutShort(x)
  BY <1>1, <1>2, <1>3, CutStep
<1>4. CASE Ends(x) /\ UNCHANGED broken /\ call[x].does \notin {"start", "submit", "grant"}
  BY <1>1, <1>4, EndStep
<1>5. CASE Goes(x, "enqueue") /\ UNCHANGED broken /\ call[x].does \in {"start", "submit", "grant"}
  BY <1>1, <1>5, GoStep
<1> QED
  BY <1>3, <1>4, <1>5 DEF SetCandidateStage

\* The job a call ends with takes over what the call was to follow up.
LEMMA EnqueueStep == ASSUME ScreeningInv, NEW x \in Sessions, Enqueue(x) PROVE ScreeningInv'
<1> USE DEF ScreeningInv
<1> DEFINE kind == CASE call[x].does = "start" -> "invite"
                     [] call[x].does = "submit" -> "assign"
                     [] OTHER -> "apply"
           job == <<kind, call[x].s, IF kind = "assign" THEN call[x].seen + 1 ELSE 0>>
<1>1. /\ call[x].at = "enqueue" /\ Ends(x) /\ jobs' = jobs \cup {job}
      /\ UNCHANGED <<screening, submitted, review, dispute, qualified, onboarding, unassigned, broken, heard>>
  BY DEF Enqueue, rows
<1>2. call[x] \in CallRow /\ Fits(call[x]) /\ Placed(call[x])
  BY DEF Typed, CallsFit, Rested
<1>3. call[x].does \in {"start", "submit", "grant"} /\ call[x].s \in Screenings
  BY <1>1, <1>2 DEF Fits, Placed, CallRow, Calls
<1>4. job \in {"invite", "assign", "apply"} \X Screenings \X Nat
  BY <1>2, <1>3 DEF CallRow
<1>5. /\ job[1] = kind /\ job[2] = call[x].s
      /\ call[x].does = "submit" => kind = "assign"
      /\ call[x].does = "grant" => kind = "apply"
  BY <1>3
<1> HIDE DEF job, kind
<1>6. /\ call' \in [Sessions -> CallRow] /\ call'[x] = Idle
      /\ \A y \in Sessions \ {x} : call'[y] = call[y]
      /\ CallsApart' /\ Rested' /\ Fits(call[x])'
  BY <1>1, CallEnds
<1>7. CallsFit'
  BY <1>1, <1>6, AllFit
<1>8. RowsSound'
  BY <1>1 DEF RowsSound, RowSound, Status
<1>9. \A t, k : Queued(t, k) => Queued(t, k)'
  BY <1>1, QueuedStays
<1>10. \A t, k : t = job[2] /\ k = job[1] => Queued(t, k)'
  BY <1>1 DEF Queued
<1>11. \A t : Doing(t, "grant", {"qualify"}) => Doing(t, "grant", {"qualify"})'
  BY <1>1, <1>6 DEF Doing
<1>12. /\ \A t : Doing(t, "grant", {"stage", "enqueue"}) =>
              Doing(t, "grant", {"stage", "enqueue"})' \/ Queued(t, "apply")'
       /\ \A t : Doing(t, "submit", {"stage", "enqueue"}) =>
              Doing(t, "submit", {"stage", "enqueue"})' \/ Queued(t, "assign")'
  <2>1. \A t : t = call[x].s /\ call[x].does = "grant" => Queued(t, "apply")'
    BY <1>5, <1>10
  <2>2. \A t : t = call[x].s /\ call[x].does = "submit" => Queued(t, "assign")'
    BY <1>5, <1>10
  <2> QED
    BY <1>6, <2>1, <2>2 DEF Doing
<1>13. ApprovalsFollowed'
  BY <1>1, <1>9, <1>11, <1>12 DEF ApprovalsFollowed
<1>14. SubmissionsFollowed'
  BY <1>1, <1>9, <1>12 DEF SubmissionsFollowed, Status
<1>15. Typed'
  BY <1>1, <1>4, <1>6 DEF Typed
<1> QED
  BY <1>6, <1>7, <1>8, <1>13, <1>14, <1>15

-----------------------------------------------------------------------------
(***************************************************************************)
(* Steps that write a screening.                                           *)
(***************************************************************************)
LEMMA RowWritten ==
  ASSUME Typed, NEW s \in Screenings, NEW new \in ScreeningRow, screening' = [screening EXCEPT ![s] = new]
  PROVE  /\ screening' \in [Screenings -> ScreeningRow] /\ screening'[s] = new
         /\ \A t \in Screenings \ {s} : screening'[t] = screening[t]
BY DEF Typed

\* startScreening takes a screening that does not exist yet.
LEMMA StartCreateStep == ASSUME ScreeningInv, NEW x \in Sessions, StartCreate(x) PROVE ScreeningInv'
<1> USE DEF ScreeningInv
<1>1. PICK s \in Screenings :
        /\ Status(s) = "NONE" /\ screening' = [screening EXCEPT ![s].status = "INVITED"]
        /\ call' = [call EXCEPT ![x].s = s, ![x].at = "stage"]
  BY DEF StartCreate
<1>2. /\ call[x].does = "start" /\ call[x].at = "create"
      /\ UNCHANGED <<submitted, review, dispute, qualified, onboarding, jobs, unassigned, broken, heard>>
  BY DEF StartCreate, At, effects
<1> DEFINE new == [screening[s] EXCEPT !.status = "INVITED"]
           row == [call[x] EXCEPT !.s = s, !.at = "stage"]
<1>3. /\ new \in ScreeningRow /\ new.status = "INVITED" /\ new.outcome = screening[s].outcome
      /\ new.revision = screening[s].revision /\ new.overdue = screening[s].overdue
  BY DEF Typed, ScreeningRow, ScreeningStatus
<1>4. screening' = [screening EXCEPT ![s] = new]
  BY <1>1
<1>5. row \in CallRow /\ row.does = "start" /\ row.at = "stage" /\ row.s = s
  BY <1>2 DEF Typed, CallRow
<1>6. call' = [call EXCEPT ![x] = row]
  BY <1>1
<1> HIDE DEF new, row
<1>7. /\ screening' \in [Screenings -> ScreeningRow] /\ screening'[s] = new
      /\ \A t \in Screenings \ {s} : screening'[t] = screening[t]
  BY <1>3, <1>4, RowWritten
<1>8. Placed(row)
  BY <1>5 DEF Placed
<1>9. /\ call' \in [Sessions -> CallRow] /\ call'[x] = row
      /\ \A y \in Sessions \ {x} : call'[y] = call[y]
      /\ CallsApart' /\ Rested'
  BY <1>2, <1>5, <1>6, <1>8, CallGoesOn
<1>10. Fits(call[x])'
  BY <1>5, <1>9 DEF Fits
<1>11. RowSound(s) /\ screening[s].outcome # "APPROVED"
  BY <1>1 DEF RowsSound, RowSound
<1>12. CallsFit'
  <2>1. ASSUME NEW y \in Sessions \ {x}, call[y].s = s PROVE Fits(call[y])'
    <3>1. call'[y] = call[y] /\ Fits(call[y])
      BY <1>9 DEF CallsFit
    <3>2. Status(s) = "NONE" /\ Status(s)' = "INVITED"
      BY <1>1, <1>3, <1>7 DEF Status
    <3> QED
      BY <1>2, <1>3, <1>7, <2>1, <3>1, <3>2 DEF Fits, Reviewed, Accepting, Reviewable
  <2> QED
    BY <1>2, <1>7, <1>9, <1>10, <2>1, OthersFit
<1>13. RowsSound'
  <2>1. ASSUME NEW t \in Screenings PROVE RowSound(t)'
    BY <1>2, <1>3, <1>7, <1>11 DEF RowsSound, RowSound, Status
  <2> QED
    BY <2>1 DEF RowsSound
<1>14. ApprovalsFollowed' /\ SubmissionsFollowed'
  <2>1. ASSUME NEW t \in Screenings
        PROVE  /\ screening'[t].outcome = "APPROVED" <=> screening[t].outcome = "APPROVED"
               /\ screening'[t].status = "SUBMITTED" => screening[t].status = "SUBMITTED"
               /\ (\E r \in Reviewers : review[t][r].state = "ASSIGNED") =>
                    t \in heard' \/ \E r \in Reviewers : review'[t][r].state = "ASSIGNED"
    BY <1>2, <1>3, <1>7
  <2> QED
    BY <1>2, <1>9, <2>1, StillFollowed
<1>15. Typed'
  BY <1>2, <1>7, <1>9 DEF Typed
<1> QED
  BY <1>9, <1>12, <1>13, <1>14, <1>15

\* submitScreening adds the revision it read plus one, if it is still missing.
LEMMA SubmitWriteStep == ASSUME ScreeningInv, NEW x \in Sessions, SubmitWrite(x) PROVE ScreeningInv'
<1> USE DEF ScreeningInv
<1>1. /\ call[x].does = "submit" /\ call[x].at = "write" /\ call[x] \in CallRow /\ Fits(call[x])
      /\ UNCHANGED <<review, dispute, qualified, onboarding, jobs, unassigned, broken>>
  BY DEF SubmitWrite, At, Typed, CallsFit, effects
<1>2. PICK s \in Screenings : s = call[x].s
  BY <1>1 DEF Fits
<1>3. PICK n \in Nat : n = call[x].seen + 1
  BY <1>1 DEF CallRow
<1>4. screening[s] \in ScreeningRow /\ screening[s].revision \in Nat /\ RowSound(s)
  BY DEF Typed, RowsSound, ScreeningRow
<1>5. CASE n \in submitted[s]
  <2>1. Ends(x) /\ UNCHANGED <<submitted, screening, heard>>
    BY <1>2, <1>3, <1>5 DEF SubmitWrite
  <2> QED
    BY <1>1, <2>1, EndStep
<1>6. CASE n \notin submitted[s]
  <2> DEFINE new == [screening[s] EXCEPT !.status = "SUBMITTED", !.revision = n]
  <2>1. /\ submitted' = [submitted EXCEPT ![s] = @ \cup {n}] /\ heard' = heard \ {s}
        /\ screening' = [screening EXCEPT ![s] = new] /\ Goes(x, "stage")
    BY <1>2, <1>3, <1>6 DEF SubmitWrite
  <2>2. /\ new \in ScreeningRow /\ new.status = "SUBMITTED" /\ new.revision = n
        /\ new.outcome = screening[s].outcome /\ new.overdue = screening[s].overdue
    BY <1>4 DEF ScreeningRow, ScreeningStatus
  <2> HIDE DEF new
  <2>3. /\ screening' \in [Screenings -> ScreeningRow] /\ screening'[s] = new
        /\ \A t \in Screenings \ {s} : screening'[t] = screening[t]
    BY <2>1, <2>2, RowWritten
  <2>4. n = screening[s].revision + 1 /\ Status(s) \in Accepting
    <3>1. submitted[s] = 1 .. screening[s].revision /\ call[x].seen <= screening[s].revision /\ call[x].seen \in Nat
      BY <1>1, <1>2, <1>4 DEF RowSound, Fits, CallRow
    <3>2. call[x].seen = screening[s].revision
      BY <1>3, <1>4, <1>6, <3>1
    <3> QED
      BY <1>1, <1>2, <1>3, <3>2 DEF Fits
  <2>5. /\ submitted' \in [Screenings -> SUBSET Nat] /\ submitted'[s] = 1 .. n
        /\ \A t \in Screenings \ {s} : submitted'[t] = submitted[t]
    <3>1. submitted[s] \cup {n} = 1 .. n
      BY <1>4, <2>4 DEF RowSound
    <3> QED
      BY <2>1, <3>1 DEF Typed
  <2>6. PICK row \in CallRow :
          /\ row.does = "submit" /\ row.at = "stage" /\ row.s = s
          /\ call' \in [Sessions -> CallRow] /\ call'[x] = row
          /\ \A y \in Sessions \ {x} : call'[y] = call[y]
          /\ CallsApart' /\ Rested'
    <3>1. \E row \in CallRow :
            /\ row.does = call[x].does /\ row.at = "stage" /\ row.s = call[x].s /\ row.r = call[x].r
            /\ row.seen = call[x].seen
            /\ call' \in [Sessions -> CallRow] /\ call'[x] = row
            /\ \A y \in Sessions \ {x} : call'[y] = call[y]
            /\ CallsApart' /\ Rested'
      BY <1>1, <2>1, CallGoes
    <3> QED
      BY <1>1, <1>2, <3>1
  <2>7. Fits(call[x])'
    BY <2>6 DEF Fits
  <2>8. CallsFit'
    <3>1. ASSUME NEW y \in Sessions \ {x}, call[y].s = s PROVE Fits(call[y])'
      <4>1. call'[y] = call[y] /\ Fits(call[y]) /\ call[y].does # "expire" /\ call[y] \in CallRow
        BY <1>1, <2>6, ConflictMeans DEF CallsFit, Typed
      <4>2. call[y].does = "submit" /\ call[y].at = "write" => call[y].seen < n
        BY <1>4, <2>4, <3>1, <4>1 DEF Fits, CallRow
      <4>3. Status(s) \in Accepting /\ Status(s)' = "SUBMITTED"
        BY <2>2, <2>3, <2>4 DEF Status
      <4>4. \A t \in Screenings : Reviewed(t)' <=> Reviewed(t)
        BY <1>1 DEF Reviewed
      <4>5. call[y].does = "submit" => Fits(call[y])'
        BY <2>2, <2>3, <3>1, <4>1, <4>2 DEF Fits, CallRow
      <4>6. call[y].does # "submit" => Fits(call[y])'
        BY <1>1, <2>2, <2>3, <3>1, <4>1, <4>3, <4>4 DEF Fits, Accepting, Reviewable
      <4> QED
        BY <4>5, <4>6
    <3> QED
      BY <1>1, <2>3, <2>6, <2>7, <3>1, OthersFit
  <2>9. RowsSound'
    <3>1. ASSUME NEW t \in Screenings \ {s} PROVE RowSound(t)'
      BY <2>3, <2>5 DEF RowsSound, RowSound, Status
    <3>2. RowSound(s)'
      <4>1. screening[s].outcome # "APPROVED"
        BY <1>4, <2>4 DEF RowSound, Accepting
      <4> QED
        BY <2>2, <2>3, <2>5, <4>1 DEF RowSound, Status
    <3> QED
      BY <3>1, <3>2 DEF RowsSound
  <2>10. /\ \A t, steps : Doing(t, "grant", steps) => Doing(t, "grant", steps)'
         /\ \A t : t # s => (Doing(t, "submit", {"stage", "enqueue"}) => Doing(t, "submit", {"stage", "enqueue"})')
         /\ Doing(s, "submit", {"stage", "enqueue"})'
    <3>1. \A t, steps : Doing(t, "grant", steps) => Doing(t, "grant", steps)'
      BY <1>1, <2>6, OthersGoOn
    <3>2. \A t : t # s =>
            (Doing(t, "submit", {"stage", "enqueue"}) => Doing(t, "submit", {"stage", "enqueue"})')
      BY <1>2, <2>6, OthersGoOn
    <3> QED
      BY <2>6, <3>1, <3>2 DEF Doing
  <2>11. \A t, kind : Queued(t, kind) => Queued(t, kind)'
    BY <1>1 DEF Queued
  <2>12. ApprovalsFollowed'
    <3>1. \A t \in Screenings : screening'[t].outcome = screening[t].outcome
      BY <2>2, <2>3
    <3> QED
      BY <1>1, <2>10, <2>11, <3>1 DEF ApprovalsFollowed, Typed
  <2>13. SubmissionsFollowed'
    BY <1>1, <2>1, <2>3, <2>10, <2>11 DEF SubmissionsFollowed, Status
  <2>14. Typed'
    <3>1. heard' \subseteq Screenings
      BY <2>1 DEF Typed
    <3> QED
      BY <1>1, <2>3, <2>5, <2>6, <3>1 DEF Typed
  <2> QED
    BY <2>6, <2>8, <2>9, <2>12, <2>13, <2>14
<1> QED
  BY <1>5, <1>6

\* A screening whose status moves on, not to SUBMITTED, before it was approved.
LEMMA StatusWritten ==
  ASSUME ScreeningInv, NEW x \in Sessions, NEW s \in Screenings, NEW new \in ScreeningRow,
         screening' = [screening EXCEPT ![s] = new],
         UNCHANGED <<submitted, review, dispute, qualified, onboarding, jobs, unassigned, broken, heard>>,
         new.revision = screening[s].revision, new.outcome = screening[s].outcome,
         new.status # "SUBMITTED", screening[s].outcome # "APPROVED",
         new.status = "EXPIRED" => new.overdue,
         call' \in [Sessions -> CallRow], \A y \in Sessions \ {x} : call'[y] = call[y],
         call[x].does \notin {"submit", "grant"}, CallsApart', Rested', Fits(call[x])',
         \A y \in Sessions \ {x} : call[y].s = s => Fits(call[y])'
  PROVE  ScreeningInv'
<1> USE DEF ScreeningInv
<1>1. /\ screening' \in [Screenings -> ScreeningRow] /\ screening'[s] = new
      /\ \A t \in Screenings \ {s} : screening'[t] = screening[t]
  BY RowWritten
<1>2. CallsFit'
  BY <1>1, OthersFit
<1>3. RowsSound'
  <2>1. ASSUME NEW t \in Screenings PROVE RowSound(t)'
    BY <1>1 DEF RowsSound, RowSound, Status
  <2> QED
    BY <2>1 DEF RowsSound
<1>4. ApprovalsFollowed' /\ SubmissionsFollowed'
  <2>1. ASSUME NEW t \in Screenings
        PROVE  /\ screening'[t].outcome = "APPROVED" <=> screening[t].outcome = "APPROVED"
               /\ screening'[t].status = "SUBMITTED" => screening[t].status = "SUBMITTED"
               /\ (\E r \in Reviewers : review[t][r].state = "ASSIGNED") =>
                    t \in heard' \/ \E r \in Reviewers : review'[t][r].state = "ASSIGNED"
    BY <1>1
  <2> QED
    BY <2>1, StillFollowed
<1>5. Typed'
  BY <1>1 DEF Typed
<1> QED
  BY <1>2, <1>3, <1>4, <1>5

LEMMA OverdueStep == ASSUME ScreeningInv, NEW s \in Screenings, Overdue(s) PROVE ScreeningInv'
<1> USE DEF ScreeningInv
<1> DEFINE new == [screening[s] EXCEPT !.overdue = TRUE]
<1>1. /\ Status(s) \in Accepting /\ screening' = [screening EXCEPT ![s] = new]
      /\ UNCHANGED <<submitted, review, dispute, qualified, onboarding, jobs, unassigned, call, broken, heard>>
  BY DEF Overdue, effects
<1>2. /\ new \in ScreeningRow /\ new.status = screening[s].status /\ new.outcome = screening[s].outcome
      /\ new.revision = screening[s].revision /\ new.overdue
  BY DEF Typed, ScreeningRow
<1> HIDE DEF new
<1>3. /\ screening' \in [Screenings -> ScreeningRow] /\ screening'[s] = new
      /\ \A t \in Screenings \ {s} : screening'[t] = screening[t]
  BY <1>1, <1>2, RowWritten
<1>4. \A t \in Screenings :
        /\ screening'[t].status = screening[t].status /\ screening'[t].outcome = screening[t].outcome
        /\ screening'[t].revision = screening[t].revision
        /\ screening[t].overdue => screening'[t].overdue
  BY <1>2, <1>3
<1>5. CallsFit'
  <2>1. ASSUME NEW y \in Sessions PROVE Fits(call[y])'
    <3>1. call'[y] = call[y] /\ Fits(call[y])
      BY <1>1 DEF CallsFit
    <3>2. CASE call[y].s \in Screenings
      BY <1>1, <1>4, <3>1, <3>2 DEF Fits, Status, Reviewed
    <3>3. CASE call[y].s \notin Screenings
      BY <3>1, <3>3 DEF Fits
    <3> QED
      BY <3>2, <3>3
  <2> QED
    BY <2>1 DEF CallsFit
<1>6. RowsSound'
  <2>1. ASSUME NEW t \in Screenings PROVE RowSound(t)'
    BY <1>1, <1>4 DEF RowsSound, RowSound, Status
  <2> QED
    BY <2>1 DEF RowsSound
<1>7. \A t, does, steps : Doing(t, does, steps)' <=> Doing(t, does, steps)
  BY <1>1 DEF Doing
<1>8. \A t, kind : Queued(t, kind)' <=> Queued(t, kind)
  BY <1>1 DEF Queued
<1>9. ApprovalsFollowed'
  BY <1>1, <1>4, <1>7, <1>8 DEF ApprovalsFollowed, Typed
<1>10. SubmissionsFollowed'
  BY <1>1, <1>4, <1>7, <1>8 DEF SubmissionsFollowed, Status
<1>11. CallsApart' /\ Rested'
  BY <1>1 DEF CallsApart, Rested
<1>12. Typed'
  BY <1>1, <1>3 DEF Typed
<1> QED
  BY <1>5, <1>6, <1>9, <1>10, <1>11, <1>12

\* expireOverdueScreenings: nothing that is still accepting was given more time
\* since it was read.
LEMMA ExpireClaimStep == ASSUME ScreeningInv, NEW x \in Sessions, ExpireClaim(x) PROVE ScreeningInv'
<1> USE DEF ScreeningInv
<1>1. /\ call[x].does = "expire" /\ call[x].at = "claim" /\ Fits(call[x]) /\ Ends(x)
      /\ UNCHANGED <<submitted, review, dispute, qualified, onboarding, jobs, unassigned, broken, heard>>
  BY DEF ExpireClaim, At, CallsFit, effects
<1>2. PICK s \in Screenings : s = call[x].s
  BY <1>1 DEF Fits
<1>3. CASE Status(s) \notin Accepting
  BY <1>1, <1>2, <1>3, EndStep DEF ExpireClaim
<1>4. CASE Status(s) \in Accepting
  <2> DEFINE new == [screening[s] EXCEPT !.status = "EXPIRED"]
  <2>1. screening' = [screening EXCEPT ![s] = new]
    BY <1>2, <1>4 DEF ExpireClaim
  <2>2. screening[s] \in ScreeningRow /\ screening[s].overdue /\ screening[s].outcome # "APPROVED"
    BY <1>1, <1>2, <1>4 DEF Typed, Fits, RowsSound, RowSound, Accepting
  <2>3. /\ new \in ScreeningRow /\ new.status = "EXPIRED" /\ new.outcome = screening[s].outcome
        /\ new.revision = screening[s].revision /\ new.overdue
    BY <2>2 DEF ScreeningRow, ScreeningStatus
  <2> HIDE DEF new
  <2>4. /\ call' \in [Sessions -> CallRow] /\ call'[x] = Idle
        /\ \A y \in Sessions \ {x} : call'[y] = call[y]
        /\ CallsApart' /\ Rested' /\ Fits(call[x])'
    BY <1>1, CallEnds
  <2>5. ASSUME NEW y \in Sessions \ {x}, call[y].s = s PROVE Fits(call[y])'
    <3>1. call'[y] = call[y] /\ Fits(call[y]) /\ call[y].does \notin {"submit", "revise"}
      BY <1>1, <2>4, ConflictMeans DEF CallsFit
    <3>2. screening'[s] = new
      BY <2>1, <2>3, RowWritten
    <3>3. Status(s)' = "EXPIRED" /\ \A t : Reviewed(t)' <=> Reviewed(t)
      BY <1>1, <2>3, <3>2 DEF Status, Reviewed
    <3> QED
      BY <1>1, <1>4, <2>3, <2>5, <3>1, <3>2, <3>3 DEF Fits, Accepting, Reviewable
  <2>6. call[x].does \notin {"submit", "grant"}
    BY <1>1
  <2> QED
    BY <1>1, <2>1, <2>2, <2>3, <2>4, <2>5, <2>6, StatusWritten
<1> QED
  BY <1>3, <1>4

\* assignReviewer: nothing took the screening out of review since it was read.
LEMMA AssignUpdateStep == ASSUME ScreeningInv, NEW x \in Sessions, AssignUpdate(x) PROVE ScreeningInv'
<1> USE DEF ScreeningInv
<1>1. /\ call[x].does = "assign" /\ call[x].at = "update" /\ Fits(call[x]) /\ Goes(x, "stage")
      /\ UNCHANGED <<submitted, review, dispute, qualified, onboarding, jobs, unassigned, broken, heard>>
  BY DEF AssignUpdate, At, CallsFit, effects
<1>2. PICK s \in Screenings : s = call[x].s
  BY <1>1 DEF Fits
<1> DEFINE new == [screening[s] EXCEPT !.status = "IN_REVIEW"]
<1>3. screening' = [screening EXCEPT ![s] = new]
  BY <1>2 DEF AssignUpdate
<1>4. screening[s] \in ScreeningRow /\ Status(s) \in Reviewable /\ screening[s].outcome # "APPROVED"
  BY <1>1, <1>2 DEF Typed, Fits, RowsSound, RowSound, Reviewable
<1>5. /\ new \in ScreeningRow /\ new.status = "IN_REVIEW" /\ new.outcome = screening[s].outcome
      /\ new.revision = screening[s].revision /\ new.overdue = screening[s].overdue
  BY <1>4 DEF ScreeningRow, ScreeningStatus
<1> HIDE DEF new
<1>6. PICK row \in CallRow :
        /\ row.does = "assign" /\ row.at = "stage" /\ row.s = s /\ row.r = call[x].r
        /\ call' \in [Sessions -> CallRow] /\ call'[x] = row
        /\ \A y \in Sessions \ {x} : call'[y] = call[y]
        /\ CallsApart' /\ Rested'
  <2>1. \E row \in CallRow :
          /\ row.does = call[x].does /\ row.at = "stage" /\ row.s = call[x].s /\ row.r = call[x].r
          /\ row.seen = call[x].seen
          /\ call' \in [Sessions -> CallRow] /\ call'[x] = row
          /\ \A y \in Sessions \ {x} : call'[y] = call[y]
          /\ CallsApart' /\ Rested'
    BY <1>1, CallGoes
  <2> QED
    BY <1>1, <1>2, <2>1
<1>7. screening'[s] = new /\ Status(s)' = "IN_REVIEW" /\ \A t : Reviewed(t)' <=> Reviewed(t)
  <2>1. screening'[s] = new
    BY <1>3, <1>5, RowWritten
  <2> QED
    BY <1>1, <1>5, <2>1 DEF Status, Reviewed
<1>8. Fits(call[x])'
  BY <1>1, <1>6, <1>7 DEF Fits, Reviewable
<1>9. ASSUME NEW y \in Sessions \ {x}, call[y].s = s PROVE Fits(call[y])'
  <2>1. call'[y] = call[y] /\ Fits(call[y])
    BY <1>6 DEF CallsFit
  <2> QED
    BY <1>1, <1>4, <1>5, <1>7, <1>9, <2>1 DEF Fits, Accepting, Reviewable
<1>10. call[x].does \notin {"submit", "grant"} /\ new.status # "SUBMITTED" /\ (new.status = "EXPIRED" => new.overdue)
  BY <1>1, <1>5
<1> QED
  BY <1>1, <1>3, <1>4, <1>5, <1>6, <1>8, <1>9, <1>10, StatusWritten

\* requestRevision: nothing was decided and nothing expired since it was read.
LEMMA ReviseWriteStep == ASSUME ScreeningInv, NEW x \in Sessions, ReviseWrite(x) PROVE ScreeningInv'
<1> USE DEF ScreeningInv
<1>1. /\ call[x].does = "revise" /\ call[x].at = "write" /\ Fits(call[x]) /\ Goes(x, "stage")
      /\ UNCHANGED <<submitted, review, dispute, qualified, onboarding, jobs, unassigned, broken, heard>>
  BY DEF ReviseWrite, At, CallsFit, effects
<1>2. PICK s \in Screenings : s = call[x].s
  BY <1>1 DEF Fits
<1> DEFINE new == [screening[s] EXCEPT !.status = "REVISION_REQUESTED", !.overdue = FALSE]
<1>3. screening' = [screening EXCEPT ![s] = new]
  BY <1>2 DEF ReviseWrite
<1>4. screening[s] \in ScreeningRow /\ Status(s) \in Reviewable \cup {"REVISION_REQUESTED"}
      /\ screening[s].outcome # "APPROVED"
  BY <1>1, <1>2 DEF Typed, Fits, RowsSound, RowSound, Reviewable
<1>5. /\ new \in ScreeningRow /\ new.status = "REVISION_REQUESTED" /\ new.outcome = screening[s].outcome
      /\ new.revision = screening[s].revision
  BY <1>4 DEF ScreeningRow, ScreeningStatus
<1> HIDE DEF new
<1>6. PICK row \in CallRow :
        /\ row.does = "revise" /\ row.at = "stage" /\ row.s = s
        /\ call' \in [Sessions -> CallRow] /\ call'[x] = row
        /\ \A y \in Sessions \ {x} : call'[y] = call[y]
        /\ CallsApart' /\ Rested'
  <2>1. \E row \in CallRow :
          /\ row.does = call[x].does /\ row.at = "stage" /\ row.s = call[x].s /\ row.r = call[x].r
          /\ row.seen = call[x].seen
          /\ call' \in [Sessions -> CallRow] /\ call'[x] = row
          /\ \A y \in Sessions \ {x} : call'[y] = call[y]
          /\ CallsApart' /\ Rested'
    BY <1>1, CallGoes
  <2> QED
    BY <1>1, <1>2, <2>1
<1>7. screening'[s] = new /\ Status(s)' = "REVISION_REQUESTED" /\ \A t : Reviewed(t)' <=> Reviewed(t)
  <2>1. screening'[s] = new
    BY <1>3, <1>5, RowWritten
  <2> QED
    BY <1>1, <1>5, <2>1 DEF Status, Reviewed
<1>8. Fits(call[x])'
  BY <1>6 DEF Fits
<1>9. ASSUME NEW y \in Sessions \ {x}, call[y].s = s PROVE Fits(call[y])'
  <2>1. /\ call'[y] = call[y] /\ Fits(call[y])
        /\ call[y].does \notin {"grant", "reject", "expire", "assign", "auto-assign"}
    BY <1>1, <1>6, ConflictMeans DEF CallsFit
  <2> QED
    BY <1>1, <1>5, <1>7, <1>9, <2>1 DEF Fits, Accepting
<1>10. call[x].does \notin {"submit", "grant"} /\ new.status # "SUBMITTED" /\ (new.status = "EXPIRED" => new.overdue)
  BY <1>1, <1>5
<1> QED
  BY <1>1, <1>3, <1>4, <1>5, <1>6, <1>8, <1>9, <1>10, StatusWritten

-----------------------------------------------------------------------------
(***************************************************************************)
(* Reviews and disputes.                                                   *)
(***************************************************************************)
LEMMA LatestIsRevision ==
  ASSUME ScreeningInv, NEW s \in Screenings PROVE Latest(s) = screening[s].revision /\ Latest(s) \in Nat
<1>1. submitted[s] = 1 .. screening[s].revision /\ screening[s].revision \in Nat
  BY DEF ScreeningInv, RowsSound, RowSound, Typed, ScreeningRow
<1>2. PICK n \in Nat : n = screening[s].revision
  BY <1>1
<1>3. Cardinality(1 .. n) = n
  BY FS_Interval
<1> QED
  BY <1>1, <1>2, <1>3 DEF Latest

LEMMA ReviewWritten ==
  ASSUME ScreeningInv, NEW s \in Screenings, NEW r \in Reviewers, review' = Assigned(s, r)
  PROVE  /\ review' \in [Screenings -> [Reviewers -> ReviewRow]]
         /\ \A t \in Screenings \ {s} : review'[t] = review[t]
         /\ review'[s][r].state = "ASSIGNED"
         /\ \A q \in Reviewers \ {r} : review'[s][q] = review[s][q]
<1> DEFINE new == [state |-> "ASSIGNED", of |-> Latest(s), decision |-> "none"]
           mine == [review[s] EXCEPT ![r] = new]
<1>1. review' = [review EXCEPT ![s] = mine]
  BY DEF Assigned
<1>2. new \in ReviewRow /\ new.state = "ASSIGNED"
  BY LatestIsRevision DEF ReviewRow
<1> HIDE DEF new
<1>3. mine \in [Reviewers -> ReviewRow] /\ mine[r] = new /\ \A q \in Reviewers \ {r} : mine[q] = review[s][q]
  BY <1>2 DEF ScreeningInv, Typed
<1> HIDE DEF mine
<1>4. /\ review' \in [Screenings -> [Reviewers -> ReviewRow]] /\ review'[s] = mine
      /\ \A t \in Screenings \ {s} : review'[t] = review[t]
  BY <1>1, <1>3 DEF ScreeningInv, Typed
<1> QED
  BY <1>2, <1>3, <1>4

LEMMA AssignWriteStep == ASSUME ScreeningInv, NEW x \in Sessions, AssignWrite(x) PROVE ScreeningInv'
<1> USE DEF ScreeningInv
<1>1. /\ call[x].does = "assign" /\ call[x].at = "write" /\ Fits(call[x]) /\ Goes(x, "update")
      /\ UNCHANGED <<screening, submitted, dispute, qualified, onboarding, jobs, unassigned, broken, heard>>
  BY DEF AssignWrite, At, CallsFit, effects
<1>2. PICK s \in Screenings : s = call[x].s
  BY <1>1 DEF Fits
<1>3. PICK r \in Reviewers : r = call[x].r
  BY <1>1 DEF Fits
<1>4. /\ review' \in [Screenings -> [Reviewers -> ReviewRow]]
      /\ \A t \in Screenings \ {s} : review'[t] = review[t]
      /\ review'[s][r].state = "ASSIGNED"
  BY <1>2, <1>3, ReviewWritten DEF AssignWrite
<1>5. PICK row \in CallRow :
        /\ row.does = "assign" /\ row.at = "update" /\ row.s = s /\ row.r = r
        /\ call' \in [Sessions -> CallRow] /\ call'[x] = row
        /\ \A y \in Sessions \ {x} : call'[y] = call[y]
        /\ CallsApart' /\ Rested'
  <2>1. \E row \in CallRow :
          /\ row.does = call[x].does /\ row.at = "update" /\ row.s = call[x].s /\ row.r = call[x].r
          /\ row.seen = call[x].seen
          /\ call' \in [Sessions -> CallRow] /\ call'[x] = row
          /\ \A y \in Sessions \ {x} : call'[y] = call[y]
          /\ CallsApart' /\ Rested'
    BY <1>1, CallGoes
  <2> QED
    BY <1>1, <1>2, <1>3, <2>1
<1>6. Fits(call[x])'
  BY <1>1, <1>2, <1>5 DEF Fits, Status
<1>7. CallsFit'
  <2>1. ASSUME NEW y \in Sessions \ {x}, call[y].s = s PROVE Fits(call[y])'
    <3>1. call'[y] = call[y] /\ Fits(call[y]) /\ call[y].does \notin {"grant", "reject", "revise"}
      BY <1>1, <1>5, ConflictMeans DEF CallsFit
    <3> QED
      BY <1>1, <3>1 DEF Fits, Status
  <2>2. \A t \in Screenings \ {s} :
          screening'[t] = screening[t] /\ dispute'[t] = dispute[t] /\ review'[t] = review[t]
    BY <1>1, <1>4
  <2> QED
    BY <1>5, <1>6, <2>1, <2>2, OthersFit
<1>8. RowsSound'
  BY <1>1 DEF RowsSound, RowSound, Status
<1>9. ApprovalsFollowed' /\ SubmissionsFollowed'
  <2>1. ASSUME NEW t \in Screenings, \E q \in Reviewers : review[t][q].state = "ASSIGNED"
        PROVE  t \in heard' \/ \E q \in Reviewers : review'[t][q].state = "ASSIGNED"
    BY <1>4, <2>1
  <2>2. call[x].does \notin {"submit", "grant"}
    BY <1>1
  <2> QED
    BY <1>1, <1>5, <2>1, <2>2, StillFollowed
<1>10. Typed'
  BY <1>1, <1>4, <1>5 DEF Typed
<1> QED
  BY <1>5, <1>7, <1>8, <1>9, <1>10

\* The run of screening.assign_reviewer commits, fails, or is left to be repeated.
LEMMA AutoAssignCommitStep == ASSUME ScreeningInv, NEW x \in Sessions, AutoAssignCommit(x) PROVE ScreeningInv'
<1> USE DEF ScreeningInv
<1>1. /\ call[x].does = "auto-assign" /\ call[x].at = "write" /\ Fits(call[x])
      /\ UNCHANGED <<submitted, dispute, qualified, onboarding, heard>>
  BY DEF AutoAssignCommit, At, CallsFit
<1>2. PICK s \in Screenings : s = call[x].s
  BY <1>1 DEF Fits
<1>3. PICK r \in Reviewers : r = call[x].r
  BY <1>1 DEF Fits
<1> DEFINE job == <<"assign", s, call[x].seen>>
<1>4. \A t, kind : jobs' = jobs \ {job} /\ (t # s \/ kind = "apply") => (Queued(t, kind) => Queued(t, kind)')
  BY DEF Queued
<1>5. CASE review[s][r].state = "NONE" /\ MayBecome("IN_REVIEW")
  <2> DEFINE new == [screening[s] EXCEPT !.status = "IN_REVIEW"]
  <2>1. /\ review' = Assigned(s, r) /\ screening' = [screening EXCEPT ![s] = new]
        /\ unassigned' = unassigned \ {s} /\ jobs' = jobs \ {job} /\ Ends(x) /\ UNCHANGED broken
    BY <1>2, <1>3, <1>5 DEF AutoAssignCommit
  <2>2. screening[s] \in ScreeningRow /\ Status(s) \in Reviewable /\ screening[s].outcome # "APPROVED"
    BY <1>1, <1>2 DEF Typed, Fits, RowsSound, RowSound, Reviewable
  <2>3. /\ new \in ScreeningRow /\ new.status = "IN_REVIEW" /\ new.outcome = screening[s].outcome
        /\ new.revision = screening[s].revision /\ new.overdue = screening[s].overdue
    BY <2>2 DEF ScreeningRow, ScreeningStatus
  <2> HIDE DEF new, job
  <2>4. /\ screening' \in [Screenings -> ScreeningRow] /\ screening'[s] = new
        /\ \A t \in Screenings \ {s} : screening'[t] = screening[t]
    BY <2>1, <2>3, RowWritten
  <2>5. /\ review' \in [Screenings -> [Reviewers -> ReviewRow]]
        /\ \A t \in Screenings \ {s} : review'[t] = review[t]
        /\ review'[s][r].state = "ASSIGNED"
    BY <2>1, ReviewWritten
  <2>6. /\ call' \in [Sessions -> CallRow] /\ call'[x] = Idle
        /\ \A y \in Sessions \ {x} : call'[y] = call[y]
        /\ CallsApart' /\ Rested' /\ Fits(call[x])'
    BY <2>1, CallEnds
  <2>7. CallsFit'
    <3>1. ASSUME NEW y \in Sessions \ {x}, call[y].s = s PROVE Fits(call[y])'
      <4>1. call'[y] = call[y] /\ Fits(call[y]) /\ call[y].does \notin {"grant", "reject", "revise"}
        BY <1>1, <2>6, ConflictMeans DEF CallsFit
      <4>2. Status(s)' = "IN_REVIEW"
        BY <2>3, <2>4 DEF Status
      <4> QED
        BY <1>1, <2>2, <2>3, <2>4, <3>1, <4>1, <4>2 DEF Fits, Accepting, Reviewable
    <3>2. \A t \in Screenings \ {s} :
            screening'[t] = screening[t] /\ dispute'[t] = dispute[t] /\ review'[t] = review[t]
      BY <1>1, <2>4, <2>5
    <3> QED
      BY <2>6, <3>1, <3>2, OthersFit
  <2>8. RowsSound'
    <3>1. ASSUME NEW t \in Screenings PROVE RowSound(t)'
      BY <1>1, <2>2, <2>3, <2>4 DEF RowsSound, RowSound, Status
    <3> QED
      BY <3>1 DEF RowsSound
  <2>9. \A t, does, steps : does \in {"submit", "grant"} => (Doing(t, does, steps) => Doing(t, does, steps)')
    BY <1>1, <2>6, OthersGoOn
  <2>10. \A t, kind : t # s \/ kind = "apply" => (Queued(t, kind) => Queued(t, kind)')
    BY <1>4, <2>1
  <2>11. ApprovalsFollowed'
    <3>1. \A t \in Screenings : screening'[t].outcome = screening[t].outcome
      BY <2>3, <2>4
    <3> QED
      BY <1>1, <2>1, <2>9, <2>10, <3>1 DEF ApprovalsFollowed, Typed
  <2>12. SubmissionsFollowed'
    <3>1. ASSUME NEW t \in Screenings \ broken', Status(t)' = "SUBMITTED"
          PROVE  \/ t \in heard' \cup unassigned' \/ \E q \in Reviewers : review'[t][q].state = "ASSIGNED"
                 \/ Doing(t, "submit", {"stage", "enqueue"})' \/ Queued(t, "assign")'
      <4>1. t # s /\ Status(t) = "SUBMITTED" /\ t \notin broken
        BY <2>1, <2>3, <2>4, <3>1 DEF Status
      <4> QED
        BY <1>1, <2>1, <2>5, <2>9, <2>10, <4>1 DEF SubmissionsFollowed
    <3> QED
      BY <3>1 DEF SubmissionsFollowed
  <2>13. Typed'
    BY <1>1, <2>1, <2>4, <2>5, <2>6 DEF Typed
  <2> QED
    BY <2>6, <2>7, <2>8, <2>11, <2>12, <2>13
<1>6. CASE ~(review[s][r].state = "NONE" /\ MayBecome("IN_REVIEW"))
  <2>1. UNCHANGED <<screening, submitted, review, dispute, qualified, onboarding, unassigned, heard>>
    BY <1>1, <1>2, <1>3, <1>6 DEF AutoAssignCommit
  <2>2. CASE MayBecome("IN_REVIEW")
    <3>1. Ends(x) /\ UNCHANGED <<jobs, broken>>
      BY <1>2, <1>3, <1>6, <2>2 DEF AutoAssignCommit
    <3> QED
      BY <1>1, <2>1, <3>1, EndStep
  <2>3. CASE ~MayBecome("IN_REVIEW")
    <3>1. jobs' = jobs \ {job} /\ CutShort(x)
      BY <1>2, <1>3, <1>6, <2>3 DEF AutoAssignCommit
    <3>2. \A t : t # call[x].s => \A kind : Queued(t, kind) => Queued(t, kind)'
      BY <1>2, <1>4, <3>1
    <3>3. jobs' \subseteq jobs
      BY <3>1
    <3> QED
      BY <2>1, <3>1, <3>2, <3>3, CutStep
  <2> QED
    BY <2>2, <2>3
<1> QED
  BY <1>5, <1>6

\* detectReviewConflict: nobody is about to grant what is now disputed.
LEMMA DetectReviewConflictStep ==
  ASSUME ScreeningInv, NEW x \in Sessions, DetectReviewConflict(x) PROVE ScreeningInv'
<1> USE DEF ScreeningInv
<1>1. /\ call[x].does = "review" /\ call[x].at = "compare" /\ Fits(call[x]) /\ Ends(x)
      /\ UNCHANGED <<screening, submitted, review, qualified, onboarding, jobs, unassigned, broken, heard>>
  BY DEF DetectReviewConflict, At, CallsFit, effects
<1>2. PICK s \in Screenings : s = call[x].s
  BY <1>1 DEF Fits
<1> DEFINE new == [dispute[s] EXCEPT !.status = "OPEN"]
<1>3. dispute' = dispute \/ dispute' = [dispute EXCEPT ![s] = new]
  BY <1>2 DEF DetectReviewConflict
<1>4. new \in DisputeRow
  BY DEF Typed, DisputeRow
<1> HIDE DEF new
<1>5. /\ dispute' \in [Screenings -> DisputeRow] /\ \A t \in Screenings \ {s} : dispute'[t] = dispute[t]
  BY <1>3, <1>4 DEF Typed
<1>6. /\ call' \in [Sessions -> CallRow] /\ call'[x] = Idle
      /\ \A y \in Sessions \ {x} : call'[y] = call[y]
      /\ CallsApart' /\ Rested' /\ Fits(call[x])'
  BY <1>1, CallEnds
<1>7. CallsFit'
  <2>1. ASSUME NEW y \in Sessions \ {x}, call[y].s = s PROVE Fits(call[y])'
    <3>1. call'[y] = call[y] /\ Fits(call[y]) /\ call[y].does # "grant"
      BY <1>1, <1>6, ConflictMeans DEF CallsFit
    <3> QED
      BY <1>1, <3>1 DEF Fits, Status, Reviewed
  <2> QED
    BY <1>1, <1>5, <1>6, <2>1, OthersFit
<1>8. RowsSound'
  BY <1>1 DEF RowsSound, RowSound, Status
<1>9. ApprovalsFollowed' /\ SubmissionsFollowed'
  <2>1. call[x].does \notin {"submit", "grant"}
    BY <1>1
  <2> QED
    BY <1>1, <1>6, <2>1, StillFollowed
<1>10. Typed'
  BY <1>1, <1>5, <1>6 DEF Typed
<1> QED
  BY <1>6, <1>7, <1>8, <1>9, <1>10

\* The steps of no session: a dispute is resolved, a letter is sent, the expert's
\* onboarding begins.
LEMMA OutsideStep ==
  ASSUME ScreeningInv,
         \/ \E s \in Screenings : ResolveConflict(s)
         \/ \E j \in jobs : InviteJob(j) \/ ApplyJob(j)
  PROVE  ScreeningInv'
<1> USE DEF ScreeningInv
<1>1. UNCHANGED <<screening, submitted, review, qualified, call, broken, heard, unassigned>>
  BY DEF ResolveConflict, InviteJob, ApplyJob, rows, effects
<1>2. CallsApart' /\ Rested' /\ RowsSound'
  BY <1>1 DEF CallsApart, Rested, RowsSound, RowSound, Status
<1>3. \A t, does, steps : Doing(t, does, steps)' <=> Doing(t, does, steps)
  BY <1>1 DEF Doing
<1>4. ASSUME NEW s \in Screenings, ResolveConflict(s) PROVE ScreeningInv'
  <2> DEFINE new == [status |-> "RESOLVED", of |-> Latest(s)]
  <2>1. dispute' = [dispute EXCEPT ![s] = new] /\ UNCHANGED <<onboarding, jobs>>
    BY <1>4 DEF ResolveConflict, effects
  <2>2. new \in DisputeRow /\ new.status = "RESOLVED"
    BY LatestIsRevision DEF DisputeRow
  <2> HIDE DEF new
  <2>3. /\ dispute' \in [Screenings -> DisputeRow]
        /\ \A t \in Screenings : dispute'[t].status = "OPEN" => dispute[t].status = "OPEN"
    BY <2>1, <2>2 DEF Typed
  <2>4. CallsFit'
    <3>1. ASSUME NEW y \in Sessions PROVE Fits(call[y])'
      BY <1>1, <2>3 DEF CallsFit, Fits, Status, Reviewed
    <3> QED
      BY <3>1 DEF CallsFit
  <2>5. \A t, kind : Queued(t, kind)' <=> Queued(t, kind)
    BY <2>1 DEF Queued
  <2>6. ApprovalsFollowed'
    BY <1>1, <1>3, <2>1, <2>5 DEF ApprovalsFollowed
  <2>7. SubmissionsFollowed'
    BY <1>1, <1>3, <2>1, <2>5 DEF SubmissionsFollowed, Status
  <2>8. Typed'
    BY <1>1, <2>1, <2>3 DEF Typed
  <2> QED
    BY <1>2, <2>4, <2>6, <2>7, <2>8
<1>5. ASSUME NEW j \in jobs, InviteJob(j) \/ ApplyJob(j) PROVE ScreeningInv'
  <2>1. /\ jobs' = jobs \ {j} /\ UNCHANGED dispute /\ j[1] # "assign"
        /\ j[1] = "apply" => onboarding'
        /\ onboarding => onboarding'
    BY <1>5 DEF InviteJob, ApplyJob, rows
  <2>2. CallsFit'
    <3>1. ASSUME NEW y \in Sessions PROVE Fits(call[y])'
      BY <1>1, <2>1 DEF CallsFit, Fits, Status, Reviewed
    <3> QED
      BY <3>1 DEF CallsFit
  <2>3. \A t : Queued(t, "assign") => Queued(t, "assign")'
    BY <2>1 DEF Queued
  <2>4. \A t : Queued(t, "apply") => Queued(t, "apply")' \/ onboarding'
    BY <2>1 DEF Queued
  <2>5. ApprovalsFollowed'
    BY <1>1, <1>3, <2>1, <2>4 DEF ApprovalsFollowed
  <2>6. SubmissionsFollowed'
    BY <1>1, <1>3, <2>3 DEF SubmissionsFollowed, Status
  <2>7. Typed'
    BY <1>1, <2>1 DEF Typed
  <2> QED
    BY <1>2, <2>2, <2>5, <2>6, <2>7
<1> QED
  BY <1>4, <1>5

-----------------------------------------------------------------------------
(***************************************************************************)
(* The decision.                                                           *)
(***************************************************************************)

\* Of two decisions the first claims the screening; what it read still holds.
LEMMA DecideClaimStep == ASSUME ScreeningInv, NEW x \in Sessions, DecideClaim(x) PROVE ScreeningInv'
<1> USE DEF ScreeningInv
<1>1. /\ call[x].does \in {"grant", "reject"} /\ call[x].at = "claim" /\ Fits(call[x])
      /\ UNCHANGED <<submitted, review, dispute, qualified, onboarding, jobs, unassigned, broken, heard>>
  BY DEF DecideClaim, CallsFit, effects
<1>2. PICK s \in Screenings : s = call[x].s
  BY <1>1 DEF Fits
<1>3. CASE ~Undecided(s)
  <2>1. Ends(x) /\ UNCHANGED screening
    BY <1>2, <1>3 DEF DecideClaim
  <2> QED
    BY <1>1, <2>1, EndStep
<1>4. CASE Undecided(s)
  <2> DEFINE granted == call[x].does = "grant"
             new == [screening[s] EXCEPT !.status = "DECIDED", !.outcome = IF granted THEN "APPROVED" ELSE "REJECTED"]
  <2>1. /\ screening' = [screening EXCEPT ![s] = new]
        /\ IF granted THEN Goes(x, "qualify") ELSE Goes(x, "stage")
    BY <1>2, <1>4 DEF DecideClaim
  <2>2. screening[s] \in ScreeningRow /\ Status(s) \in Reviewable /\ screening[s].outcome # "APPROVED"
    BY <1>4 DEF Typed, Undecided, RowsSound, RowSound, Reviewable
  <2>3. /\ new \in ScreeningRow /\ new.status = "DECIDED" /\ new.revision = screening[s].revision
        /\ new.outcome = (IF granted THEN "APPROVED" ELSE "REJECTED") /\ new.overdue = screening[s].overdue
    BY <2>2 DEF ScreeningRow, ScreeningStatus
  <2> HIDE DEF new
  <2>4. /\ screening' \in [Screenings -> ScreeningRow] /\ screening'[s] = new
        /\ \A t \in Screenings \ {s} : screening'[t] = screening[t]
    BY <2>1, <2>3, RowWritten
  <2>5. PICK row \in CallRow :
          /\ row.does = call[x].does /\ row.at = (IF granted THEN "qualify" ELSE "stage") /\ row.s = s
          /\ call' \in [Sessions -> CallRow] /\ call'[x] = row
          /\ \A y \in Sessions \ {x} : call'[y] = call[y]
          /\ CallsApart' /\ Rested'
    <3>1. PICK at \in {"qualify", "stage"} : at = (IF granted THEN "qualify" ELSE "stage") /\ Goes(x, at)
      BY <2>1
    <3>2. \E row \in CallRow :
            /\ row.does = call[x].does /\ row.at = at /\ row.s = call[x].s /\ row.r = call[x].r
            /\ row.seen = call[x].seen
            /\ call' \in [Sessions -> CallRow] /\ call'[x] = row
            /\ \A y \in Sessions \ {x} : call'[y] = call[y]
            /\ CallsApart' /\ Rested'
      BY <1>1, <3>1, CallGoes
    <3> QED
      BY <1>2, <3>1, <3>2
  <2>6. Fits(call[x])'
    BY <1>1, <2>3, <2>4, <2>5 DEF Fits
  <2>7. CallsFit'
    <3>1. ASSUME NEW y \in Sessions \ {x}, call[y].s = s PROVE Fits(call[y])'
      <4>1. /\ call'[y] = call[y] /\ Fits(call[y])
            /\ call[y].does \notin {"assign", "auto-assign", "revise"}
        BY <1>1, <2>5, ConflictMeans DEF CallsFit
      <4>2. Status(s)' = "DECIDED" /\ \A t : Reviewed(t)' <=> Reviewed(t)
        BY <1>1, <2>3, <2>4 DEF Status, Reviewed
      <4> QED
        BY <1>1, <2>2, <2>3, <2>4, <3>1, <4>1, <4>2 DEF Fits, Accepting, Reviewable
    <3>2. \A t \in Screenings \ {s} :
            screening'[t] = screening[t] /\ dispute'[t] = dispute[t] /\ review'[t] = review[t]
      BY <1>1, <2>4
    <3> QED
      BY <2>5, <2>6, <3>1, <3>2, OthersFit
  <2>8. RowsSound'
    <3>1. ASSUME NEW t \in Screenings PROVE RowSound(t)'
      BY <1>1, <2>3, <2>4 DEF RowsSound, RowSound, Status
    <3> QED
      BY <3>1 DEF RowsSound
  <2>9. \A t, does, steps : "claim" \notin steps => (Doing(t, does, steps) => Doing(t, does, steps)')
    BY <1>1, <2>5, OthersGoOn
  <2>10. \A t, kind : Queued(t, kind)' <=> Queued(t, kind)
    BY <1>1 DEF Queued
  <2>11. ApprovalsFollowed'
    <3>1. ASSUME NEW t \in Screenings, screening'[t].outcome = "APPROVED"
          PROVE  t \in qualified \cup broken \/ Doing(t, "grant", {"qualify"})'
      <4>1. CASE t = s
        <5>1. granted
          BY <2>3, <2>4, <3>1, <4>1
        <5> QED
          BY <2>5, <4>1, <5>1 DEF Doing
      <4>2. CASE t # s
        BY <2>4, <2>9, <3>1, <4>2 DEF ApprovalsFollowed
      <4> QED
        BY <4>1, <4>2
    <3>2. s \notin qualified
      BY <2>2 DEF ApprovalsFollowed
    <3>3. \A t \in qualified : screening'[t].outcome = "APPROVED"
      BY <2>4, <3>2 DEF ApprovalsFollowed, Typed
    <3> QED
      BY <1>1, <2>9, <2>10, <3>1, <3>3 DEF ApprovalsFollowed
  <2>12. SubmissionsFollowed'
    BY <1>1, <2>3, <2>4, <2>9, <2>10 DEF SubmissionsFollowed, Status
  <2>13. Typed'
    BY <1>1, <2>4, <2>5 DEF Typed
  <2> QED
    BY <2>5, <2>7, <2>8, <2>11, <2>12, <2>13
<1> QED
  BY <1>3, <1>4

LEMMA QualifyStep == ASSUME ScreeningInv, NEW x \in Sessions, Qualify(x) PROVE ScreeningInv'
<1> USE DEF ScreeningInv
<1>1. /\ call[x].does = "grant" /\ call[x].at = "qualify" /\ Fits(call[x])
      /\ UNCHANGED <<screening, submitted, review, dispute, onboarding, jobs, unassigned, heard>>
  BY DEF Qualify, At, CallsFit, effects
<1>2. PICK s \in Screenings : s = call[x].s
  BY <1>1 DEF Fits
<1>3. CASE CutShort(x) /\ UNCHANGED qualified
  <2>1. \A t : t # call[x].s => \A kind : Queued(t, kind) => Queued(t, kind)'
    BY <1>1 DEF Queued
  <2> QED
    BY <1>1, <1>3, <2>1, CutStep
<1>4. CASE qualified' = qualified \cup {s} /\ Goes(x, "stage") /\ UNCHANGED broken
  <2>1. PICK row \in CallRow :
          /\ row.does = "grant" /\ row.at = "stage" /\ row.s = s
          /\ call' \in [Sessions -> CallRow] /\ call'[x] = row
          /\ \A y \in Sessions \ {x} : call'[y] = call[y]
          /\ CallsApart' /\ Rested'
    <3>1. \E row \in CallRow :
            /\ row.does = call[x].does /\ row.at = "stage" /\ row.s = call[x].s /\ row.r = call[x].r
            /\ row.seen = call[x].seen
            /\ call' \in [Sessions -> CallRow] /\ call'[x] = row
            /\ \A y \in Sessions \ {x} : call'[y] = call[y]
            /\ CallsApart' /\ Rested'
      BY <1>1, <1>4, CallGoes
    <3> QED
      BY <1>1, <1>2, <3>1
  <2>2. Fits(call[x])'
    BY <2>1 DEF Fits
  <2>3. CallsFit'
    BY <1>1, <2>1, <2>2, AllFit
  <2>4. RowsSound'
    BY <1>1 DEF RowsSound, RowSound, Status
  <2>5. \A t, does, steps : t # s \/ "qualify" \notin steps => (Doing(t, does, steps) => Doing(t, does, steps)')
    BY <1>1, <1>2, <2>1, OthersGoOn
  <2>6. \A t, kind : Queued(t, kind)' <=> Queued(t, kind)
    BY <1>1 DEF Queued
  <2>7. Doing(s, "grant", {"stage", "enqueue"})'
    BY <2>1 DEF Doing
  <2>8. screening[s].outcome = "APPROVED"
    BY <1>1, <1>2 DEF Fits
  <2>9. ApprovalsFollowed'
    BY <1>1, <1>4, <2>5, <2>6, <2>7, <2>8 DEF ApprovalsFollowed
  <2>10. SubmissionsFollowed'
    BY <1>1, <1>4, <2>5, <2>6 DEF SubmissionsFollowed, Status
  <2>11. Typed'
    BY <1>1, <1>4, <2>1 DEF Typed
  <2> QED
    BY <2>1, <2>3, <2>4, <2>9, <2>10, <2>11
<1> QED
  BY <1>2, <1>3, <1>4 DEF Qualify

-----------------------------------------------------------------------------
LEMMA ScreeningStep ==
  ASSUME ScreeningAssumption, Overlapping \cap Conflicting = {}, ScreeningInv, [Next]_vars
  PROVE  ScreeningInv'
<1>1. ASSUME NEW x \in Sessions, Read(x) PROVE ScreeningInv'
  BY <1>1, BeginStep, ReviewClaimStep DEF Read
<1>2. ASSUME NEW x \in Sessions, Write(x) PROVE ScreeningInv'
  BY <1>2, StartCreateStep, SubmitWriteStep, ExpireClaimStep, AssignWriteStep, AssignUpdateStep,
     AutoAssignCommitStep, DetectReviewConflictStep, ReviseWriteStep, DecideClaimStep, QualifyStep,
     SetCandidateStageStep, EnqueueStep DEF Write
<1>3. ASSUME NEW x \in Sessions, Crash(x) PROVE ScreeningInv'
  BY <1>3, CrashStep
<1>4. ASSUME NEW x \in Sessions, NEW j \in jobs, AutoAssignRead(x, j) PROVE ScreeningInv'
  BY <1>4, AutoAssignReadStep
<1>5. CASE \E j \in jobs : InviteJob(j) \/ ApplyJob(j)
  BY <1>5, OutsideStep
<1>6. CASE \E s \in Screenings : Overdue(s) \/ ResolveConflict(s)
  BY <1>6, OverdueStep, OutsideStep
<1>7. CASE UNCHANGED vars
  <2>1. UNCHANGED <<screening, submitted, review, dispute, qualified, onboarding, jobs, unassigned, call,
                    broken, heard>>
    BY <1>7 DEF vars, rows, effects
  <2> QED
    BY <2>1 DEF ScreeningInv, Typed, CallsApart, Rested, CallsFit, Fits, Status, Reviewed, RowsSound, RowSound,
                ApprovalsFollowed, SubmissionsFollowed, Doing, Queued
<1> QED
  BY <1>1, <1>2, <1>3, <1>4, <1>5, <1>6, <1>7 DEF Next

LEMMA ScreeningKept == ASSUME ScreeningInv PROVE ScreeningSound
<1> USE DEF ScreeningInv
<1>1. RevisionsDense
  BY DEF RevisionsDense, RowsSound, RowSound
<1>2. QualifiedIsApproved
  BY DEF QualifiedIsApproved, ApprovalsFollowed, RowsSound, RowSound, Doing, Typed
<1>3. NothingStalls
  BY DEF NothingStalls, Moving, ApprovalsFollowed, SubmissionsFollowed, Doing, Queued
<1> QED
  BY <1>1, <1>2, <1>3 DEF ScreeningSound

\* What one step may make of a screening.
Settles(s) ==
  /\ Status(s) \in {"DECIDED", "EXPIRED"} => screening'[s] = screening[s]
  /\ Status(s)' = "DECIDED" /\ Status(s) # "DECIDED" => Reviewed(s)
  /\ screening'[s].outcome = "APPROVED" /\ Status(s) # "DECIDED" => dispute[s].status # "OPEN"
  /\ Status(s)' = "EXPIRED" => screening[s].overdue

LEMMA DecisionsKept ==
  ASSUME ScreeningInv, [Next]_vars PROVE \A s \in Screenings : Settles(s)
<1> USE DEF ScreeningInv
<1> SUFFICES ASSUME NEW s \in Screenings PROVE Settles(s)
  OBVIOUS
<1>1. screening[s] \in ScreeningRow /\ RowSound(s)
  BY DEF Typed, RowsSound
<1>2. CASE screening'[s] = screening[s]
  BY <1>1, <1>2 DEF Settles, RowSound, Status
<1>3. ASSUME NEW x \in Sessions, StartCreate(x) PROVE Settles(s)
  <2>1. PICK t \in Screenings : Status(t) = "NONE" /\ screening' = [screening EXCEPT ![t].status = "INVITED"]
    BY <1>3 DEF StartCreate
  <2>2. CASE t = s
    <3>1. Status(s) = "NONE" /\ screening'[s].status = "INVITED" /\ screening'[s].outcome = screening[s].outcome
      BY <1>1, <2>1, <2>2 DEF Typed, ScreeningRow
    <3> QED
      BY <1>1, <3>1 DEF Settles, RowSound, Status
  <2>3. CASE t # s
    BY <1>2, <2>1, <2>3 DEF Typed
  <2> QED
    BY <2>2, <2>3
<1>4. ASSUME NEW x \in Sessions, SubmitWrite(x) \/ ExpireClaim(x) \/ AssignUpdate(x) \/ ReviseWrite(x)
                                 \/ DecideClaim(x) \/ AutoAssignCommit(x)
      PROVE  Settles(s)
  <2>1. Fits(call[x]) /\ call[x] \in CallRow
    BY DEF CallsFit, Typed
  <2>2. CASE call[x].s # s
    <3>1. screening'[s] = screening[s]
      BY <1>4, <2>2 DEF Typed, SubmitWrite, ExpireClaim, AssignUpdate, ReviseWrite, DecideClaim, AutoAssignCommit
    <3> QED
      BY <1>2, <3>1
  <2>3. CASE call[x].s = s /\ SubmitWrite(x)
    <3>1. CASE screening'[s] # screening[s]
      <4>1. /\ call[x].seen + 1 \notin submitted[s]
            /\ screening' = [screening EXCEPT ![s].status = "SUBMITTED", ![s].revision = call[x].seen + 1]
        BY <2>3, <3>1 DEF SubmitWrite
      <4>2. call[x].seen = screening[s].revision /\ Status(s) \in Accepting
        BY <1>1, <2>1, <2>3, <4>1 DEF RowSound, Fits, CallRow, ScreeningRow, SubmitWrite, At
      <4>3. screening'[s].status = "SUBMITTED" /\ screening'[s].outcome = screening[s].outcome
        BY <1>1, <4>1 DEF Typed, ScreeningRow
      <4> QED
        BY <1>1, <4>2, <4>3 DEF Settles, RowSound, Status, Accepting
    <3> QED
      BY <1>2, <3>1
  <2>4. CASE call[x].s = s /\ ExpireClaim(x)
    <3>1. CASE Status(s) \in Accepting
      <4>1. screening'[s].status = "EXPIRED" /\ screening'[s].outcome = screening[s].outcome
            /\ screening[s].overdue
        BY <1>1, <2>1, <2>4, <3>1 DEF Typed, ScreeningRow, ExpireClaim, Fits, At
      <4> QED
        BY <1>1, <3>1, <4>1 DEF Settles, RowSound, Status, Accepting
    <3>2. CASE Status(s) \notin Accepting
      BY <1>2, <2>4, <3>2 DEF ExpireClaim
    <3> QED
      BY <3>1, <3>2
  <2>5. CASE call[x].s = s /\ AssignUpdate(x)
    <3>1. screening'[s].status = "IN_REVIEW" /\ screening'[s].outcome = screening[s].outcome
          /\ Status(s) \in Reviewable
      BY <1>1, <2>1, <2>5 DEF Typed, ScreeningRow, AssignUpdate, Fits, At
    <3> QED
      BY <1>1, <3>1 DEF Settles, RowSound, Status, Reviewable
  <2>6. CASE call[x].s = s /\ ReviseWrite(x)
    <3>1. screening'[s].status = "REVISION_REQUESTED" /\ screening'[s].outcome = screening[s].outcome
          /\ Status(s) \in Reviewable \cup {"REVISION_REQUESTED"}
      BY <1>1, <2>1, <2>6 DEF Typed, ScreeningRow, ReviseWrite, Fits, At
    <3> QED
      BY <1>1, <3>1 DEF Settles, RowSound, Status, Reviewable
  <2>7. CASE call[x].s = s /\ DecideClaim(x)
    <3>1. CASE Undecided(s)
      <4>1. /\ screening'[s].status = "DECIDED" /\ Reviewed(s)
            /\ screening'[s].outcome = "APPROVED" => dispute[s].status # "OPEN"
        BY <1>1, <2>1, <2>7, <3>1 DEF Typed, ScreeningRow, DecideClaim, Fits
      <4> QED
        BY <3>1, <4>1 DEF Settles, Status, Undecided, Reviewable
    <3>2. CASE ~Undecided(s)
      BY <1>2, <2>7, <3>2 DEF DecideClaim
    <3> QED
      BY <3>1, <3>2
  <2>8. CASE call[x].s = s /\ AutoAssignCommit(x)
    <3>1. CASE screening'[s] # screening[s]
      <4>1. screening'[s].status = "IN_REVIEW" /\ screening'[s].outcome = screening[s].outcome
            /\ Status(s) \in Reviewable
        BY <1>1, <2>1, <2>8, <3>1 DEF Typed, ScreeningRow, AutoAssignCommit, Fits, At
      <4> QED
        BY <1>1, <4>1 DEF Settles, RowSound, Status, Reviewable
    <3> QED
      BY <1>2, <3>1
  <2> QED
    BY <1>4, <2>2, <2>3, <2>4, <2>5, <2>6, <2>7, <2>8
<1>5. ASSUME NEW t \in Screenings, Overdue(t) PROVE Settles(s)
  <2>1. CASE t = s
    <3>1. screening'[s].status = screening[s].status /\ screening'[s].outcome = screening[s].outcome
          /\ Status(s) \in Accepting
      BY <1>1, <1>5, <2>1 DEF Typed, ScreeningRow, Overdue
    <3> QED
      BY <1>1, <3>1 DEF Settles, RowSound, Status, Accepting
  <2>2. CASE t # s
    BY <1>2, <1>5, <2>2 DEF Overdue, Typed
  <2> QED
    BY <2>1, <2>2
<1>6. ASSUME NEW x \in Sessions,
             \/ Read(x) \/ Crash(x) \/ \E j \in jobs : AutoAssignRead(x, j)
             \/ AssignWrite(x) \/ DetectReviewConflict(x) \/ Qualify(x) \/ SetCandidateStage(x) \/ Enqueue(x)
      PROVE  Settles(s)
  <2>1. UNCHANGED screening
    BY <1>6 DEF Read, StartRead, SubmitRead, ExpireRead, ReviseRead, GrantRead, RejectRead, AssignRead, ReviewClaim,
                Crash, AutoAssignRead, AssignWrite, DetectReviewConflict, Qualify, SetCandidateStage, Enqueue, rows
  <2> QED
    BY <1>2, <2>1
<1>7. CASE \/ \E j \in jobs : InviteJob(j) \/ ApplyJob(j)
           \/ \E t \in Screenings : ResolveConflict(t)
           \/ UNCHANGED vars
  <2>1. UNCHANGED screening
    BY <1>7 DEF InviteJob, ApplyJob, ResolveConflict, vars, rows
  <2> QED
    BY <1>2, <2>1
<1> QED
  BY <1>3, <1>4, <1>5, <1>6, <1>7 DEF Next, Write

\* submitScreening, grantQualification, screening.assign_reviewer: no revision is
\* missing or twice, a qualification rests on an approval and an approval leads
\* to one, and what was handed in or granted is seen to, however the calls
\* overlap that do not conflict and wherever one dies.
THEOREM ScreeningKeeps ==
  ASSUME ScreeningAssumption, Overlapping \cap Conflicting = {}
  PROVE  Spec => []ScreeningSound
<1>1. Init => ScreeningInv
  BY ScreeningInit
<1>2. ScreeningInv /\ [Next]_vars => ScreeningInv'
  BY ScreeningStep
<1>3. ScreeningInv => ScreeningSound
  BY ScreeningKept
<1> QED
  BY <1>1, <1>2, <1>3, PTL DEF Spec

\* grantQualification, rejectScreening, expireOverdueScreenings: what was decided
\* or has expired stays so, and was decided on reviewed work without an open
\* dispute.
THEOREM DecisionsStay ==
  ASSUME ScreeningAssumption, Overlapping \cap Conflicting = {}
  PROVE  Spec => DecisionsFinal
<1>1. Init => ScreeningInv
  BY ScreeningInit
<1>2. ScreeningInv /\ [Next]_vars => ScreeningInv'
  BY ScreeningStep
<1>3. ScreeningInv /\ [Next]_vars =>
        [\A s \in Screenings :
           /\ Status(s) \in {"DECIDED", "EXPIRED"} => screening'[s] = screening[s]
           /\ Status(s)' = "DECIDED" /\ Status(s) # "DECIDED" => Reviewed(s)
           /\ screening'[s].outcome = "APPROVED" /\ Status(s) # "DECIDED" => dispute[s].status # "OPEN"
           /\ Status(s)' = "EXPIRED" => screening[s].overdue]_vars
  BY DecisionsKept DEF Settles
<1> QED
  BY <1>1, <1>2, <1>3, PTL DEF Spec, DecisionsFinal
=============================================================================
