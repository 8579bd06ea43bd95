--------------------------- MODULE PlatformProofs ---------------------------
(***************************************************************************)
(* What the components of MCPlatform promise, for any number of experts,   *)
(* seats, workers, schedules and messages and for every kind of record on  *)
(* the screens.  The components share no state, so each has an inductive   *)
(* invariant of its own, and the pure parts (the ranking, the amounts)     *)
(* have lemmas instead; the last section puts them together.               *)
(***************************************************************************)
EXTENDS MCPlatform, FiniteSetTheorems, NaturalsInduction, WellFoundedInduction, TLAPS

-----------------------------------------------------------------------------
(***************************************************************************)
(* Replacements.  A search under way has used up a withdrawal and, once it *)
(* has seen that no batch waits, the room for one; and what it remembers   *)
(* of who left is still so unless they were asked again.                   *)
(***************************************************************************)

Searching == {w \in Workers : Busy(w)}
Drafting == {w \in Workers : worker[w].at \in {"recommend", "write"}}

\* A search is started by a withdrawal, and runs again only if it died.
Searched == jobs + Cardinality(Searching) <= withdrawals

\* Whoever builds a batch found none that waits.
Owed == Cardinality(OpenBatches) + Cardinality(Drafting) <= Cardinality(Workers)

\* Whoever holds a seat has accepted, and whoever left has withdrawn.
Seated == \A e \in Experts : seat[e] \in Holding => invitation[e] = "ACCEPTED"
Gone == \A e \in left : invitation[e] = "WITHDRAWN"

\* What a search remembers of who left is no more than who is gone, and nobody
\* of them is on its list.
Remembers ==
  \A w \in Workers :
    /\ worker[w].gone \subseteq left
    /\ worker[w].at = "write" => worker[w].list \cap worker[w].gone = {}

ReplacementsInv ==
  TypeOK /\ Searched /\ Owed /\ Seated /\ Gone /\ Remembers /\ NotTheirOwn /\ EmptySeatsOpen

LEMMA ReplacementsInit == ASSUME ReplacementsAssumption, Init PROVE ReplacementsInv
<1>1. TypeOK
  <2>1. MaxWithdrawals \in Nat /\ MaxCrashes \in Nat
    BY DEF ReplacementsAssumption
  <2>2. Idle \in [at : {"idle", "existing", "recommend", "write"},
                 list : SUBSET Experts, gone : SUBSET Experts]
    BY DEF Idle
  <2>3. [status |-> "NONE", list |-> {}] \in [status : BatchStatus, list : SUBSET Experts]
    BY DEF BatchStatus
  <2>4. worker \in [Workers -> [at : {"idle", "existing", "recommend", "write"},
                               list : SUBSET Experts, gone : SUBSET Experts]]
    BY <2>2 DEF Init
  <2>5. batch \in [Batches -> [status : BatchStatus, list : SUBSET Experts]]
    BY <2>3 DEF Init
  <2>6. jobs \in 0 .. MaxWithdrawals /\ withdrawals \in 0 .. MaxWithdrawals /\ crashes \in 0 .. MaxCrashes
    BY <2>1 DEF Init
  <2> QED
    BY <2>4, <2>5, <2>6 DEF Init, TypeOK
<1>2. Searching = {} /\ Drafting = {} /\ OpenBatches = {}
  BY DEF Init, Searching, Drafting, OpenBatches, Busy, Idle
<1>3. Cardinality({}) = 0 /\ Cardinality(Workers) \in Nat
  BY FS_EmptySet, FS_CardinalityType DEF ReplacementsAssumption
<1>4. Searched /\ Owed
  BY <1>2, <1>3 DEF Init, Searched, Owed
<1> QED
  BY <1>1, <1>4
     DEF Init, ReplacementsInv, Seated, Gone, Remembers, NotTheirOwn, EmptySeatsOpen, Holding, Idle

\* The sets that are counted are finite.
LEMMA Finite ==
  ASSUME ReplacementsAssumption
  PROVE  /\ \A X \in SUBSET Experts : IsFiniteSet(X) /\ Cardinality(X) \in Nat
         /\ \A X \in SUBSET Workers :
              IsFiniteSet(X) /\ Cardinality(X) \in Nat /\ Cardinality(X) <= Cardinality(Workers)
         /\ \A X \in SUBSET Batches : IsFiniteSet(X) /\ Cardinality(X) \in Nat
<1>1. IsFiniteSet(Batches)
  BY FS_Interval DEF Batches, ReplacementsAssumption
<1>2. IsFiniteSet(Experts) /\ IsFiniteSet(Workers)
  BY DEF ReplacementsAssumption
<1>3. ASSUME NEW T, IsFiniteSet(T), NEW X \in SUBSET T
      PROVE  IsFiniteSet(X) /\ Cardinality(X) \in Nat /\ Cardinality(X) <= Cardinality(T)
  BY <1>3, FS_Subset, FS_CardinalityType
<1> QED
  BY <1>1, <1>2, <1>3

LEMMA OneMore ==
  ASSUME NEW X, NEW x, IsFiniteSet(X)
  PROVE  /\ Cardinality(X) \in Nat
         /\ x \in X => Cardinality(X \ {x}) = Cardinality(X) - 1 /\ X \cup {x} = X
         /\ x \notin X => Cardinality(X \cup {x}) = Cardinality(X) + 1 /\ X \ {x} = X
         /\ Cardinality(X \cup {x}) \in Nat /\ Cardinality(X \cup {x}) <= Cardinality(X) + 1
<1>1. Cardinality(X) \in Nat /\ Cardinality(X \cup {x}) \in Nat
  BY FS_CardinalityType, FS_AddElement
<1>2. CASE x \in X
  <2>1. X \cup {x} = X
    BY <1>2
  <2> QED
    BY <1>1, <1>2, <2>1, FS_RemoveElement
<1>3. CASE x \notin X
  <2>1. X \ {x} = X
    BY <1>3
  <2> QED
    BY <1>1, <1>3, <2>1, FS_AddElement
<1> QED
  BY <1>2, <1>3

\* An element leaves a set, or a number goes down by one, as the other goes up.
LEMMA CountKept ==
  ASSUME NEW X, NEW Y, NEW x, IsFiniteSet(X), NEW j \in Nat, NEW k \in Nat, NEW n \in Nat,
         j + Cardinality(X) <= n,
         \/ x \in X /\ Y = X \ {x} /\ k <= j + 1
         \/ x \in X /\ Y \in {X, X \ {x}, X \cup {x}} /\ k <= j
         \/ Y \in {X \ {x}, X \cup {x}} /\ k + 1 <= j
  PROVE  k + Cardinality(Y) <= n
<1>1. /\ Cardinality(X) \in Nat
      /\ x \in X => Cardinality(X \ {x}) = Cardinality(X) - 1 /\ X \cup {x} = X
      /\ x \notin X => Cardinality(X \cup {x}) = Cardinality(X) + 1 /\ X \ {x} = X
  BY OneMore
<1>2. PICK c \in Nat : c = Cardinality(X)
  BY <1>1
<1>3. PICK d \in Int :
        /\ d = Cardinality(Y) /\ d \in {c - 1, c, c + 1}
        /\ x \in X /\ Y = X \ {x} => d = c - 1
        /\ x \in X => d # c + 1
  <2>1. CASE x \in X
    <3>1. Y = X \/ Y = X \ {x}
      BY <1>1, <2>1
    <3>2. CASE Y = X \ {x}
      <4>1. Cardinality(Y) = c - 1
        BY <1>1, <1>2, <2>1, <3>2
      <4> QED
        BY <4>1
    <3>3. CASE Y = X
      <4>1. Cardinality(Y) = c /\ ~(Y = X \ {x})
        BY <1>2, <2>1, <3>3
      <4> QED
        BY <4>1
    <3> QED
      BY <3>1, <3>2, <3>3
  <2>2. CASE x \notin X
    <3>1. Cardinality(Y) = c \/ Cardinality(Y) = c + 1
      BY <1>1, <1>2, <2>2
    <3> QED
      BY <2>2, <3>1
  <2> QED
    BY <2>1, <2>2
<1>4. j + c <= n
  BY <1>2
<1>5. CASE x \in X /\ Y = X \ {x} /\ k <= j + 1
  BY <1>3, <1>4, <1>5
<1>6. CASE x \in X /\ Y \in {X, X \ {x}, X \cup {x}} /\ k <= j
  BY <1>3, <1>4, <1>6
<1>7. CASE Y \in {X \ {x}, X \cup {x}} /\ k + 1 <= j
  BY <1>3, <1>4, <1>7
<1> QED
  BY <1>5, <1>6, <1>7

\* Steps that leave the searches and the batches alone.
LEMMA SearchRests ==
  ASSUME ReplacementsInv, UNCHANGED <<search, withdrawals, crashes, astray>>
  PROVE  Searched' /\ Owed' /\ NotTheirOwn'
<1>1. Searching' = Searching /\ Drafting' = Drafting /\ OpenBatches' = OpenBatches
  BY DEF search, Searching, Drafting, OpenBatches, Busy
<1> QED
  BY <1>1 DEF ReplacementsInv, search, Searched, Owed, NotTheirOwn

\* Steps of a search: the world and what is remembered of it rest.
LEMMA WorldRests ==
  ASSUME ReplacementsInv, UNCHANGED <<world, left>>
  PROVE  Seated' /\ Gone' /\ EmptySeatsOpen'
<1>1. Filled' = Filled
  BY DEF world, Filled
<1> QED
  BY <1>1 DEF ReplacementsInv, world, Seated, Gone, EmptySeatsOpen

\* People who are asked again, by an operator or a batch: searches forget them.
LEMMA AskedStep ==
  ASSUME ReplacementsAssumption, ReplacementsInv, NEW asked \in SUBSET Experts,
         \A e \in asked : invitation[e] \notin {"SENT", "ACCEPTED"},
         invitation' = [e \in Experts |-> IF e \in asked THEN "SENT" ELSE invitation[e]],
         AskedAgain(asked),
         UNCHANGED <<phase, archived, seat, latestRun, jobs, flagged, withdrawals, crashes, astray>>,
         batch' \in [Batches -> [status : BatchStatus, list : SUBSET Experts]],
         OpenBatches' \subseteq OpenBatches
  PROVE  ReplacementsInv'
<1>1. /\ worker' \in [Workers -> [at : {"idle", "existing", "recommend", "write"},
                                  list : SUBSET Experts, gone : SUBSET Experts]]
      /\ \A w \in Workers : /\ worker'[w].at = worker[w].at /\ worker'[w].list = worker[w].list
                            /\ worker'[w].gone = worker[w].gone \ asked
  BY DEF AskedAgain, ReplacementsInv, TypeOK
<1>2. left' = left \ asked
  BY DEF AskedAgain
<1>3. TypeOK'
  <2>1. invitation' \in [Experts -> {"NONE", "SENT", "ACCEPTED", "DECLINED", "EXPIRED", "WITHDRAWN"}]
    BY DEF ReplacementsInv, TypeOK
  <2> QED
    BY <1>1, <1>2, <2>1 DEF ReplacementsInv, TypeOK
<1>4. Searching' = Searching /\ Drafting' = Drafting
  BY <1>1 DEF Searching, Drafting, Busy
<1>5. Searched'
  BY <1>4 DEF ReplacementsInv, Searched
<1>6. Owed'
  <2>1. Cardinality(OpenBatches') <= Cardinality(OpenBatches) /\ Cardinality(OpenBatches') \in Nat
        /\ Cardinality(OpenBatches) \in Nat
    BY Finite, FS_Subset DEF OpenBatches
  <2>2. Cardinality(Drafting) \in Nat /\ Cardinality(Workers) \in Nat
    BY Finite DEF Drafting
  <2> QED
    BY <1>4, <2>1, <2>2 DEF ReplacementsInv, Owed
<1>7. Seated'
  BY DEF ReplacementsInv, Seated, TypeOK
<1>8. Gone'
  BY <1>2 DEF ReplacementsInv, Gone, TypeOK
<1>9. Remembers'
  BY <1>1, <1>2 DEF ReplacementsInv, Remembers
<1>10. EmptySeatsOpen' /\ NotTheirOwn'
  <2>1. Filled' = Filled
    BY DEF Filled
  <2> QED
    BY <2>1 DEF ReplacementsInv, EmptySeatsOpen, NotTheirOwn
<1> QED
  BY <1>3, <1>5, <1>6, <1>7, <1>8, <1>9, <1>10 DEF ReplacementsInv

\* Steps of people that only move seats and invitations.
LEMMA PeopleStep ==
  ASSUME ReplacementsAssumption, ReplacementsInv, UNCHANGED <<search, history>>,
         latestRun' \subseteq Experts, archived' \subseteq Experts, phase' = phase,
         invitation' \in [Experts -> {"NONE", "SENT", "ACCEPTED", "DECLINED", "EXPIRED", "WITHDRAWN"}],
         seat' \in [Experts -> {"NONE", "PROPOSED", "CONFIRMED", "RELEASED", "COMPLETED"}],
         \A e \in Experts : invitation[e] \in {"ACCEPTED", "WITHDRAWN"} => invitation'[e] = invitation[e],
         \A e \in Experts : seat'[e] \in Holding => seat[e] \in Holding \/ invitation[e] = "ACCEPTED",
         phase = "full" => Filled' = Filled
  PROVE  ReplacementsInv'
<1>1. Searched' /\ Owed' /\ NotTheirOwn'
  BY SearchRests DEF history
<1>2. TypeOK'
  BY DEF ReplacementsInv, TypeOK, search, history
<1>3. Seated'
  BY DEF ReplacementsInv, Seated, TypeOK
<1>4. Gone' /\ Remembers'
  BY DEF ReplacementsInv, Gone, Remembers, history, search, TypeOK
<1>5. EmptySeatsOpen'
  BY DEF ReplacementsInv, EmptySeatsOpen
<1> QED
  BY <1>1, <1>2, <1>3, <1>4, <1>5 DEF ReplacementsInv

\* The seat of somebody changes, the others keep theirs.
LEMMA FilledMoves ==
  ASSUME ReplacementsAssumption, TypeOK, NEW e \in Experts, NEW to, seat' = [seat EXCEPT ![e] = to]
  PROVE  /\ to \in {"CONFIRMED", "COMPLETED"} => Filled' = Filled \cup {e}
         /\ to \notin {"CONFIRMED", "COMPLETED"} => Filled' = Filled \ {e}
BY DEF Filled, TypeOK

LEMMA ConfirmStep ==
  ASSUME ReplacementsAssumption, ReplacementsInv, NEW e \in Experts, Confirm(e)
  PROVE  ReplacementsInv'
<1>1. Searched' /\ Owed' /\ NotTheirOwn'
  BY SearchRests DEF Confirm, history
<1>2. TypeOK'
  BY DEF ReplacementsInv, TypeOK, search, history, Confirm
<1>3. Seated'
  BY DEF ReplacementsInv, Seated, TypeOK, Confirm, Holding
<1>4. Gone' /\ Remembers'
  BY DEF ReplacementsInv, Gone, Remembers, history, search, TypeOK, Confirm
<1>5. EmptySeatsOpen'
  <2>1. Filled' = Filled \cup {e} /\ e \notin Filled
    BY FilledMoves DEF Confirm, ReplacementsInv, Filled
  <2>2. Cardinality(Filled') = Cardinality(Filled) + 1
    BY <2>1, Finite, FS_AddElement DEF Filled
  <2>3. Cardinality(Filled) \in Nat /\ Seats \in Nat
    BY Finite DEF Filled, ReplacementsAssumption
  <2>4. CASE Cardinality(Filled) + 1 >= Seats
    BY <2>2, <2>3, <2>4 DEF EmptySeatsOpen
  <2>5. CASE ~(Cardinality(Filled) + 1 >= Seats)
    BY <2>3, <2>5 DEF EmptySeatsOpen, Confirm, ReplacementsInv
  <2> QED
    BY <2>4, <2>5
<1> QED
  BY <1>1, <1>2, <1>3, <1>4, <1>5 DEF ReplacementsInv

LEMMA WithdrawStep ==
  ASSUME ReplacementsAssumption, ReplacementsInv, NEW e \in Experts, RecordWithdrawal(e)
  PROVE  ReplacementsInv'
<1>1. withdrawals \in Nat /\ MaxWithdrawals \in Nat /\ jobs \in Nat /\ withdrawals < MaxWithdrawals
      /\ jobs' = jobs + 1 /\ withdrawals' = withdrawals + 1
  BY DEF RecordWithdrawal, ReplacementsInv, TypeOK, ReplacementsAssumption
<1>2. Searching' = Searching /\ Drafting' = Drafting /\ OpenBatches' = OpenBatches
  BY DEF RecordWithdrawal, Searching, Drafting, OpenBatches, Busy
<1>3. Cardinality(Searching) \in Nat
  BY Finite DEF Searching
<1>4. Searched' /\ Owed'
  BY <1>1, <1>2, <1>3 DEF ReplacementsInv, Searched, Owed
<1>5. jobs' \in 0 .. MaxWithdrawals /\ withdrawals' \in 0 .. MaxWithdrawals
  BY <1>1, <1>3 DEF ReplacementsInv, Searched
<1>6. /\ invitation[e] = "ACCEPTED"
      /\ invitation' = [invitation EXCEPT ![e] = "WITHDRAWN"]
      /\ left' = left \cup {e}
  BY DEF RecordWithdrawal, MayWithdraw, ReplacementsInv, Seated, Holding, TypeOK
<1>7. PICK to \in {"NONE", "RELEASED", "COMPLETED"} : seat' = [seat EXCEPT ![e] = to]
  BY DEF RecordWithdrawal, ReplacementsInv, TypeOK, Holding
<1>8. TypeOK'
  <2>1. phase' \in {"open", "full"}
    BY DEF RecordWithdrawal, ReplacementsInv, TypeOK
  <2>2. /\ seat' \in [Experts -> {"NONE", "PROPOSED", "CONFIRMED", "RELEASED", "COMPLETED"}]
        /\ invitation' \in [Experts -> {"NONE", "SENT", "ACCEPTED", "DECLINED", "EXPIRED", "WITHDRAWN"}]
        /\ left' \subseteq Experts
    BY <1>6, <1>7 DEF ReplacementsInv, TypeOK
  <2> QED
    BY <1>5, <2>1, <2>2 DEF ReplacementsInv, TypeOK, RecordWithdrawal
<1>9. Seated'
  BY <1>6, <1>7 DEF ReplacementsInv, Seated, TypeOK, Holding
<1>10. Gone' /\ Remembers' /\ NotTheirOwn'
  BY <1>6 DEF ReplacementsInv, Gone, Remembers, NotTheirOwn, TypeOK, RecordWithdrawal
<1>11. EmptySeatsOpen'
  <2>1. Filled' \in SUBSET Experts
    BY DEF Filled
  <2>2. Cardinality(Filled') \in Nat /\ Seats \in Nat
    BY <2>1, Finite DEF ReplacementsAssumption
  <2>3. CASE phase = "full" /\ Seats - Cardinality(Filled') > 0
    BY <2>3 DEF EmptySeatsOpen, RecordWithdrawal, Reopens
  <2>4. CASE phase = "full" /\ ~(Seats - Cardinality(Filled') > 0)
    BY <2>2, <2>4 DEF EmptySeatsOpen
  <2>5. CASE phase # "full"
    BY <2>5 DEF EmptySeatsOpen, RecordWithdrawal
  <2> QED
    BY <2>3, <2>4, <2>5
<1> QED
  BY <1>4, <1>8, <1>9, <1>10, <1>11 DEF ReplacementsInv

\* Steps of a search that the world does not notice.
LEMMA SearchStep ==
  ASSUME ReplacementsAssumption, ReplacementsInv, UNCHANGED <<world, latestRun, withdrawals, left>>,
         NEW w \in Workers,
         NEW r \in [at : {"idle", "existing", "recommend", "write"},
                   list : SUBSET Experts, gone : SUBSET Experts],
         Goes(w, r), r.gone \subseteq left, r.at = "write" => r.list \cap r.gone = {},
         batch' \in [Batches -> [status : BatchStatus, list : SUBSET Experts]],
         jobs' \in Nat, crashes' \in 0 .. MaxCrashes, flagged' \in BOOLEAN, astray' = {},
         \/ Busy(w) /\ r.at = "idle" /\ jobs' <= jobs + 1
         \/ Busy(w) /\ jobs' <= jobs
         \/ jobs' + 1 <= jobs,
         \/ OpenBatches' = OpenBatches /\ (r.at \in {"recommend", "write"} => w \in Drafting)
         \/ OpenBatches' = {}
         \/ w \in Drafting /\ r.at = "idle" /\ \E b : OpenBatches' = OpenBatches \cup {b}
  PROVE  ReplacementsInv'
<1>1. /\ worker' \in [Workers -> [at : {"idle", "existing", "recommend", "write"},
                                  list : SUBSET Experts, gone : SUBSET Experts]]
      /\ worker'[w] = r /\ \A v \in Workers \ {w} : worker'[v] = worker[v]
  BY DEF Goes, ReplacementsInv, TypeOK
<1>2. /\ Searching' = IF r.at = "idle" THEN Searching \ {w} ELSE Searching \cup {w}
      /\ Drafting' = IF r.at \in {"recommend", "write"} THEN Drafting \cup {w} ELSE Drafting \ {w}
      /\ Searching' \in SUBSET Workers /\ Drafting' \in SUBSET Workers
  BY <1>1 DEF Searching, Drafting, Busy
<1>3. Searched'
  <2>1. IsFiniteSet(Searching) /\ (w \in Searching <=> Busy(w))
    BY Finite DEF Searching
  <2>2. jobs \in Nat /\ withdrawals \in Nat
    BY DEF ReplacementsInv, TypeOK
  <2>3. jobs + Cardinality(Searching) <= withdrawals /\ withdrawals' = withdrawals
    BY DEF ReplacementsInv, Searched
  <2>4. PICK k \in Nat : k = jobs'
    OBVIOUS
  <2>5. \/ w \in Searching /\ Searching' = Searching \ {w} /\ k <= jobs + 1
        \/ w \in Searching /\ Searching' \in {Searching, Searching \ {w}, Searching \cup {w}} /\ k <= jobs
        \/ Searching' \in {Searching \ {w}, Searching \cup {w}} /\ k + 1 <= jobs
    BY <1>2, <2>1, <2>4
  <2>6. PICK X \in SUBSET Workers : X = Searching'
    BY <1>2
  <2>7. k + Cardinality(X) <= withdrawals
    BY <2>1, <2>2, <2>3, <2>5, <2>6, CountKept
  <2> QED
    BY <2>3, <2>4, <2>6, <2>7 DEF Searched
<1>4. Owed'
  <2>1. /\ Cardinality(Drafting) \in Nat
        /\ w \in Drafting => Cardinality(Drafting \ {w}) = Cardinality(Drafting) - 1 /\ Drafting \cup {w} = Drafting
        /\ w \notin Drafting => Drafting \ {w} = Drafting
    <3>1. IsFiniteSet(Drafting)
      BY Finite DEF Drafting
    <3> HIDE DEF Drafting
    <3> QED
      BY <3>1, OneMore
  <2>2. Cardinality(OpenBatches) \in Nat /\ Cardinality(Workers) \in Nat /\ IsFiniteSet(OpenBatches)
    BY Finite DEF OpenBatches
  <2>3. Cardinality(OpenBatches) + Cardinality(Drafting) <= Cardinality(Workers)
    BY DEF ReplacementsInv, Owed
  <2>4. CASE OpenBatches' = {}
    <3>1. Cardinality(OpenBatches') = 0 /\ Cardinality(Drafting') \in Nat
          /\ Cardinality(Drafting') <= Cardinality(Workers)
      BY <1>2, <2>4, Finite, FS_EmptySet
    <3> QED
      BY <2>2, <3>1 DEF Owed
  <2>5. CASE OpenBatches' = OpenBatches /\ (r.at \in {"recommend", "write"} => w \in Drafting)
    <3>1. Drafting' = Drafting \/ Cardinality(Drafting') = Cardinality(Drafting) - 1
      BY <1>2, <2>1, <2>5
    <3>2. Cardinality(OpenBatches') = Cardinality(OpenBatches)
      BY <2>5
    <3>3. Cardinality(Drafting') <= Cardinality(Drafting) /\ Cardinality(Drafting') \in Int
      BY <2>1, <3>1
    <3> QED
      BY <2>1, <2>2, <2>3, <3>2, <3>3 DEF Owed
  <2>6. CASE w \in Drafting /\ r.at = "idle" /\ \E b : OpenBatches' = OpenBatches \cup {b}
    <3>1. Cardinality(OpenBatches') <= Cardinality(OpenBatches) + 1 /\ Cardinality(OpenBatches') \in Nat
      <4>1. PICK b : OpenBatches' = OpenBatches \cup {b}
        BY <2>6
      <4> HIDE DEF OpenBatches
      <4>2. /\ Cardinality(OpenBatches \cup {b}) \in Nat
            /\ Cardinality(OpenBatches \cup {b}) <= Cardinality(OpenBatches) + 1
        BY <2>2, OneMore
      <4> QED
        BY <4>1, <4>2
    <3>2. Cardinality(Drafting') = Cardinality(Drafting) - 1
      BY <1>2, <2>1, <2>6
    <3> QED
      BY <2>1, <2>2, <2>3, <3>1, <3>2 DEF Owed
  <2> QED
    BY <2>4, <2>5, <2>6
<1>5. Seated' /\ Gone' /\ EmptySeatsOpen'
  BY WorldRests
<1>6. Remembers' /\ NotTheirOwn'
  BY <1>1 DEF ReplacementsInv, Remembers, NotTheirOwn
<1>7. TypeOK'
  <2>1. jobs' \in 0 .. MaxWithdrawals
    <3>1. Cardinality(Searching') \in Nat
      BY <1>2, Finite
    <3> QED
      BY <1>3, <3>1 DEF Searched, ReplacementsInv, TypeOK, ReplacementsAssumption
  <2>2. astray' \subseteq Experts
    OBVIOUS
  <2> QED
    BY <1>1, <2>1, <2>2 DEF ReplacementsInv, TypeOK, world
<1> QED
  BY <1>3, <1>4, <1>5, <1>6, <1>7 DEF ReplacementsInv

LEMMA GapReadStep ==
  ASSUME ReplacementsAssumption, ReplacementsInv, NEW w \in Workers, GapRead(w)
  PROVE  ReplacementsInv'
<1> DEFINE r == IF Gap = 0 THEN Idle ELSE [Idle EXCEPT !.at = "existing", !.gone = left]
<1>1. /\ r \in [at : {"idle", "existing", "recommend", "write"},
               list : SUBSET Experts, gone : SUBSET Experts]
      /\ r.at \in {"idle", "existing"} /\ r.gone \subseteq left /\ Goes(w, r)
  BY DEF GapRead, Idle, ReplacementsInv, TypeOK
<1>2. jobs \in Nat /\ jobs' \in Nat /\ jobs' + 1 <= jobs
  BY DEF GapRead, ReplacementsInv, TypeOK
<1>3. OpenBatches' = OpenBatches
  BY DEF GapRead, OpenBatches
<1> HIDE DEF r
<1> QED
  BY <1>1, <1>2, <1>3, SearchStep DEF GapRead, ReplacementsInv, TypeOK, NotTheirOwn

LEMMA OpenReadStep ==
  ASSUME ReplacementsAssumption, ReplacementsInv, NEW w \in Workers, OpenRead(w)
  PROVE  ReplacementsInv'
<1> DEFINE r == IF OpenBatches # {} THEN Idle ELSE [worker[w] EXCEPT !.at = "recommend"]
<1>1. /\ r \in [at : {"idle", "existing", "recommend", "write"},
               list : SUBSET Experts, gone : SUBSET Experts]
      /\ r.at \in {"idle", "recommend"} /\ r.gone \subseteq left /\ Goes(w, r)
      /\ r.at = "recommend" => OpenBatches = {}
  BY DEF OpenRead, Idle, ReplacementsInv, TypeOK, Remembers
<1>2. jobs \in Nat /\ jobs' = jobs /\ Busy(w)
  BY DEF OpenRead, ReplacementsInv, TypeOK, Busy
<1>3. OpenBatches' = OpenBatches
  BY DEF OpenRead, OpenBatches
<1> HIDE DEF r
<1> QED
  BY <1>1, <1>2, <1>3, SearchStep DEF OpenRead, ReplacementsInv, TypeOK, NotTheirOwn, history

\* Whom a search remembers to have left is settled, hence not recommended.
LEMMA RecommendStep ==
  ASSUME ReplacementsAssumption, ReplacementsInv, NEW w \in Workers, Recommend(w)
  PROVE  ReplacementsInv'
<1> DEFINE r == [worker[w] EXCEPT !.at = "write", !.list = Recommended]
<1>1. Recommended \subseteq Experts
  BY DEF Recommended, Top, ReplacementsInv, TypeOK
<1>2. Recommended \cap left = {}
  BY DEF Recommended, Top, Settled, ReplacementsInv, Gone
<1>3. /\ r \in [at : {"idle", "existing", "recommend", "write"},
               list : SUBSET Experts, gone : SUBSET Experts]
      /\ r.at = "write" /\ r.gone = worker[w].gone /\ r.list = Recommended /\ Goes(w, r)
  BY <1>1 DEF Recommend, ReplacementsInv, TypeOK
<1>4. r.gone \subseteq left /\ r.list \cap r.gone = {}
  BY <1>2, <1>3 DEF ReplacementsInv, Remembers
<1>5. jobs \in Nat /\ jobs' = jobs /\ Busy(w) /\ w \in Drafting
  BY DEF Recommend, ReplacementsInv, TypeOK, Busy, Drafting
<1>6. OpenBatches' = OpenBatches
  BY DEF Recommend, OpenBatches
<1> HIDE DEF r
<1> QED
  BY <1>3, <1>4, <1>5, <1>6, SearchStep DEF Recommend, ReplacementsInv, TypeOK, NotTheirOwn, history

LEMMA ProposeStep ==
  ASSUME ReplacementsAssumption, ReplacementsInv, NEW w \in Workers, ProposeReplacements(w)
  PROVE  ReplacementsInv'
<1>1. /\ Idle \in [at : {"idle", "existing", "recommend", "write"},
                  list : SUBSET Experts, gone : SUBSET Experts]
      /\ Idle.at = "idle" /\ Idle.gone = {} /\ Goes(w, Idle)
  BY DEF ProposeReplacements, Idle
<1>2. jobs \in Nat /\ jobs' = jobs /\ Busy(w) /\ w \in Drafting
  BY DEF ProposeReplacements, ReplacementsInv, TypeOK, Busy, Drafting
<1>3. /\ batch' \in [Batches -> [status : BatchStatus, list : SUBSET Experts]]
      /\ \E b : OpenBatches' = OpenBatches \cup {b} \/ OpenBatches' = OpenBatches
  <2> DEFINE new == [status |-> "DRAFT", list |-> worker[w].list]
  <2>1. new \in [status : BatchStatus, list : SUBSET Experts] /\ new.status = "DRAFT"
    BY DEF ReplacementsInv, TypeOK, BatchStatus
  <2> HIDE DEF new
  <2>2. batch' = batch \/ \E b : batch' = [batch EXCEPT ![b] = new]
    BY DEF ProposeReplacements, Drafted, new
  <2>3. CASE batch' = batch
    BY <2>3 DEF OpenBatches, ReplacementsInv, TypeOK
  <2>4. ASSUME NEW b \in Batches, batch' = [batch EXCEPT ![b] = new]
        PROVE  /\ batch' \in [Batches -> [status : BatchStatus, list : SUBSET Experts]]
               /\ OpenBatches' = OpenBatches \cup {b}
    BY <2>1, <2>4 DEF OpenBatches, ReplacementsInv, TypeOK
  <2>5. ASSUME NEW b, b \notin Batches, batch' = [batch EXCEPT ![b] = new]
        PROVE  batch' = batch
    BY <2>5 DEF ReplacementsInv, TypeOK
  <2> QED
    BY <2>2, <2>3, <2>4, <2>5
<1>4. astray' = {}
  BY DEF ProposeReplacements, ReplacementsInv, Remembers, NotTheirOwn
<1>5. \E b : OpenBatches' = OpenBatches \cup {b} \/ OpenBatches' = OpenBatches
  BY <1>3
<1>6. flagged' \in BOOLEAN /\ crashes' \in 0 .. MaxCrashes
      /\ UNCHANGED <<world, latestRun, withdrawals, left>>
  BY DEF ProposeReplacements, ReplacementsInv, TypeOK
<1>7. Idle.gone \subseteq left /\ (Idle.at = "write" => Idle.list \cap Idle.gone = {}) /\ jobs' \in Nat
      /\ jobs' <= jobs
  BY <1>1, <1>2
<1> QED
  BY <1>1, <1>2, <1>3, <1>4, <1>5, <1>6, <1>7, SearchStep

LEMMA DieStep ==
  ASSUME ReplacementsAssumption, ReplacementsInv, NEW w \in Workers, Die(w)
  PROVE  ReplacementsInv'
<1>1. /\ Idle \in [at : {"idle", "existing", "recommend", "write"},
                  list : SUBSET Experts, gone : SUBSET Experts]
      /\ Idle.at = "idle" /\ Idle.gone = {} /\ Goes(w, Idle)
  BY DEF Die, Idle
<1>2. jobs \in Nat /\ jobs' \in Nat /\ jobs' <= jobs + 1 /\ Busy(w)
  BY DEF Die, ReplacementsInv, TypeOK
<1>3. OpenBatches' = OpenBatches
  BY DEF Die, OpenBatches
<1>4. crashes' \in 0 .. MaxCrashes
  BY DEF Die, ReplacementsInv, TypeOK, ReplacementsAssumption
<1> QED
  BY <1>1, <1>2, <1>3, <1>4, SearchStep DEF Die, ReplacementsInv, TypeOK, NotTheirOwn

\* What an operator does with a batch or a flag.
LEMMA OfficeStep ==
  ASSUME ReplacementsAssumption, ReplacementsInv,
         UNCHANGED <<world, latestRun, jobs, worker, history>>, flagged' \in BOOLEAN,
         batch' \in [Batches -> [status : BatchStatus, list : SUBSET Experts]],
         OpenBatches' \subseteq OpenBatches
  PROVE  ReplacementsInv'
<1>1. Searching' = Searching /\ Drafting' = Drafting
  BY DEF Searching, Drafting, Busy
<1>2. Owed'
  <2>1. Cardinality(OpenBatches') <= Cardinality(OpenBatches) /\ Cardinality(OpenBatches') \in Nat
        /\ Cardinality(OpenBatches) \in Nat
    BY Finite, FS_Subset DEF OpenBatches
  <2>2. Cardinality(Drafting) \in Nat /\ Cardinality(Workers) \in Nat
    BY Finite DEF Drafting
  <2> QED
    BY <1>1, <2>1, <2>2 DEF ReplacementsInv, Owed
<1>3. Seated' /\ Gone' /\ EmptySeatsOpen'
  BY WorldRests DEF history
<1>4. TypeOK'
  BY DEF ReplacementsInv, TypeOK, world, history
<1>5. Searched' /\ Remembers' /\ NotTheirOwn'
  BY <1>1 DEF ReplacementsInv, Searched, Remembers, NotTheirOwn, history
<1> QED
  BY <1>2, <1>3, <1>4, <1>5 DEF ReplacementsInv

LEMMA ReplacementsStep ==
  ASSUME ReplacementsAssumption, ReplacementsInv, [Next]_vars
  PROVE  ReplacementsInv'
<1>1. CASE UNCHANGED vars
  <2>1. Searching' = Searching /\ Drafting' = Drafting /\ OpenBatches' = OpenBatches /\ Filled' = Filled
    BY <1>1 DEF vars, world, search, Searching, Drafting, OpenBatches, Busy, Filled
  <2>2. Searched' /\ Owed'
    BY <1>1, <2>1 DEF vars, search, history, ReplacementsInv, Searched, Owed
  <2>3. TypeOK'
    BY <1>1 DEF vars, world, search, history, ReplacementsInv, TypeOK
  <2> QED
    BY <1>1, <2>1, <2>2, <2>3 DEF vars, world, search, history, ReplacementsInv, Seated, Gone, Remembers,
       NotTheirOwn, EmptySeatsOpen
<1>2. CASE RunMatching
  <2>1. latestRun' \subseteq Experts
    BY <1>2 DEF RunMatching, Top, Rankable
  <2>2. Filled' = Filled
    BY <1>2 DEF RunMatching, world, Filled
  <2>3. UNCHANGED <<search, history, phase, archived, invitation, seat>>
    BY <1>2 DEF RunMatching, world
  <2> QED
    BY <2>1, <2>2, <2>3, PeopleStep DEF ReplacementsInv, TypeOK
<1>3. CASE DismissFlag
  <2>1. OpenBatches' = OpenBatches
    BY <1>3 DEF DismissFlag, OpenBatches
  <2> QED
    BY <1>3, <2>1, OfficeStep DEF DismissFlag, ReplacementsInv, TypeOK
<1>4. ASSUME NEW e \in Experts, Invite(e) PROVE ReplacementsInv'
  <2>1. \A x \in {e} : invitation[x] \notin {"SENT", "ACCEPTED"}
    BY <1>4 DEF Invite, Invitable
  <2>2. invitation' = [x \in Experts |-> IF x \in {e} THEN "SENT" ELSE invitation[x]]
    BY <1>4 DEF Invite, Becomes, ReplacementsInv, TypeOK
  <2>3. OpenBatches' \subseteq OpenBatches
    BY <1>4 DEF Invite, OpenBatches
  <2> QED
    BY <1>4, <2>1, <2>2, <2>3, AskedStep DEF Invite, ReplacementsInv, TypeOK
<1>5. ASSUME NEW e \in Experts, NEW yes \in BOOLEAN, Respond(e, yes) PROVE ReplacementsInv'
  <2>1. Filled' = Filled
    BY <1>5 DEF Respond, Filled
  <2>2. /\ invitation' \in [Experts -> {"NONE", "SENT", "ACCEPTED", "DECLINED", "EXPIRED", "WITHDRAWN"}]
        /\ \A x \in Experts : invitation[x] \in {"ACCEPTED", "WITHDRAWN"} => invitation'[x] = invitation[x]
    BY <1>5 DEF Respond, Becomes, ReplacementsInv, TypeOK
  <2> QED
    BY <1>5, <2>1, <2>2, PeopleStep DEF Respond, ReplacementsInv, TypeOK
<1>6. ASSUME NEW e \in Experts, Expire(e) PROVE ReplacementsInv'
  <2>1. Filled' = Filled
    BY <1>6 DEF Expire, Filled
  <2>2. /\ invitation' \in [Experts -> {"NONE", "SENT", "ACCEPTED", "DECLINED", "EXPIRED", "WITHDRAWN"}]
        /\ \A x \in Experts : invitation[x] \in {"ACCEPTED", "WITHDRAWN"} => invitation'[x] = invitation[x]
    BY <1>6 DEF Expire, Becomes, ReplacementsInv, TypeOK
  <2> QED
    BY <1>6, <2>1, <2>2, PeopleStep DEF Expire, ReplacementsInv, TypeOK
<1>7. ASSUME NEW e \in Experts, Propose(e) PROVE ReplacementsInv'
  <2>1. phase = "open"
    <3>1. Cardinality(Filled) \in Nat /\ Seats \in Nat
      BY Finite DEF Filled, ReplacementsAssumption
    <3> QED
      BY <1>7, <3>1 DEF Propose, ReplacementsInv, EmptySeatsOpen, TypeOK
  <2>2. /\ seat' \in [Experts -> {"NONE", "PROPOSED", "CONFIRMED", "RELEASED", "COMPLETED"}]
        /\ \A x \in Experts : seat'[x] \in Holding => seat[x] \in Holding \/ invitation[x] = "ACCEPTED"
    BY <1>7 DEF Propose, ReplacementsInv, TypeOK
  <2> QED
    BY <1>7, <2>1, <2>2, PeopleStep DEF Propose, ReplacementsInv, TypeOK
<1>8. ASSUME NEW e \in Experts, Archive(e) PROVE ReplacementsInv'
  <2>1. Filled' = Filled
    BY <1>8 DEF Archive, Filled
  <2> QED
    BY <1>8, <2>1, PeopleStep DEF Archive, ReplacementsInv, TypeOK
<1>9. ASSUME NEW b \in Batches, NEW yes \in BOOLEAN, Decide(b, yes) PROVE ReplacementsInv'
  <2>1. /\ OpenBatches' \subseteq OpenBatches
        /\ batch' \in [Batches -> [status : BatchStatus, list : SUBSET Experts]]
    <3> DEFINE new == [batch[b] EXCEPT !.status = IF yes THEN "APPROVED" ELSE "REJECTED"]
    <3>1. new \in [status : BatchStatus, list : SUBSET Experts]
      BY DEF ReplacementsInv, TypeOK, BatchStatus
    <3>2. batch' = [batch EXCEPT ![b] = new]
      BY <1>9 DEF Decide
    <3> HIDE DEF new
    <3> QED
      BY <1>9, <3>1, <3>2 DEF Decide, OpenBatches, ReplacementsInv, TypeOK
  <2> QED
    BY <1>9, <2>1, OfficeStep DEF Decide, ReplacementsInv, TypeOK
<1>10. ASSUME NEW b \in Batches, DispatchBatch(b) PROVE ReplacementsInv'
  <2> DEFINE asked == {e \in batch[b].list : Invitable(e)}
  <2>1. asked \in SUBSET Experts
    BY DEF ReplacementsInv, TypeOK
  <2>2. \A e \in asked : invitation[e] \notin {"SENT", "ACCEPTED"}
    BY DEF Invitable
  <2>3. /\ OpenBatches' \subseteq OpenBatches
        /\ batch' \in [Batches -> [status : BatchStatus, list : SUBSET Experts]]
    <3> DEFINE new == [batch[b] EXCEPT !.status = "DISPATCHED"]
    <3>1. new \in [status : BatchStatus, list : SUBSET Experts] /\ new.status = "DISPATCHED"
      BY DEF ReplacementsInv, TypeOK, BatchStatus
    <3>2. batch' = [batch EXCEPT ![b] = new]
      BY <1>10 DEF DispatchBatch
    <3> HIDE DEF new
    <3> QED
      BY <3>1, <3>2 DEF OpenBatches, ReplacementsInv, TypeOK
  <2>4. /\ invitation' = [e \in Experts |-> IF e \in asked THEN "SENT" ELSE invitation[e]]
        /\ AskedAgain(asked)
        /\ UNCHANGED <<phase, archived, seat, latestRun, jobs, flagged, withdrawals, crashes, astray>>
    BY <1>10 DEF DispatchBatch
  <2> HIDE DEF asked
  <2> QED
    BY <2>1, <2>2, <2>3, <2>4, AskedStep
<1> QED
  BY <1>1, <1>2, <1>3, <1>4, <1>5, <1>6, <1>7, <1>8, <1>9, <1>10, ConfirmStep, WithdrawStep, GapReadStep,
     OpenReadStep, RecommendStep, ProposeStep, DieStep DEF Next, Job

\* OffersHold follows from the invariant: what the ranking, the search and the
\* recommendation leave out is what createInvitation refuses.
LEMMA OffersFollow == ASSUME ReplacementsAssumption, ReplacementsInv PROVE OffersHold
<1>1. ASSUME NEW e \in Experts
      PROVE  /\ CandidateOf(e).open <=> OpenInvitation(e)
             /\ e \in archived => CandidateOf(e).status = "ARCHIVED"
  BY DEF CandidateOf, ReplacementsAssumption
<1>2. ASSUME NEW e \in Experts, ~Excluded(CandidateOf(e), Brief)
      PROVE  invitation[e] \notin {"SENT", "ACCEPTED"} /\ e \notin archived
  BY <1>1, <1>2 DEF Excluded, OpenInvitation
<1>3. ASSUME phase = "open" /\ Cardinality(Filled) < Seats
      PROVE  \A e \in Rankable \cup Found \cup Recommended : Invitable(e)
  BY <1>2, <1>3 DEF Rankable, Found, Recommended, Top, Settled, Invitable
<1>4. \A e \in Experts : Stage(e) # "none" <=> MayWithdraw(e)
  BY DEF Stage, MayWithdraw, Holding
<1> QED
  BY <1>3, <1>4 DEF OffersHold

LEMMA ReplacementsFollow ==
  ASSUME ReplacementsAssumption, ReplacementsInv PROVE ReplacementsHold
<1>1. OneProposal
  <2>1. Cardinality(OpenBatches) \in Nat /\ Cardinality(Drafting) \in Nat /\ Cardinality(Workers) \in Nat
    BY Finite DEF OpenBatches, Drafting
  <2> QED
    BY <2>1 DEF ReplacementsInv, Owed, OneProposal
<1> QED
  BY <1>1, OffersFollow DEF ReplacementsInv, ReplacementsHold

-----------------------------------------------------------------------------
(***************************************************************************)
(* Induction over data: a least counterexample.                            *)
(***************************************************************************)

\* Every nonempty set of naturals has a least element.
LEMMA LeastNatural ==
  ASSUME NEW B \in SUBSET Nat, B # {}
  PROVE  \E n \in B : \A m \in B : n <= m
<1> DEFINE R == {ss \in Nat \X Nat : ss[1] < ss[2]}
<1>1. IsWellFoundedOn(R, Nat)
  BY NatLessThanWellFounded DEF OpToRel
<1>2. \A m, n \in Nat : ~ (<<m, n>> \in R) => n <= m
  OBVIOUS
<1> HIDE DEF R
<1>3. PICK n \in B : \A m \in B : ~ (<<m, n>> \in R)
  BY <1>1, WFMin
<1> QED
  BY <1>2, <1>3

-----------------------------------------------------------------------------
(***************************************************************************)
(* Schedules.  A claimed row is locked by one tick, so what the claim read *)
(* of it still holds when the job is created.                              *)
(***************************************************************************)

ScheduleRow == [exists : BOOLEAN, on : BOOLEAN, next : Nat, last : Nat \cup {S!Never}]
TickRow == [at : {"off", "boot", "ready", "loop", "fire"}, now : Nat, handled : SUBSET Schedules,
            todo : SUBSET Schedules, on : SUBSET Schedules, left : 0 .. Limit]

\* One tick at a time holds a row.
Locked ==
  \A v, w \in Ticking, s \in Schedules : s \in tick[v].on /\ s \in tick[w].on => v = w

\* The row a tick holds is due at the tick's time and switched on.
ClaimsStand == \A w \in Ticking : \A s \in tick[w].on : S!Due(s, tick[w].now)

\* The next execution is an interval away from the last, unless somebody armed it.
Paced ==
  \A s \in Schedules :
    \/ schedule[s].last = S!Never \/ s \in rearmed
    \/ schedule[s].next >= schedule[s].last + Interval[s]

\* A row that does not exist has never fired.
Unborn == \A s \in Schedules : ~schedule[s].exists => schedule[s].last = S!Never

SchedulesInv == S!TypeOK /\ Locked /\ ClaimsStand /\ Paced /\ Unborn /\ S!NothingConsumed

LEMMA LimitsNatural ==
  /\ Limit \in Nat /\ MaxClock \in Nat /\ MaxDeaths \in Nat /\ MaxFaults \in Nat /\ MaxEdits \in Nat
  /\ STALE_AFTER \in Nat /\ Interval \in [Schedules -> Nat \ {0}]
BY PlatformAssumption DEF S!SchedulerAssumption

LEMMA SchedulesInit == ASSUME S!Init PROVE SchedulesInv
<1>1. S!NoRow \in ScheduleRow /\ ~S!NoRow.exists /\ S!NoRow.last = S!Never
  BY DEF S!NoRow, ScheduleRow
<1>2. S!Off \in TickRow /\ S!Off.on = {}
  BY LimitsNatural DEF S!Off, TickRow
<1>3. schedule \in [Schedules -> ScheduleRow] /\ tick \in [Ticking -> TickRow]
  BY <1>1, <1>2 DEF S!Init
<1>4. heartbeat \in [Ticking -> Nat \cup {S!Never}] /\ lastError \in [Ticking -> BOOLEAN]
  BY DEF S!Init
<1>5. /\ clock \in 0 .. MaxClock /\ deaths \in 0 .. MaxDeaths /\ faults \in 0 .. MaxFaults
      /\ edits \in 0 .. MaxEdits
  BY LimitsNatural DEF S!Init
<1>6. S!TypeOK
  BY <1>3, <1>4, <1>5 DEF S!Init, S!TypeOK, ScheduleRow, TickRow
<1> QED
  BY <1>1, <1>2, <1>6
     DEF S!Init, SchedulesInv, Locked, ClaimsStand, Paced, Unborn, S!NothingConsumed

\* Steps of a worker that do not touch the rows: it holds no more than before.
LEMMA TickMoves ==
  ASSUME SchedulesInv, NEW w \in Ticking, NEW t \in TickRow, S!Goes(w, t), t.on \subseteq tick[w].on,
         t.on # {} => t.now = tick[w].now,
         UNCHANGED <<schedule, fired, rearmed, clock, edits>>,
         heartbeat' \in [Ticking -> Nat \cup {S!Never}], lastError' \in [Ticking -> BOOLEAN],
         deaths' \in 0 .. MaxDeaths, faults' \in 0 .. MaxFaults
  PROVE  SchedulesInv'
<1>1. /\ tick' \in [Ticking -> TickRow] /\ tick'[w] = t
      /\ \A v \in Ticking \ {w} : tick'[v] = tick[v]
  BY DEF S!Goes, SchedulesInv, S!TypeOK, TickRow
<1>2. S!TypeOK'
  BY <1>1 DEF SchedulesInv, S!TypeOK, TickRow
<1>3. \A v \in Ticking : tick'[v].on \subseteq tick[v].on /\ (tick'[v].on # {} => tick'[v].now = tick[v].now)
  BY <1>1
<1>4. Locked' /\ ClaimsStand'
  BY <1>3 DEF SchedulesInv, Locked, ClaimsStand, S!Due
<1> QED
  BY <1>2, <1>4 DEF SchedulesInv, Paced, Unborn, S!NothingConsumed

\* Steps that change a row nobody holds.
LEMMA RowMoves ==
  ASSUME SchedulesInv, NEW s \in Schedules, NEW row \in ScheduleRow, S!Unlocked(s),
         schedule' = [schedule EXCEPT ![s] = row],
         row.last = schedule[s].last, ~row.exists => ~schedule[s].exists,
         \/ row.next = schedule[s].next
         \/ row.last = S!Never
         \/ s \in rearmed',
         rearmed \subseteq rearmed', rearmed' \subseteq Schedules, UNCHANGED <<clock, heartbeat, lastError, fired, deaths, faults>>,
         edits' \in 0 .. MaxEdits,
         tick' \in [Ticking -> TickRow],
         \A v \in Ticking : tick'[v].on = tick[v].on /\ tick'[v].now = tick[v].now
  PROVE  SchedulesInv'
<1>1. /\ schedule' \in [Schedules -> ScheduleRow] /\ schedule'[s] = row
      /\ \A o \in Schedules \ {s} : schedule'[o] = schedule[o]
  BY DEF SchedulesInv, S!TypeOK, ScheduleRow
<1>2. S!TypeOK'
  BY <1>1 DEF SchedulesInv, S!TypeOK, TickRow, ScheduleRow
<1>3. Locked'
  BY DEF SchedulesInv, Locked
<1>4. ClaimsStand'
  BY <1>1 DEF SchedulesInv, ClaimsStand, S!Due, S!Unlocked, S!TypeOK
<1>5. Paced' /\ Unborn' /\ S!NothingConsumed'
  BY <1>1 DEF SchedulesInv, Paced, Unborn, S!NothingConsumed
<1> QED
  BY <1>2, <1>3, <1>4, <1>5 DEF SchedulesInv

LEMMA ClaimStep == ASSUME SchedulesInv, NEW w \in Ticking, S!ClaimDue(w) PROVE SchedulesInv'
<1>1. PICK s \in S!Candidates(w) :
        S!Goes(w, [tick[w] EXCEPT !.at = "fire", !.on = {s}, !.handled = @ \cup {s}, !.left = @ - 1])
  BY DEF S!ClaimDue
<1> DEFINE t == [tick[w] EXCEPT !.at = "fire", !.on = {s}, !.handled = @ \cup {s}, !.left = @ - 1]
<1>2. s \in Schedules /\ S!Due(s, tick[w].now) /\ S!Unlocked(s)
  BY DEF S!Candidates
<1>3. t.left \in 0 .. Limit
  BY LimitsNatural DEF S!ClaimDue, SchedulesInv, S!TypeOK
<1>4. t \in TickRow /\ t.on = {s} /\ t.now = tick[w].now
  BY <1>2, <1>3 DEF SchedulesInv, S!TypeOK, TickRow
<1> HIDE DEF t
<1>5. /\ tick' \in [Ticking -> TickRow] /\ tick'[w] = t
      /\ \A v \in Ticking \ {w} : tick'[v] = tick[v]
  BY <1>1, <1>4 DEF S!Goes, SchedulesInv, S!TypeOK, TickRow, t
<1>6. S!TypeOK'
  BY <1>5 DEF S!ClaimDue, SchedulesInv, S!TypeOK, TickRow, S!bounds
<1>7. Locked' /\ ClaimsStand'
  BY <1>2, <1>4, <1>5 DEF S!ClaimDue, SchedulesInv, Locked, ClaimsStand, S!Due, S!Unlocked
<1> QED
  BY <1>6, <1>7 DEF S!ClaimDue, SchedulesInv, Paced, Unborn, S!NothingConsumed

LEMMA CommitStep == ASSUME SchedulesInv, NEW w \in Ticking, S!CommitFire(w) PROVE SchedulesInv'
<1>1. PICK s \in tick[w].on :
        /\ schedule' = [schedule EXCEPT ![s] = S!Advanced(w, s)]
        /\ fired' = fired \cup {<<s, tick[w].now>>}
        /\ rearmed' = rearmed \ {s}
  BY DEF S!CommitFire
<1>2. s \in Schedules /\ tick[w].now \in Nat /\ Interval[s] \in Nat
  BY LimitsNatural DEF SchedulesInv, S!TypeOK
<1> DEFINE row == S!Advanced(w, s)
<1>3. /\ row \in ScheduleRow /\ row.last = tick[w].now /\ row.next = tick[w].now + Interval[s]
      /\ row.exists = schedule[s].exists
  <2>1. schedule[s] \in ScheduleRow /\ tick[w].now + Interval[s] \in Nat
    BY <1>2 DEF SchedulesInv, S!TypeOK, ScheduleRow
  <2>2. row = [schedule[s] EXCEPT !.last = tick[w].now, !.next = tick[w].now + Interval[s]]
    BY DEF S!Advanced
  <2> QED
    BY <1>2, <2>1, <2>2 DEF ScheduleRow
<1>4. row.exists
  BY <1>3 DEF SchedulesInv, ClaimsStand, S!Due
<1> HIDE DEF row
<1>5. /\ schedule' \in [Schedules -> ScheduleRow] /\ schedule'[s] = row
      /\ \A o \in Schedules \ {s} : schedule'[o] = schedule[o]
  BY <1>1, <1>2, <1>3 DEF SchedulesInv, S!TypeOK, ScheduleRow, row
<1> DEFINE t == [tick[w] EXCEPT !.at = "loop", !.on = {}]
<1>6. t \in TickRow /\ t.on = {}
  BY DEF SchedulesInv, S!TypeOK, TickRow
<1> HIDE DEF t
<1>7. /\ tick' \in [Ticking -> TickRow] /\ tick'[w] = t
      /\ \A v \in Ticking \ {w} : tick'[v] = tick[v]
  BY <1>6 DEF S!CommitFire, S!Goes, SchedulesInv, S!TypeOK, TickRow, t
<1>8. S!TypeOK'
  <2>1. fired' \subseteq Schedules \X Nat
    BY <1>1, <1>2 DEF SchedulesInv, S!TypeOK
  <2>2. rearmed' \subseteq Schedules
    BY <1>1 DEF SchedulesInv, S!TypeOK
  <2> QED
    BY <1>5, <1>7, <2>1, <2>2 DEF S!CommitFire, SchedulesInv, S!TypeOK, TickRow, ScheduleRow, S!bounds
<1>9. Locked'
  BY <1>6, <1>7 DEF SchedulesInv, Locked
<1>10. ClaimsStand'
  <2>1. \A v \in Ticking \ {w} : s \notin tick[v].on
    BY <1>2 DEF SchedulesInv, Locked
  <2> QED
    BY <1>5, <1>6, <1>7, <2>1 DEF SchedulesInv, ClaimsStand, S!Due, S!TypeOK
<1>11. Paced'
  BY <1>1, <1>2, <1>3, <1>5 DEF SchedulesInv, Paced
<1>12. Unborn' /\ S!NothingConsumed'
  BY <1>1, <1>3, <1>4, <1>5 DEF SchedulesInv, Unborn, S!NothingConsumed
<1> QED
  BY <1>8, <1>9, <1>10, <1>11, <1>12 DEF SchedulesInv

LEMMA SchedulesStep == ASSUME SchedulesInv, [S!Next]_(S!vars) PROVE SchedulesInv'
<1> USE LimitsNatural
<1>0. S!Off \in TickRow /\ S!Off.on = {}
  BY DEF S!Off, TickRow
<1>1. CASE UNCHANGED S!vars
  BY <1>1 DEF S!vars, S!bounds, SchedulesInv, S!TypeOK, Locked, ClaimsStand, Paced, Unborn,
     S!NothingConsumed, S!Due
<1>2. ASSUME NEW w \in Ticking, S!Start(w) PROVE SchedulesInv'
  <2> DEFINE t == [S!Off EXCEPT !.at = "boot", !.todo = Schedules]
  <2>1. t \in TickRow /\ t.on = {}
    BY <1>0 DEF TickRow
  <2>2. S!Goes(w, t)
    BY <1>2 DEF S!Start
  <2> HIDE DEF t
  <2> QED
    BY <1>2, <2>1, <2>2, TickMoves DEF S!Start, S!bounds, SchedulesInv, S!TypeOK
<1>3. ASSUME NEW w \in Ticking, S!EnsureSchedule(w) PROVE SchedulesInv'
  <2>1. PICK s \in tick[w].todo :
          /\ S!Unlocked(s) /\ schedule' = [schedule EXCEPT ![s] = S!Ensured(s)]
          /\ S!Goes(w, [tick[w] EXCEPT !.todo = @ \ {s},
                       !.at = IF tick[w].todo = {s} THEN "ready" ELSE "boot"])
    BY <1>3 DEF S!EnsureSchedule
  <2>2. s \in Schedules
    BY DEF SchedulesInv, S!TypeOK
  <2>3. /\ S!Ensured(s) \in ScheduleRow /\ S!Ensured(s).exists
        /\ S!Ensured(s).last = schedule[s].last
        /\ S!Ensured(s).next = schedule[s].next \/ S!Ensured(s).last = S!Never
    <3>1. CASE schedule[s].exists
      BY <2>2, <3>1 DEF S!Ensured, SchedulesInv, S!TypeOK, ScheduleRow
    <3>2. CASE ~schedule[s].exists
      <4>1. S!Ensured(s) = [exists |-> TRUE, on |-> TRUE, next |-> clock, last |-> S!Never]
        BY <3>2 DEF S!Ensured, S!NoRow
      <4>2. schedule[s].last = S!Never /\ clock \in Nat
        BY <2>2, <3>2 DEF SchedulesInv, Unborn, S!TypeOK
      <4> QED
        BY <4>1, <4>2 DEF ScheduleRow
    <3> QED
      BY <3>1, <3>2
  <2> DEFINE t == [tick[w] EXCEPT !.todo = @ \ {s}, !.at = IF tick[w].todo = {s} THEN "ready" ELSE "boot"]
  <2>4. t \in TickRow /\ t.on = tick[w].on /\ t.now = tick[w].now
    BY DEF SchedulesInv, S!TypeOK, TickRow
  <2>5. S!Goes(w, t)
    BY <2>1
  <2> HIDE DEF t
  <2>6. /\ tick' \in [Ticking -> TickRow]
        /\ \A v \in Ticking : tick'[v].on = tick[v].on /\ tick'[v].now = tick[v].now
    BY <2>4, <2>5 DEF S!Goes, SchedulesInv, S!TypeOK, TickRow
  <2> QED
    BY <1>3, <2>1, <2>2, <2>3, <2>6, RowMoves DEF S!EnsureSchedule, S!bounds, SchedulesInv, S!TypeOK
<1>4. ASSUME NEW w \in Ticking, S!BeginTick(w) PROVE SchedulesInv'
  <2> DEFINE t == [S!Off EXCEPT !.at = "loop", !.now = clock, !.left = Limit]
  <2>1. t \in TickRow /\ t.on = {}
    <3>1. clock \in Nat /\ Limit \in 0 .. Limit
      BY DEF SchedulesInv, S!TypeOK
    <3> QED
      BY <1>0, <3>1 DEF TickRow
  <2>2. S!Goes(w, t)
    BY <1>4 DEF S!BeginTick
  <2> HIDE DEF t
  <2> QED
    BY <1>4, <2>1, <2>2, TickMoves DEF S!BeginTick, S!bounds, SchedulesInv, S!TypeOK
<1>5. ASSUME NEW w \in Ticking, S!FailFire(w) PROVE SchedulesInv'
  <2> DEFINE t == [tick[w] EXCEPT !.at = "loop", !.on = {}]
  <2>1. t \in TickRow /\ t.on = {}
    BY DEF TickRow, SchedulesInv, S!TypeOK
  <2>2. S!Goes(w, t) /\ faults' \in 0 .. MaxFaults
    BY <1>5 DEF S!FailFire, SchedulesInv, S!TypeOK
  <2> HIDE DEF t
  <2> QED
    BY <1>5, <2>1, <2>2, TickMoves DEF S!FailFire, SchedulesInv, S!TypeOK
<1>6. [S!Off EXCEPT !.at = "ready"] \in TickRow /\ [S!Off EXCEPT !.at = "ready"].on = {}
  BY <1>0 DEF TickRow
<1>7. ASSUME NEW w \in Ticking, S!EndTick(w) PROVE SchedulesInv'
  <2>1. heartbeat' \in [Ticking -> Nat \cup {S!Never}] /\ lastError' \in [Ticking -> BOOLEAN]
    BY <1>7 DEF S!EndTick, SchedulesInv, S!TypeOK
  <2> QED
    BY <1>6, <1>7, <2>1, TickMoves DEF S!EndTick, S!bounds, SchedulesInv, S!TypeOK
<1>8. ASSUME NEW w \in Ticking, S!TickFails(w) PROVE SchedulesInv'
  <2>1. heartbeat' \in [Ticking -> Nat \cup {S!Never}] /\ lastError' \in [Ticking -> BOOLEAN]
    BY <1>8 DEF S!TickFails, SchedulesInv, S!TypeOK
  <2>2. faults' \in 0 .. MaxFaults
    BY <1>8 DEF S!TickFails, SchedulesInv, S!TypeOK
  <2> QED
    BY <1>6, <1>8, <2>1, <2>2, TickMoves DEF S!TickFails, SchedulesInv, S!TypeOK
<1>9. ASSUME NEW w \in Ticking, S!Crash(w) PROVE SchedulesInv'
  <2>1. deaths' \in 0 .. MaxDeaths
    BY <1>9 DEF S!Crash, SchedulesInv, S!TypeOK
  <2> QED
    BY <1>0, <1>9, <2>1, TickMoves DEF S!Crash, SchedulesInv, S!TypeOK
<1>10. ASSUME NEW w \in Ticking, S!PruneHeartbeats(w) PROVE SchedulesInv'
  <2>1. heartbeat' \in [Ticking -> Nat \cup {S!Never}]
    BY <1>10 DEF S!PruneHeartbeats, SchedulesInv, S!TypeOK
  <2> QED
    BY <1>10, <2>1 DEF S!PruneHeartbeats, S!bounds, SchedulesInv, S!TypeOK, Locked, ClaimsStand, Paced,
       Unborn, S!NothingConsumed, S!Due
<1>11. ASSUME NEW s \in Schedules, NEW on \in BOOLEAN, S!SetScheduleEnabled(s, on) PROVE SchedulesInv'
  <2> DEFINE row == IF on THEN [schedule[s] EXCEPT !.on = TRUE, !.next = clock + 1]
                    ELSE [schedule[s] EXCEPT !.on = FALSE]
  <2>1. schedule' = [schedule EXCEPT ![s] = row]
    BY <1>11 DEF S!SetScheduleEnabled
  <2>2. schedule[s] \in ScheduleRow /\ clock + 1 \in Nat
    BY DEF SchedulesInv, S!TypeOK, ScheduleRow
  <2>3. /\ row \in ScheduleRow /\ row.last = schedule[s].last /\ row.exists = schedule[s].exists
        /\ ~on => row.next = schedule[s].next
    BY <2>2 DEF ScheduleRow
  <2>4. rearmed \subseteq rearmed' /\ rearmed' \subseteq Schedules /\ (on => s \in rearmed')
    BY <1>11 DEF S!SetScheduleEnabled, SchedulesInv, S!TypeOK
  <2>5. edits' \in 0 .. MaxEdits
    BY <1>11 DEF S!SetScheduleEnabled, SchedulesInv, S!TypeOK
  <2>6. tick' \in [Ticking -> TickRow] /\ tick' = tick
    BY <1>11 DEF S!SetScheduleEnabled, SchedulesInv, S!TypeOK, TickRow
  <2> HIDE DEF row
  <2> QED
    BY <1>11, <2>1, <2>3, <2>4, <2>5, <2>6, RowMoves DEF S!SetScheduleEnabled
<1>12. CASE S!Elapse
  <2>1. clock' \in 0 .. MaxClock
    BY <1>12 DEF S!Elapse, SchedulesInv, S!TypeOK
  <2> QED
    BY <1>12, <2>1 DEF S!Elapse, S!bounds, SchedulesInv, S!TypeOK, Locked, ClaimsStand, Paced,
       Unborn, S!NothingConsumed, S!Due
<1> QED
  BY <1>1, <1>2, <1>3, <1>4, <1>5, <1>7, <1>8, <1>9, <1>10, <1>11, <1>12, ClaimStep, CommitStep
     DEF S!Next, S!WorkerStep

\* What a step of the schedules may do: fire no earlier than an interval after
\* the last time, start nothing that is off, and report no failure unseen.
Fires ==
  \A s \in Schedules :
    schedule'[s].last # schedule[s].last =>
      \/ schedule[s].last = S!Never \/ s \in rearmed
      \/ schedule'[s].last >= schedule[s].last + Interval[s]
Quiet ==
  \A s \in Schedules : ~schedule[s].on =>
    \A n \in 0 .. MaxClock : <<s, n>> \in fired' => <<s, n>> \in fired
Reports == \A w \in Ticking : lastError'[w] /\ ~lastError[w] => "error" \in S!Warnings'

LEMMA FiresStep == ASSUME SchedulesInv, [S!Next]_(S!vars) PROVE Fires
<1>1. CASE \E w \in Ticking : S!CommitFire(w)
  <2> PICK w \in Ticking : S!CommitFire(w)
    BY <1>1
  <2>1. PICK s \in tick[w].on : schedule' = [schedule EXCEPT ![s] = S!Advanced(w, s)]
    BY DEF S!CommitFire
  <2>2. s \in Schedules /\ schedule[s] \in ScheduleRow
    BY DEF SchedulesInv, S!TypeOK, ScheduleRow
  <2>3. /\ schedule'[s].last = tick[w].now
        /\ \A o \in Schedules \ {s} : schedule'[o] = schedule[o]
    BY <2>1, <2>2 DEF S!Advanced, SchedulesInv, S!TypeOK, ScheduleRow
  <2>4. schedule[s].next <= tick[w].now
    BY DEF SchedulesInv, ClaimsStand, S!Due
  <2>5. \/ schedule[s].last = S!Never \/ s \in rearmed
        \/ schedule[s].next >= schedule[s].last + Interval[s]
    BY <2>2 DEF SchedulesInv, Paced
  <2>6. /\ schedule[s].next \in Nat /\ tick[w].now \in Nat /\ Interval[s] \in Nat
        /\ schedule[s].last = S!Never \/ schedule[s].last \in Nat
    BY <2>2, LimitsNatural DEF SchedulesInv, S!TypeOK, ScheduleRow
  <2>7. \/ schedule[s].last = S!Never \/ s \in rearmed
        \/ schedule'[s].last >= schedule[s].last + Interval[s]
    BY <2>3, <2>4, <2>5, <2>6
  <2> QED
    BY <2>3, <2>7 DEF Fires
<1>2. CASE \E w \in Ticking : S!EnsureSchedule(w)
  BY <1>2 DEF S!EnsureSchedule, S!Ensured, S!NoRow, Fires, SchedulesInv, S!TypeOK, Unborn
<1>3. CASE \E s \in Schedules, on \in BOOLEAN : S!SetScheduleEnabled(s, on)
  <2>1. PICK s \in Schedules, on \in BOOLEAN : S!SetScheduleEnabled(s, on)
    BY <1>3
  <2>2. schedule[s] \in ScheduleRow
    BY DEF SchedulesInv, S!TypeOK, ScheduleRow
  <2>3. schedule'[s].last = schedule[s].last /\ \A o \in Schedules \ {s} : schedule'[o] = schedule[o]
    BY <2>1, <2>2 DEF S!SetScheduleEnabled, SchedulesInv, S!TypeOK, ScheduleRow
  <2> QED
    BY <2>3 DEF Fires
<1>4. CASE UNCHANGED schedule
  BY <1>4 DEF Fires
<1> QED
  BY <1>1, <1>2, <1>3, <1>4
     DEF S!Next, S!WorkerStep, S!vars, S!Start, S!BeginTick, S!ClaimDue, S!FailFire, S!EndTick, S!TickFails,
         S!Crash, S!PruneHeartbeats, S!Elapse

LEMMA QuietStep == ASSUME SchedulesInv, [S!Next]_(S!vars) PROVE Quiet
<1>1. CASE \E w \in Ticking : S!CommitFire(w)
  <2> PICK w \in Ticking : S!CommitFire(w)
    BY <1>1
  <2>1. PICK s \in tick[w].on : fired' = fired \cup {<<s, tick[w].now>>}
    BY DEF S!CommitFire
  <2>2. schedule[s].on
    BY DEF SchedulesInv, ClaimsStand, S!Due
  <2> QED
    BY <2>1, <2>2 DEF Quiet
<1>2. CASE UNCHANGED fired
  BY <1>2 DEF Quiet
<1> QED
  BY <1>1, <1>2
     DEF S!Next, S!WorkerStep, S!vars, S!Start, S!BeginTick, S!ClaimDue, S!FailFire, S!EndTick, S!TickFails,
         S!Crash, S!PruneHeartbeats, S!Elapse, S!EnsureSchedule, S!SetScheduleEnabled

LEMMA ReportsStep == ASSUME SchedulesInv, [S!Next]_(S!vars) PROVE Reports
<1>1. ASSUME NEW w \in Ticking, S!TickFails(w) PROVE Reports
  <2>1. heartbeat'[w] = clock /\ lastError'[w] /\ clock' = clock
    BY <1>1 DEF S!TickFails, SchedulesInv, S!TypeOK
  <2>2. ~S!Stalled(w)'
    BY <2>1, LimitsNatural DEF S!Stalled, S!Never, SchedulesInv, S!TypeOK
  <2>3. "error" \in S!Warnings'
    BY <2>1, <2>2 DEF S!Warnings
  <2> QED
    BY <2>3 DEF Reports
<1>2. ASSUME NEW w \in Ticking, S!EndTick(w) PROVE Reports
  BY <1>2 DEF S!EndTick, Reports, SchedulesInv, S!TypeOK
<1>3. CASE UNCHANGED lastError
  BY <1>3 DEF Reports
<1> QED
  BY <1>1, <1>2, <1>3
     DEF S!Next, S!WorkerStep, S!vars, S!Start, S!BeginTick, S!ClaimDue, S!FailFire, S!CommitFire,
         S!Crash, S!PruneHeartbeats, S!Elapse, S!EnsureSchedule, S!SetScheduleEnabled

-----------------------------------------------------------------------------
(***************************************************************************)
(* Delivery.  What a run claimed waits and is nobody else's; what waits    *)
(* was not delivered; and what a run has yet to look at or claimed reaches *)
(* down to the oldest message it saw, so that it leaves none behind.  The  *)
(* recursion of Without has to be shown to have a solution first.          *)
(***************************************************************************)

\* The first n messages of q without those of Y, and the recursion that makes them.
Keeps(g, q, Y, n) ==
  g = [i \in 0 .. n |->
        IF i = 0 THEN << >> ELSE IF q[i] \in Y THEN g[i - 1] ELSE Append(g[i - 1], q[i])]

LEMMA KeepsExists ==
  ASSUME NEW q, NEW Y, NEW n \in Nat
  PROVE  \E g : Keeps(g, q, Y, n)
<1> DEFINE Bad == {k \in Nat : ~ \E g : Keeps(g, q, Y, k)}
<1>1. 0 \notin Bad
  <2>1. Keeps([i \in 0 .. 0 |-> << >>], q, Y, 0)
    BY DEF Keeps
  <2> QED
    BY <2>1
<1>2. ASSUME NEW k \in Nat, k \notin Bad
      PROVE  k + 1 \notin Bad
  <2>1. PICK g : Keeps(g, q, Y, k)
    BY <1>2
  <2> DEFINE h == [i \in 0 .. k + 1 |->
               IF i = 0 THEN << >> ELSE IF q[i] \in Y THEN g[i - 1] ELSE Append(g[i - 1], q[i])]
  <2>2. \A i \in 0 .. k : h[i] = g[i]
    <3> TAKE i \in 0 .. k
    <3>1. i \in 0 .. k + 1
      OBVIOUS
    <3>2. h[i] = IF i = 0 THEN << >> ELSE IF q[i] \in Y THEN g[i - 1] ELSE Append(g[i - 1], q[i])
      BY <3>1
    <3>3. g[i] = IF i = 0 THEN << >> ELSE IF q[i] \in Y THEN g[i - 1] ELSE Append(g[i - 1], q[i])
      BY <2>1, Zenon DEF Keeps
    <3> QED
      BY <3>2, <3>3, Zenon
  <2>3. \A i \in 0 .. k + 1 : i # 0 => i - 1 \in 0 .. k
    OBVIOUS
  <2>4. Keeps(h, q, Y, k + 1)
    BY <2>2, <2>3 DEF Keeps
  <2> QED
    BY <2>4
<1> SUFFICES ASSUME Bad # {} PROVE FALSE
  OBVIOUS
<1>3. PICK k \in Bad : \A m \in Bad : k <= m
  BY LeastNatural
<1>4. k \in Nat /\ k # 0
  BY <1>1
<1>5. k - 1 \in Nat /\ (k - 1) + 1 = k /\ ~(k <= k - 1)
  BY <1>4
<1> HIDE DEF Bad
<1> QED
  BY <1>2, <1>3, <1>5

\* r holds the first n messages of q that are not in Y, in their order: f tells where.
Drawn(r, f, q, Y, n) ==
  /\ r \in Seq(Messages) /\ f \in [1 .. Len(r) -> 1 .. n]
  /\ \A k \in 1 .. Len(r) : r[k] = q[f[k]] /\ q[f[k]] \notin Y
  /\ \A j, k \in 1 .. Len(r) : j < k => f[j] < f[k]
  /\ \A i \in 1 .. n : q[i] \notin Y => \E k \in 1 .. Len(r) : f[k] = i

LEMMA DrawnMore ==
  ASSUME NEW q \in Seq(Messages), NEW Y, NEW n \in Nat, n + 1 <= Len(q),
         NEW r, NEW f, Drawn(r, f, q, Y, n)
  PROVE  \E s, g : Drawn(s, g, q, Y, n + 1)
                   /\ s = IF q[n + 1] \in Y THEN r ELSE Append(r, q[n + 1])
<1>1. CASE q[n + 1] \in Y
  <2>1. Drawn(r, f, q, Y, n + 1)
    BY <1>1 DEF Drawn
  <2> QED
    BY <1>1, <2>1
<1>2. CASE q[n + 1] \notin Y
  <2> DEFINE s == Append(r, q[n + 1])
             g == [k \in 1 .. Len(r) + 1 |-> IF k = Len(r) + 1 THEN n + 1 ELSE f[k]]
  <2>1. /\ r \in Seq(Messages) /\ q[n + 1] \in Messages /\ Len(r) \in Nat
        /\ f \in [1 .. Len(r) -> 1 .. n]
    BY DEF Drawn
  <2>2. /\ s \in Seq(Messages) /\ Len(s) = Len(r) + 1 /\ s[Len(r) + 1] = q[n + 1]
        /\ \A k \in 1 .. Len(r) : s[k] = r[k]
    BY <2>1
  <2> HIDE DEF s
  <2>3. /\ g \in [1 .. Len(r) + 1 -> 1 .. n + 1] /\ g[Len(r) + 1] = n + 1
        /\ \A k \in 1 .. Len(r) : g[k] = f[k]
    BY <2>1
  <2> HIDE DEF g
  <2>4. \A k \in 1 .. Len(s) : s[k] = q[g[k]] /\ q[g[k]] \notin Y
    BY <1>2, <2>1, <2>2, <2>3 DEF Drawn
  <2>5. \A j, k \in 1 .. Len(s) : j < k => g[j] < g[k]
    <3> TAKE j, k \in 1 .. Len(s)
    <3> HAVE j < k
    <3>1. CASE k = Len(r) + 1
      <4>1. j \in 1 .. Len(r)
        BY <2>1, <2>2, <3>1
      <4>2. g[j] \in 1 .. n
        BY <2>1, <2>3, <4>1
      <4> QED
        BY <2>3, <3>1, <4>2
    <3>2. CASE k # Len(r) + 1
      <4>1. j \in 1 .. Len(r) /\ k \in 1 .. Len(r)
        BY <2>1, <2>2, <3>2
      <4> QED
        BY <2>3, <4>1 DEF Drawn
    <3> QED
      BY <3>1, <3>2
  <2>6. \A i \in 1 .. n + 1 : q[i] \notin Y => \E k \in 1 .. Len(s) : g[k] = i
    <3> TAKE i \in 1 .. n + 1
    <3> HAVE q[i] \notin Y
    <3>1. CASE i = n + 1
      BY <2>1, <2>2, <2>3, <3>1
    <3>2. CASE i # n + 1
      <4>1. i \in 1 .. n
        BY <3>2
      <4>2. PICK k \in 1 .. Len(r) : f[k] = i
        BY <4>1 DEF Drawn
      <4>3. k \in 1 .. Len(s) /\ g[k] = i
        BY <2>1, <2>2, <2>3, <4>2
      <4> QED
        BY <4>3
    <3> QED
      BY <3>1, <3>2
  <2>7. Drawn(s, g, q, Y, n + 1)
    BY <2>2, <2>3, <2>4, <2>5, <2>6 DEF Drawn
  <2> QED
    BY <1>2, <2>7 DEF s
<1> QED
  BY <1>1, <1>2

LEMMA WithoutIs ==
  ASSUME NEW q \in Seq(Messages), NEW Y
  PROVE  \E f : Drawn(M!Without(q, Y), f, q, Y, Len(q))
<1> DEFINE g == CHOOSE g : Keeps(g, q, Y, Len(q))
           Bad == {n \in Nat : n <= Len(q) /\ ~ \E f : Drawn(g[n], f, q, Y, n)}
<1>1. Len(q) \in Nat
  OBVIOUS
<1>2. Keeps(g, q, Y, Len(q))
  BY <1>1, KeepsExists
<1>3. M!Without(q, Y) = g[Len(q)]
  BY DEF M!Without, Keeps
<1> HIDE DEF g
<1>4. 0 \notin Bad
  <2>1. g[0] = << >>
    BY <1>1, <1>2 DEF Keeps
  <2>2. Drawn(<< >>, [k \in 1 .. 0 |-> 1], q, Y, 0)
    BY DEF Drawn
  <2> QED
    BY <2>1, <2>2
<1>5. ASSUME NEW n \in Nat, n \notin Bad, n + 1 <= Len(q)
      PROVE  n + 1 \notin Bad
  <2>1. PICK f : Drawn(g[n], f, q, Y, n)
    BY <1>1, <1>5
  <2>2. g[n + 1] = IF q[n + 1] \in Y THEN g[n] ELSE Append(g[n], q[n + 1])
    <3>1. n + 1 \in 0 .. Len(q) /\ n + 1 # 0 /\ (n + 1) - 1 = n
      BY <1>1, <1>5
    <3> QED
      BY <1>2, <3>1 DEF Keeps
  <2>3. PICK s, h : /\ Drawn(s, h, q, Y, n + 1)
                    /\ s = IF q[n + 1] \in Y THEN g[n] ELSE Append(g[n], q[n + 1])
    <3> DEFINE r == g[n]
    <3>1. Drawn(r, f, q, Y, n)
      BY <2>1
    <3> HIDE DEF r
    <3>2. \E s, h : Drawn(s, h, q, Y, n + 1) /\ s = IF q[n + 1] \in Y THEN r ELSE Append(r, q[n + 1])
      BY <1>5, <3>1, DrawnMore
    <3> QED
      BY <3>2 DEF r
  <2>4. Drawn(g[n + 1], h, q, Y, n + 1)
    BY <2>2, <2>3, Zenon
  <2> QED
    BY <2>4
<1>6. Bad = {}
  <2> SUFFICES ASSUME Bad # {} PROVE FALSE
    OBVIOUS
  <2>1. PICK k \in Bad : \A m \in Bad : k <= m
    BY LeastNatural
  <2>2. k \in Nat /\ k # 0 /\ k <= Len(q)
    BY <1>4
  <2>3. k - 1 \in Nat /\ (k - 1) + 1 = k /\ ~(k <= k - 1)
    BY <2>2
  <2> HIDE DEF Bad
  <2> QED
    BY <1>5, <2>1, <2>2, <2>3
<1> QED
  BY <1>1, <1>3, <1>6

\* What is left: exactly the rest, each once, in the order it had.
Rest(r, q, Y) ==
  /\ r \in Seq(Messages)
  /\ \A m : (\E k \in 1 .. Len(r) : r[k] = m) <=> (m \notin Y /\ \E i \in 1 .. Len(q) : q[i] = m)
  /\ \A j, k \in 1 .. Len(r) : j < k => \E i, l \in 1 .. Len(q) : i < l /\ q[i] = r[j] /\ q[l] = r[k]

LEMMA WithoutRest ==
  ASSUME NEW q \in Seq(Messages), NEW Y
  PROVE  Rest(M!Without(q, Y), q, Y)
<1> DEFINE r == M!Without(q, Y)
<1>1. PICK f : Drawn(r, f, q, Y, Len(q))
  BY WithoutIs
<1> HIDE DEF r
<1>2. \A m : (\E k \in 1 .. Len(r) : r[k] = m) <=> (m \notin Y /\ \E i \in 1 .. Len(q) : q[i] = m)
  <2> TAKE m
  <2>1. ASSUME NEW k \in 1 .. Len(r), r[k] = m
        PROVE  m \notin Y /\ \E i \in 1 .. Len(q) : q[i] = m
    <3>1. f[k] \in 1 .. Len(q) /\ r[k] = q[f[k]] /\ q[f[k]] \notin Y
      BY <1>1 DEF Drawn
    <3> QED
      BY <2>1, <3>1
  <2>2. ASSUME m \notin Y, NEW i \in 1 .. Len(q), q[i] = m
        PROVE  \E k \in 1 .. Len(r) : r[k] = m
    <3>1. PICK k \in 1 .. Len(r) : f[k] = i
      BY <1>1, <2>2 DEF Drawn
    <3>2. r[k] = q[f[k]]
      BY <1>1 DEF Drawn
    <3> QED
      BY <2>2, <3>1, <3>2
  <2> QED
    BY <2>1, <2>2
<1>3. ASSUME NEW j \in 1 .. Len(r), NEW k \in 1 .. Len(r), j < k
      PROVE  \E i, l \in 1 .. Len(q) : i < l /\ q[i] = r[j] /\ q[l] = r[k]
  <2>1. f[j] \in 1 .. Len(q) /\ f[k] \in 1 .. Len(q) /\ f[j] < f[k] /\ q[f[j]] = r[j] /\ q[f[k]] = r[k]
    BY <1>1, <1>3 DEF Drawn
  <2> QED
    BY <2>1
<1> QED
  BY <1>1, <1>2, <1>3 DEF Rest, Drawn, r

LEMMA Joined ==
  ASSUME NEW X, NEW x \in Seq(X), NEW y \in Seq(X)
  PROVE  x \o y \in Seq(X) /\ Len(x \o y) = Len(x) + Len(y)
OBVIOUS

\* A message put between the others.
LEMMA InsertedIs ==
  ASSUME NEW q \in Seq(Messages), NEW i \in 1 .. Len(q) + 1, NEW m \in Messages
  PROVE  LET r == M!InsertAt(q, i, m)
         IN  /\ r \in Seq(Messages) /\ Len(r) = Len(q) + 1
             /\ \A k \in 1 .. Len(r) : r[k] = IF k < i THEN q[k] ELSE IF k = i THEN m ELSE q[k - 1]
<1> DEFINE a == SubSeq(q, 1, i - 1)
           b == SubSeq(q, i, Len(q))
<1>0. Len(q) \in Nat /\ i \in Nat
  OBVIOUS
<1>1. a \in Seq(Messages) /\ Len(a) = i - 1 /\ \A k \in 1 .. i - 1 : a[k] = q[k]
  OBVIOUS
<1>2. b \in Seq(Messages) /\ Len(b) = Len(q) - i + 1 /\ \A k \in 1 .. Len(q) - i + 1 : b[k] = q[i + k - 1]
  OBVIOUS
<1>3. M!InsertAt(q, i, m) = a \o <<m>> \o b
  BY DEF M!InsertAt
<1> HIDE DEF a, b
<1> DEFINE c == a \o <<m>>
<1>4. c \in Seq(Messages) /\ Len(c) = i /\ \A k \in 1 .. i : c[k] = IF k < i THEN q[k] ELSE m
  BY <1>1
<1> HIDE DEF c
<1>5. c \o b \in Seq(Messages) /\ Len(c \o b) = Len(q) + 1
  <2>1. c \o b \in Seq(Messages) /\ Len(c \o b) = Len(c) + Len(b)
    BY <1>2, <1>4, Joined
  <2> QED
    BY <1>0, <1>2, <1>4, <2>1
<1>6. \A k \in 1 .. Len(q) + 1 : (c \o b)[k] = IF k < i THEN q[k] ELSE IF k = i THEN m ELSE q[k - 1]
  <2> TAKE k \in 1 .. Len(q) + 1
  <2>1. CASE k <= i
    BY <1>2, <1>4, <2>1
  <2>2. CASE k > i
    <3>1. k - i \in 1 .. Len(q) - i + 1 /\ i + (k - i) - 1 = k - 1
      BY <2>2
    <3>2. (c \o b)[k] = b[k - i]
      BY <1>2, <1>4, <2>2
    <3> QED
      BY <1>2, <2>2, <3>1, <3>2
  <2>3. k <= i \/ k > i
    BY <1>0
  <2> QED
    BY <2>1, <2>2, <2>3
<1> QED
  BY <1>3, <1>5, <1>6 DEF c

-----------------------------------------------------------------------------
\* What a run still has to look at and what it claimed.
Taken(w) == M!ToSet(dispatch[w].todo) \cup dispatch[w].claimed

DispatchRow ==
  [at : {"idle", "claim"}, todo : Seq(Messages), claimed : SUBSET Messages, saw : SUBSET Messages]

\* Runs know messages they saw; nobody rests with a claim.
RunsFit ==
  /\ dispatch \in [Ticking -> DispatchRow]
  /\ \A w \in Ticking : Taken(w) \subseteq dispatch[w].saw

\* What is claimed waits, and nobody else claimed it.
Claimed ==
  /\ \A w \in Ticking : dispatch[w].claimed \subseteq M!ToSet(queued)
  /\ \A v, w \in Ticking : v # w => dispatch[v].claimed \cap dispatch[w].claimed = {}

\* What waits was not delivered.
Undelivered == \A m \in M!ToSet(queued) : delivered[m] = 0

\* Nothing a run saw, older than what it takes, is left out.
Downwards ==
  \A w \in Ticking, m, n \in Messages :
    m \in Taken(w) /\ M!Older(n, m) /\ n \in dispatch[w].saw => n \in Taken(w)

OutboxInv ==
  /\ queued \in Seq(Messages) /\ M!IsInjective(queued) /\ delivered \in [Messages -> Nat]
  /\ RunsFit /\ Claimed /\ Undelivered /\ Downwards

LEMMA OutboxNatural == Batch \in Nat \ {0} /\ MaxFailures \in Nat
BY PlatformAssumption DEF M!OutboxAssumption

LEMMA OutboxInit == ASSUME M!Init PROVE OutboxInv
<1>1. queued = << >> /\ delivered = [m \in Messages |-> 0]
  BY DEF M!Init
<1>2. queued \in Seq(Messages) /\ M!IsInjective(queued) /\ delivered \in [Messages -> Nat]
      /\ M!ToSet(queued) = {}
  BY <1>1 DEF M!IsInjective, M!ToSet
<1>3. \A w \in Ticking : dispatch[w] = M!Resting
  BY DEF M!Init
<1>4. M!Resting \in DispatchRow /\ M!ToSet(M!Resting.todo) = {} /\ M!Resting.claimed = {}
  BY DEF M!Resting, DispatchRow, M!ToSet
<1>5. \A w \in Ticking : Taken(w) = {}
  BY <1>3, <1>4 DEF Taken
<1>6. RunsFit
  BY <1>3, <1>4, <1>5 DEF RunsFit, M!Init
<1> QED
  BY <1>2, <1>3, <1>4, <1>5, <1>6 DEF OutboxInv, Claimed, Undelivered, Downwards

\* One run changes, with what it takes, and the queue stays.
LEMMA RunMoves ==
  ASSUME OutboxInv, NEW w \in Ticking, NEW r \in DispatchRow,
         dispatch' = [dispatch EXCEPT ![w] = r], UNCHANGED <<queued, delivered>>,
         M!ToSet(r.todo) \cup r.claimed \subseteq r.saw, r.claimed \subseteq M!ToSet(queued),
         \A v \in Ticking \ {w} : r.claimed \cap dispatch[v].claimed = {},
         \A m, n \in Messages :
           m \in M!ToSet(r.todo) \cup r.claimed /\ M!Older(n, m) /\ n \in r.saw
             => n \in M!ToSet(r.todo) \cup r.claimed
  PROVE  OutboxInv'
<1>1. dispatch \in [Ticking -> DispatchRow] /\ RunsFit /\ Claimed /\ Undelivered /\ Downwards
  BY DEF OutboxInv, RunsFit
<1>2. /\ dispatch' \in [Ticking -> DispatchRow] /\ dispatch'[w] = r
      /\ \A v \in Ticking \ {w} : dispatch'[v] = dispatch[v]
  BY <1>1
<1>3. /\ Taken(w)' = M!ToSet(r.todo) \cup r.claimed
      /\ \A v \in Ticking \ {w} : Taken(v)' = Taken(v)
  BY <1>2 DEF Taken, M!ToSet
<1>4. RunsFit'
  BY <1>1, <1>2, <1>3 DEF RunsFit
<1>5. M!ToSet(queued)' = M!ToSet(queued)
  BY DEF M!ToSet
<1>6. Claimed'
  BY <1>1, <1>2, <1>5 DEF Claimed
<1>7. Undelivered'
  BY <1>1, <1>5 DEF Undelivered
<1>8. \A m, n \in Messages : M!Older(n, m)' <=> M!Older(n, m)
  BY DEF M!Older
<1>9. Downwards'
  <2> SUFFICES ASSUME NEW v \in Ticking, NEW m \in Messages, NEW n \in Messages,
                      m \in Taken(v)', M!Older(n, m), n \in dispatch'[v].saw
               PROVE  n \in Taken(v)'
    BY <1>8 DEF Downwards
  <2> QED
    BY <1>1, <1>2, <1>3 DEF Downwards
<1> QED
  BY <1>4, <1>6, <1>7, <1>9 DEF OutboxInv, M!IsInjective

LEMMA QueueStep ==
  ASSUME OutboxInv, NEW m \in Messages, M!queueMessage(m)
  PROVE  OutboxInv'
<1> DEFINE q == queued
<1>1. PICK i \in 1 .. Len(q) + 1 : queued' = M!InsertAt(q, i, m)
  BY DEF M!queueMessage
<1>2. /\ q \in Seq(Messages) /\ M!IsInjective(q) /\ m \notin M!ToSet(q) /\ ~M!Remembered(m)
      /\ delivered' = [delivered EXCEPT ![m] = 0] /\ UNCHANGED dispatch
      /\ delivered \in [Messages -> Nat] /\ RunsFit /\ Claimed /\ Undelivered /\ Downwards
  BY DEF M!queueMessage, OutboxInv
<1> HIDE DEF q
<1>3. Len(q) \in Nat /\ i \in Nat /\ 1 <= i /\ i <= Len(q) + 1
  BY <1>2
<1> DEFINE r == queued'
           back(k) == IF k < i THEN k ELSE k - 1
<1>4. /\ r \in Seq(Messages) /\ Len(r) = Len(q) + 1
      /\ \A k \in 1 .. Len(r) : r[k] = IF k < i THEN q[k] ELSE IF k = i THEN m ELSE q[k - 1]
  <2>1. r = M!InsertAt(q, i, m)
    BY <1>1
  <2> HIDE DEF r
  <2>2. LET x == M!InsertAt(q, i, m)
        IN  /\ x \in Seq(Messages) /\ Len(x) = Len(q) + 1
            /\ \A k \in 1 .. Len(x) : x[k] = IF k < i THEN q[k] ELSE IF k = i THEN m ELSE q[k - 1]
    BY <1>2, InsertedIs
  <2> HIDE DEF M!InsertAt
  <2> QED
    BY <2>1, <2>2
<1>5. DOMAIN q = 1 .. Len(q) /\ DOMAIN r = 1 .. Len(r)
  BY <1>2, <1>4
<1>6. \A k \in 1 .. Len(r) : k # i => back(k) \in 1 .. Len(q) /\ r[k] = q[back(k)]
  BY <1>3, <1>4
<1>7. \A k \in 1 .. Len(q) : q[k] # m
  BY <1>2, <1>5 DEF M!ToSet
<1>8. i \in 1 .. Len(r) /\ r[i] = m
  BY <1>3, <1>4
<1>9. \A j, k \in 1 .. Len(r) : j # i /\ k # i /\ j # k => back(j) # back(k)
  BY <1>3
<1>10. \A j, k \in 1 .. Len(r) : j # i /\ k # i /\ j < k => back(j) < back(k)
  BY <1>3
<1> HIDE DEF r, back
<1>11. M!IsInjective(r)
  <2> SUFFICES ASSUME NEW j \in 1 .. Len(r), NEW k \in 1 .. Len(r), j # k, r[j] = r[k]
               PROVE  FALSE
    BY <1>5 DEF M!IsInjective
  <2>1. CASE j = i \/ k = i
    BY <1>6, <1>7, <1>8, <2>1
  <2>2. CASE j # i /\ k # i
    <3>1. back(j) \in DOMAIN q /\ back(k) \in DOMAIN q /\ q[back(j)] = q[back(k)]
      BY <1>5, <1>6, <2>2
    <3> QED
      BY <1>2, <1>9, <2>2, <3>1 DEF M!IsInjective
  <2> QED
    BY <2>1, <2>2
<1>12. M!ToSet(r) = M!ToSet(q) \cup {m}
  <2>1. \A x \in M!ToSet(r) : x \in M!ToSet(q) \cup {m}
    <3> TAKE x \in M!ToSet(r)
    <3>1. PICK k \in 1 .. Len(r) : r[k] = x
      BY <1>5 DEF M!ToSet
    <3> QED
      BY <1>5, <1>6, <1>8, <3>1 DEF M!ToSet
  <2>2. \A x \in M!ToSet(q) : x \in M!ToSet(r)
    <3> TAKE x \in M!ToSet(q)
    <3>1. PICK k \in 1 .. Len(q) : q[k] = x
      BY <1>5 DEF M!ToSet
    <3>2. CASE k < i
      <4>1. k \in 1 .. Len(r) /\ r[k] = x
        BY <1>3, <1>4, <3>1, <3>2
      <4> QED
        BY <1>5, <4>1 DEF M!ToSet
    <3>3. CASE k >= i
      <4>1. k + 1 \in 1 .. Len(r) /\ r[k + 1] = x
        BY <1>3, <1>4, <3>1, <3>3
      <4> QED
        BY <1>5, <4>1 DEF M!ToSet
    <3> QED
      BY <1>3, <3>2, <3>3
  <2>3. m \in M!ToSet(r)
    BY <1>5, <1>8 DEF M!ToSet
  <2> QED
    BY <2>1, <2>2, <2>3
<1>13. M!ToSet(queued)' = M!ToSet(queued) \cup {m}
  BY <1>12 DEF r, q, M!ToSet
<1>14. \A w \in Ticking : Taken(w)' = Taken(w) /\ m \notin dispatch[w].saw
  BY <1>2 DEF Taken, M!ToSet, M!Remembered
<1>15. RunsFit'
  BY <1>2, <1>14 DEF RunsFit
<1>16. Claimed'
  BY <1>2, <1>13 DEF Claimed
<1>17. delivered' \in [Messages -> Nat] /\ Undelivered'
  BY <1>2, <1>13 DEF Undelivered
<1>18. \A n, x \in Messages : n # m /\ x # m /\ M!Older(n, x)' => M!Older(n, x)
  <2> SUFFICES ASSUME NEW n \in Messages, NEW x \in Messages, n # m, x # m, M!Older(n, x)'
               PROVE  M!Older(n, x)
    OBVIOUS
  <2>1. PICK j \in 1 .. Len(r), k \in 1 .. Len(r) : j < k /\ r[j] = n /\ r[k] = x
    BY <1>5 DEF M!Older, r
  <2>2. j # i /\ k # i
    BY <1>8, <2>1
  <2>3. back(j) \in DOMAIN q /\ back(k) \in DOMAIN q /\ back(j) < back(k) /\ q[back(j)] = n /\ q[back(k)] = x
    BY <1>5, <1>6, <1>10, <2>1, <2>2
  <2> QED
    BY <2>3 DEF M!Older, q
<1>19. Downwards'
  <2> SUFFICES ASSUME NEW w \in Ticking, NEW x \in Messages, NEW n \in Messages,
                      x \in Taken(w)', M!Older(n, x)', n \in dispatch'[w].saw
               PROVE  n \in Taken(w)'
    BY DEF Downwards
  <2>1. x # m /\ n # m
    BY <1>2, <1>14 DEF RunsFit
  <2> QED
    BY <1>2, <1>14, <1>18, <2>1 DEF Downwards
<1> QED
  BY <1>4, <1>11, <1>15, <1>16, <1>17, <1>19 DEF OutboxInv, r

LEMMA ReadStep ==
  ASSUME OutboxInv, NEW w \in Ticking, M!DispatchRead(w)
  PROVE  OutboxInv'
<1> DEFINE todo == M!Oldest(queued)
           r == [at |-> "claim", todo |-> todo, claimed |-> {}, saw |-> M!ToSet(queued)]
           b == IF Len(queued) < Batch THEN Len(queued) ELSE Batch
<1>1. queued \in Seq(Messages) /\ DOMAIN queued = 1 .. Len(queued) /\ Len(queued) \in Nat
  BY DEF OutboxInv
<1>2. b \in Nat /\ b <= Len(queued)
  BY <1>1, OutboxNatural
<1>3. todo = SubSeq(queued, 1, b)
  BY DEF M!Oldest
<1> HIDE DEF b
<1>4. todo \in Seq(Messages) /\ Len(todo) = b /\ \A k \in 1 .. b : todo[k] = queued[k]
  BY <1>1, <1>2, <1>3
<1> HIDE DEF todo
<1>5. M!ToSet(todo) = {queued[k] : k \in 1 .. b}
  BY <1>1, <1>2, <1>4 DEF M!ToSet
<1>6. M!ToSet(queued) = {queued[k] : k \in 1 .. Len(queued)}
  BY <1>1 DEF M!ToSet
<1>7. M!ToSet(todo) \subseteq M!ToSet(queued) /\ M!ToSet(queued) \subseteq Messages
  BY <1>1, <1>2, <1>5, <1>6
<1>8. r \in DispatchRow
  BY <1>4, <1>7 DEF DispatchRow
<1>9. ASSUME NEW m \in Messages, NEW n \in Messages, m \in M!ToSet(todo), M!Older(n, m)
      PROVE  n \in M!ToSet(todo)
  <2>1. PICK k \in 1 .. b : queued[k] = m
    BY <1>5, <1>9
  <2>2. PICK i \in 1 .. Len(queued), j \in 1 .. Len(queued) : i < j /\ queued[i] = n /\ queued[j] = m
    BY <1>1, <1>9 DEF M!Older
  <2>3. k \in 1 .. Len(queued)
    BY <1>1, <1>2
  <2>4. j = k
    BY <1>1, <2>1, <2>2, <2>3 DEF OutboxInv, M!IsInjective
  <2>5. i \in 1 .. b
    BY <1>1, <1>2, <2>2, <2>4
  <2> QED
    BY <1>5, <2>2, <2>5
<1>10. dispatch' = [dispatch EXCEPT ![w] = r] /\ UNCHANGED <<queued, delivered>>
  BY DEF M!DispatchRead, todo
<1>11. r.todo = todo /\ r.claimed = {} /\ r.saw = M!ToSet(queued)
  OBVIOUS
<1> HIDE DEF r
<1> QED
  BY <1>7, <1>8, <1>9, <1>10, <1>11, RunMoves

LEMMA ClaimMessageStep ==
  ASSUME OutboxInv, NEW w \in Ticking, M!DispatchClaim(w)
  PROVE  OutboxInv'
<1> DEFINE t == dispatch[w].todo
           m == Head(t)
           claimed == IF M!StillQueued(m) THEN dispatch[w].claimed \cup {m} ELSE dispatch[w].claimed
           r == [dispatch[w] EXCEPT !.todo = Tail(t), !.claimed = claimed]
<1>1. /\ dispatch[w] \in DispatchRow /\ dispatch \in [Ticking -> DispatchRow] /\ t \in Seq(Messages)
      /\ t # << >> /\ RunsFit /\ Claimed /\ Downwards
      /\ \A v \in Ticking \ {w} : m \notin dispatch[v].claimed
      /\ UNCHANGED <<queued, delivered>>
  BY DEF M!DispatchClaim, OutboxInv, RunsFit, DispatchRow
<1>2. dispatch' = [dispatch EXCEPT ![w] = r]
  BY <1>1 DEF M!DispatchClaim, DispatchRow
<1>3. m \in Messages /\ Tail(t) \in Seq(Messages) /\ M!ToSet(t) = {m} \cup M!ToSet(Tail(t))
  <2>1. Len(t) \in Nat /\ Len(t) # 0 /\ m = t[1] /\ m \in Messages /\ Tail(t) \in Seq(Messages)
        /\ Len(Tail(t)) = Len(t) - 1 /\ \A k \in 1 .. Len(t) - 1 : Tail(t)[k] = t[k + 1]
    BY <1>1
  <2>2. DOMAIN t = 1 .. Len(t) /\ DOMAIN Tail(t) = 1 .. Len(t) - 1
    BY <1>1, <2>1
  <2> DEFINE u == Tail(t)
  <2>3. m \in Messages /\ u \in Seq(Messages)
    BY <2>1
  <2>4. Len(t) \in Nat /\ Len(t) # 0 /\ m = t[1] /\ DOMAIN u = 1 .. Len(t) - 1
        /\ \A k \in 1 .. Len(t) - 1 : u[k] = t[k + 1]
    BY <2>1, <2>2
  <2> HIDE DEF u, m, t
  <2>5. \A x \in M!ToSet(t) : x = m \/ x \in M!ToSet(u)
    <3> TAKE x \in M!ToSet(t)
    <3>1. PICK k \in 1 .. Len(t) : t[k] = x
      BY <2>2 DEF M!ToSet
    <3>2. CASE k = 1
      BY <2>4, <3>1, <3>2
    <3>3. CASE k # 1
      <4>1. k - 1 \in 1 .. Len(t) - 1 /\ (k - 1) + 1 = k
        BY <2>4, <3>3
      <4>2. u[k - 1] = x
        BY <2>4, <3>1, <4>1
      <4> QED
        BY <2>4, <4>1, <4>2 DEF M!ToSet
    <3> QED
      BY <3>2, <3>3
  <2>6. \A x \in M!ToSet(u) : x \in M!ToSet(t)
    <3> TAKE x \in M!ToSet(u)
    <3>1. PICK k \in 1 .. Len(t) - 1 : u[k] = x
      BY <2>4 DEF M!ToSet
    <3>2. k + 1 \in 1 .. Len(t) /\ t[k + 1] = x
      BY <2>4, <3>1
    <3> QED
      BY <2>2, <3>2 DEF M!ToSet
  <2>7. m \in M!ToSet(t)
    <3>1. 1 \in 1 .. Len(t)
      BY <2>4
    <3> QED
      BY <2>2, <2>4, <3>1 DEF M!ToSet
  <2>8. M!ToSet(t) = {m} \cup M!ToSet(u)
    BY <2>5, <2>6, <2>7
  <2> QED
    BY <2>3, <2>8 DEF u
<1>4. r \in DispatchRow /\ r.todo = Tail(t) /\ r.claimed = claimed /\ r.saw = dispatch[w].saw
  BY <1>1, <1>3 DEF DispatchRow
<1>5. Taken(w) = M!ToSet(t) \cup dispatch[w].claimed
  BY DEF Taken
<1>6. M!ToSet(r.todo) \cup r.claimed = IF M!StillQueued(m) THEN Taken(w) ELSE M!ToSet(Tail(t)) \cup dispatch[w].claimed
  BY <1>3, <1>4, <1>5
<1>7. M!StillQueued(m) <=> m \in M!ToSet(queued)
  BY DEF M!StillQueued
<1> HIDE DEF r, m, t
<1>8. M!ToSet(r.todo) \cup r.claimed \subseteq r.saw
  BY <1>1, <1>3, <1>4, <1>5, <1>6 DEF RunsFit
<1>9. r.claimed \subseteq M!ToSet(queued) /\ \A v \in Ticking \ {w} : r.claimed \cap dispatch[v].claimed = {}
  BY <1>1, <1>4, <1>7 DEF Claimed
<1>10. ASSUME NEW x \in Messages, NEW n \in Messages,
              x \in M!ToSet(r.todo) \cup r.claimed, M!Older(n, x), n \in r.saw
       PROVE  n \in M!ToSet(r.todo) \cup r.claimed
  <2>1. x \in Taken(w) /\ n \in dispatch[w].saw
    BY <1>3, <1>4, <1>5, <1>6, <1>10
  <2>2. n \in Taken(w)
    BY <1>1, <1>10, <2>1 DEF Downwards
  <2>3. n \in M!ToSet(queued)
    BY <1>10 DEF M!Older, M!ToSet
  <2> QED
    BY <1>3, <1>5, <1>6, <1>7, <2>2, <2>3
<1> QED
  BY <1>1, <1>2, <1>4, <1>8, <1>9, <1>10, RunMoves

LEMMA DiesStep ==
  ASSUME OutboxInv, NEW w \in Ticking, M!DispatchDies(w)
  PROVE  OutboxInv'
<1>1. /\ M!Resting \in DispatchRow /\ M!ToSet(M!Resting.todo) = {} /\ M!Resting.claimed = {}
  BY DEF M!Resting, DispatchRow, M!ToSet
<1>2. dispatch' = [dispatch EXCEPT ![w] = M!Resting] /\ UNCHANGED <<queued, delivered>>
  BY DEF M!DispatchDies
<1> HIDE DEF M!Resting
<1> QED
  BY <1>1, <1>2, RunMoves

LEMMA CommitMessagesStep ==
  ASSUME OutboxInv, NEW w \in Ticking, M!DispatchCommit(w)
  PROVE  /\ OutboxInv' /\ M!ToSet(queued)' = M!ToSet(queued) \ dispatch[w].claimed
         /\ Taken(w) = dispatch[w].claimed
<1> DEFINE q == queued
           Y == dispatch[w].claimed
           r == queued'
<1>1. /\ q \in Seq(Messages) /\ M!IsInjective(q) /\ dispatch \in [Ticking -> DispatchRow]
      /\ r = M!Without(q, Y) /\ dispatch' = [dispatch EXCEPT ![w] = M!Resting]
      /\ delivered' = [m \in Messages |-> delivered[m] + IF m \in Y THEN 1 ELSE 0]
      /\ delivered \in [Messages -> Nat] /\ RunsFit /\ Claimed /\ Undelivered /\ Downwards
      /\ dispatch[w].todo = << >>
  BY DEF OutboxInv, RunsFit, M!DispatchCommit
<1>2. Taken(w) = Y
  BY <1>1 DEF Taken, M!ToSet
<1>3. Rest(r, q, Y)
  BY <1>1, WithoutRest
<1> HIDE DEF q, Y, r
<1>4. DOMAIN q = 1 .. Len(q) /\ r \in Seq(Messages) /\ DOMAIN r = 1 .. Len(r)
      /\ Len(q) \in Nat /\ Len(r) \in Nat
  BY <1>1, <1>3 DEF Rest
<1>5. M!ToSet(r) = M!ToSet(q) \ Y
  <2>1. \A m : m \in M!ToSet(r) <=> \E k \in 1 .. Len(r) : r[k] = m
    BY <1>4 DEF M!ToSet
  <2>2. \A m : m \in M!ToSet(q) <=> \E k \in 1 .. Len(q) : q[k] = m
    BY <1>4 DEF M!ToSet
  <2> QED
    BY <1>3, <2>1, <2>2 DEF Rest
<1>6. ASSUME NEW j \in 1 .. Len(r), NEW k \in 1 .. Len(r), j < k
      PROVE  r[j] # r[k] /\ \E i, l \in DOMAIN q : i < l /\ q[i] = r[j] /\ q[l] = r[k]
  <2>1. PICK i \in 1 .. Len(q), l \in 1 .. Len(q) : i < l /\ q[i] = r[j] /\ q[l] = r[k]
    BY <1>3, <1>6 DEF Rest
  <2>2. i # l
    BY <2>1
  <2>3. q[i] # q[l]
    BY <1>1, <1>4, <2>2 DEF M!IsInjective
  <2> QED
    BY <1>4, <2>1, <2>3
<1>7. M!IsInjective(r)
  <2> SUFFICES ASSUME NEW j \in 1 .. Len(r), NEW k \in 1 .. Len(r), j # k
               PROVE  r[j] # r[k]
    BY <1>4 DEF M!IsInjective
  <2>1. j < k \/ k < j
    OBVIOUS
  <2> QED
    BY <1>6, <2>1
<1>8. M!ToSet(queued)' = M!ToSet(queued) \ Y
  BY <1>5 DEF q, r, M!ToSet
<1>9. \A n, m \in Messages : M!Older(n, m)' => M!Older(n, m)
  <2> SUFFICES ASSUME NEW n \in Messages, NEW m \in Messages, M!Older(n, m)'
               PROVE  M!Older(n, m)
    OBVIOUS
  <2>1. PICK j \in 1 .. Len(r), k \in 1 .. Len(r) : j < k /\ r[j] = n /\ r[k] = m
    BY <1>4 DEF M!Older, r
  <2>2. \E i, l \in DOMAIN q : i < l /\ q[i] = r[j] /\ q[l] = r[k]
    BY <1>6, <2>1
  <2> QED
    BY <2>1, <2>2 DEF M!Older, q
<1>10. /\ M!Resting \in DispatchRow /\ M!ToSet(M!Resting.todo) = {} /\ M!Resting.claimed = {}
  BY DEF M!Resting, DispatchRow, M!ToSet
<1> HIDE DEF M!Resting
<1>11. /\ dispatch' \in [Ticking -> DispatchRow] /\ dispatch'[w] = M!Resting
       /\ \A v \in Ticking \ {w} : dispatch'[v] = dispatch[v]
  BY <1>1, <1>10
<1>12. Taken(w)' = {} /\ \A v \in Ticking \ {w} : Taken(v)' = Taken(v)
  BY <1>10, <1>11 DEF Taken, M!ToSet
<1>13. RunsFit'
  BY <1>1, <1>11, <1>12 DEF RunsFit
<1>14. Claimed'
  <2>1. \A v \in Ticking \ {w} : dispatch[v].claimed \cap Y = {}
    BY <1>1 DEF Claimed, Y
  <2> QED
    BY <1>1, <1>8, <1>10, <1>11, <2>1 DEF Claimed
<1>15. delivered' \in [Messages -> Nat] /\ Undelivered'
  <2>1. \A m \in Messages : m \notin Y => delivered'[m] = delivered[m]
    BY <1>1
  <2>2. M!ToSet(queued) \subseteq Messages
    BY <1>1, <1>4 DEF M!ToSet, q
  <2>3. delivered' \in [Messages -> Nat]
    BY <1>1
  <2> QED
    BY <1>1, <1>8, <2>1, <2>2, <2>3 DEF Undelivered
<1>16. Downwards'
  <2> SUFFICES ASSUME NEW v \in Ticking, NEW m \in Messages, NEW n \in Messages,
                      m \in Taken(v)', M!Older(n, m)', n \in dispatch'[v].saw
               PROVE  n \in Taken(v)'
    BY DEF Downwards
  <2>1. v # w
    BY <1>12
  <2> QED
    BY <1>1, <1>9, <1>11, <1>12, <2>1 DEF Downwards
<1> QED
  BY <1>2, <1>4, <1>7, <1>8, <1>13, <1>14, <1>15, <1>16 DEF OutboxInv, r, Y

LEMMA OutboxStep == ASSUME OutboxInv, [M!Next]_(M!vars) PROVE OutboxInv'
<1>1. CASE UNCHANGED M!vars
  BY <1>1 DEF M!vars, OutboxInv, RunsFit, Claimed, Undelivered, Downwards, Taken, M!ToSet,
              M!IsInjective, M!Older
<1>2. CASE \E m \in Messages : M!queueMessage(m)
  BY <1>2, QueueStep
<1>3. ASSUME NEW w \in Ticking,
             M!DispatchRead(w) \/ M!DispatchClaim(w) \/ M!DispatchCommit(w) \/ M!DispatchDies(w)
      PROVE  OutboxInv'
  BY <1>3, ReadStep, ClaimMessageStep, CommitMessagesStep, DiesStep
<1> QED
  BY <1>1, <1>2, <1>3 DEF M!Next

\* A delivery: once, of what waits, and of the oldest that the run saw.
Delivers ==
  \A m \in Messages : delivered'[m] > delivered[m] =>
    /\ delivered[m] = 0 /\ m \in M!ToSet(queued) /\ m \notin M!ToSet(queued')
    /\ \A w \in Ticking, n \in M!ToSet(queued') :
         dispatch'[w] # dispatch[w] /\ M!Older(n, m) => n \notin dispatch[w].saw

LEMMA DeliversStep == ASSUME OutboxInv, [M!Next]_(M!vars) PROVE Delivers
<1>0. delivered \in [Messages -> Nat]
  BY DEF OutboxInv
<1>1. CASE UNCHANGED delivered
  BY <1>0, <1>1 DEF Delivers
<1>2. ASSUME NEW m \in Messages, M!queueMessage(m) PROVE Delivers
  <2>1. \A n \in Messages : delivered'[n] \in {0, delivered[n]}
    BY <1>0, <1>2 DEF M!queueMessage
  <2>2. \A n \in Messages : ~(delivered'[n] > delivered[n])
    BY <1>0, <2>1
  <2> QED
    BY <2>2 DEF Delivers
<1>3. ASSUME NEW w \in Ticking, M!DispatchCommit(w) PROVE Delivers
  <2> DEFINE Y == dispatch[w].claimed
  <2>1. M!ToSet(queued)' = M!ToSet(queued) \ Y /\ Taken(w) = Y
    BY <1>3, CommitMessagesStep
  <2>2. M!ToSet(queued') = M!ToSet(queued) \ Y
    BY <2>1 DEF M!ToSet
  <2>3. /\ delivered' = [m \in Messages |-> delivered[m] + IF m \in Y THEN 1 ELSE 0]
        /\ dispatch' = [dispatch EXCEPT ![w] = M!Resting]
        /\ dispatch \in [Ticking -> DispatchRow] /\ Claimed /\ Undelivered /\ Downwards
        /\ queued \in Seq(Messages)
    BY <1>3 DEF M!DispatchCommit, OutboxInv, RunsFit
  <2> SUFFICES ASSUME NEW m \in Messages, delivered'[m] > delivered[m]
               PROVE  /\ delivered[m] = 0 /\ m \in M!ToSet(queued) /\ m \notin M!ToSet(queued')
                      /\ \A v \in Ticking, n \in M!ToSet(queued') :
                           dispatch'[v] # dispatch[v] /\ M!Older(n, m) => n \notin dispatch[v].saw
    BY DEF Delivers
  <2>4. m \in Y
    BY <1>0, <2>3
  <2>5. delivered[m] = 0 /\ m \in M!ToSet(queued) /\ m \notin M!ToSet(queued')
    BY <2>2, <2>3, <2>4 DEF Claimed, Undelivered
  <2>6. ASSUME NEW v \in Ticking, NEW n \in M!ToSet(queued'), dispatch'[v] # dispatch[v],
               M!Older(n, m), n \in dispatch[v].saw
        PROVE  FALSE
    <3>1. v = w
      BY <2>3, <2>6
    <3>2. n \in Messages /\ n \notin Y
      BY <2>2, <2>3, <2>6 DEF M!ToSet
    <3>3. n \in Taken(w)
      BY <2>1, <2>3, <2>4, <2>6, <3>1, <3>2 DEF Downwards
    <3> QED
      BY <2>1, <3>2, <3>3
  <2> QED
    BY <2>5, <2>6
<1> QED
  BY <1>1, <1>2, <1>3 DEF M!Next, M!vars, M!DispatchRead, M!DispatchClaim, M!DispatchDies

-----------------------------------------------------------------------------
(***************************************************************************)
(* Amounts, for all quantities, rates and texts.                           *)
(***************************************************************************)

Text == [negative : BOOLEAN, whole : Nat, fraction : Seq(0 .. 9)]

LEMMA Digit == ASSUME NEW t \in Text, NEW n \in Nat \ {0} PROVE Decimal(t, n) \in 0 .. 9
<1>1. t.fraction \in Seq(0 .. 9) /\ Len(t.fraction) \in Nat
  BY DEF Text
<1>2. CASE n <= Len(t.fraction)
  <2>1. t.fraction[n] \in 0 .. 9
    BY <1>1, <1>2
  <2> QED
    BY <1>2, <2>1 DEF Decimal
<1>3. CASE ~(n <= Len(t.fraction))
  BY <1>3 DEF Decimal
<1> QED
  BY <1>2, <1>3

\* toQuantityScaled reads every text as the nearest hundredth, whatever follows
\* its third decimal.
THEOREM NearestRead == ASSUME NEW t \in Text PROVE ReadsNearest(t)
<1>1. /\ Decimal(t, 1) \in 0 .. 9 /\ Decimal(t, 2) \in 0 .. 9
      /\ Decimal(t, 3) \in 0 .. 9 /\ Decimal(t, 4) \in 0 .. 9
  BY Digit
<1>2. t.whole \in Nat /\ t.negative \in BOOLEAN
  BY DEF Text
<1> DEFINE cents == t.whole * 100 + 10 * Decimal(t, 1) + Decimal(t, 2)
           up == IF Decimal(t, 3) >= 5 THEN 1 ELSE 0
           rest == 10 * Decimal(t, 3) + Decimal(t, 4)
           exact == t.whole * 10000 + 1000 * Decimal(t, 1) + 100 * Decimal(t, 2)
                      + 10 * Decimal(t, 3) + Decimal(t, 4)
<1>3. /\ cents \in Nat /\ up \in {0, 1} /\ rest \in 0 .. 99 /\ exact = 100 * cents + rest
      /\ up = 1 => rest >= 50
      /\ up = 0 => rest < 50
  <2>1. /\ cents \in Nat /\ rest \in 0 .. 99 /\ exact = 100 * cents + rest
        /\ Decimal(t, 3) >= 5 => rest >= 50
        /\ ~(Decimal(t, 3) >= 5) => rest < 50
    <3>1. \A w \in Nat : \A i, j, k, l \in 0 .. 9 :
            /\ w * 100 + 10 * i + j \in Nat /\ 10 * k + l \in 0 .. 99
            /\ w * 10000 + 1000 * i + 100 * j + 10 * k + l = 100 * (w * 100 + 10 * i + j) + (10 * k + l)
            /\ k >= 5 => 10 * k + l >= 50
            /\ ~(k >= 5) => 10 * k + l < 50
      OBVIOUS
    <3> QED
      BY <1>1, <1>2, <3>1
  <2>2. (up = 1 /\ Decimal(t, 3) >= 5) \/ (up = 0 /\ ~(Decimal(t, 3) >= 5))
    OBVIOUS
  <2> HIDE DEF cents, up, rest, exact
  <2> QED
    BY <2>1, <2>2
<1>4. toQuantityScaled(t) = Signed(t.negative, cents + up)
  BY DEF toQuantityScaled, QUANTITY_SCALE
<1>5. ReadsNearest(t) <=> RoundsHalfUp(toQuantityScaled(t), Signed(t.negative, exact), 100)
  BY DEF ReadsNearest
<1> HIDE DEF cents, up, rest, exact
<1>6. CASE t.negative
  <2>1. Signed(t.negative, cents + up) = -(cents + up) /\ Signed(t.negative, exact) = -exact
    BY <1>6 DEF Signed
  <2>2. Magnitude(-exact) = exact /\ Magnitude(-(cents + up)) = cents + up
    BY <1>3 DEF Magnitude
  <2>3. -100 <= 2 * (exact - 100 * (cents + up)) /\ 2 * (exact - 100 * (cents + up)) < 100
    BY <1>3
  <2>4. -(cents + up) # 0 => -(cents + up) < 0 /\ -exact < 0
    BY <1>3
  <2> QED
    BY <1>4, <1>5, <2>1, <2>2, <2>3, <2>4 DEF RoundsHalfUp
<1>7. CASE ~t.negative
  <2>1. Signed(t.negative, cents + up) = cents + up /\ Signed(t.negative, exact) = exact
    BY <1>7 DEF Signed
  <2>2. Magnitude(exact) = exact /\ Magnitude(cents + up) = cents + up
    BY <1>3 DEF Magnitude
  <2>3. -100 <= 2 * (exact - 100 * (cents + up)) /\ 2 * (exact - 100 * (cents + up)) < 100
    BY <1>3
  <2>4. ~(cents + up < 0) /\ ~(exact < 0)
    BY <1>3
  <2> QED
    BY <1>4, <1>5, <2>1, <2>2, <2>3, <2>4 DEF RoundsHalfUp
<1> QED
  BY <1>6, <1>7

\* What computeAmountMinor makes of a product that is not negative.
LEMMA AmountOf ==
  ASSUME NEW q \in Nat, NEW r \in Nat, NEW p \in Nat, p = q * r
  PROVE  /\ computeAmountMinor(q, r) = (p + 50) \div 100
         /\ computeAmountMinor(q, r) \in Nat
<1>1. Magnitude(q * r) = p /\ ~(q * r < 0)
  BY DEF Magnitude
<1>2. p \div 100 \in Nat /\ p % 100 \in 0 .. 99 /\ p = 100 * (p \div 100) + (p % 100)
  OBVIOUS
<1>3. computeAmountMinor(q, r) = IF (p % 100) * 2 >= 100 THEN p \div 100 + 1 ELSE p \div 100
  BY <1>1 DEF computeAmountMinor, Signed, QUANTITY_SCALE
<1> QED
  BY <1>2, <1>3

\* A plain decimal is read back as it was written.
LEMMA PlainRead == ASSUME NEW n \in Nat PROVE toQuantityScaled(PlainDecimal(n)) = n
<1> DEFINE part == n % 100
           t == PlainDecimal(n)
<1>1. Magnitude(n) = n /\ ~(n < 0)
  BY DEF Magnitude
<1>2. t = [negative |-> FALSE, whole |-> n \div 100, fraction |-> <<part \div 10, part % 10>>]
  <2>1. t = [negative |-> n < 0, whole |-> Magnitude(n) \div 100,
             fraction |-> <<(Magnitude(n) % 100) \div 10, (Magnitude(n) % 100) % 10>>]
    BY DEF PlainDecimal, QUANTITY_SCALE
  <2>2. (n < 0) = FALSE
    OBVIOUS
  <2> QED
    BY <1>1, <2>1, <2>2
<1>3. /\ t.negative = FALSE /\ t.whole = n \div 100
      /\ Decimal(t, 1) = part \div 10 /\ Decimal(t, 2) = part % 10 /\ Decimal(t, 3) = 0
  BY <1>2 DEF Decimal
<1>4. n = 100 * (n \div 100) + 10 * (part \div 10) + (part % 10) /\ n \div 100 \in Nat
      /\ part \div 10 \in Nat /\ part % 10 \in Nat
  OBVIOUS
<1> HIDE DEF t, part
<1>5. toQuantityScaled(t) = Signed(FALSE, (n \div 100) * 100 + 10 * (part \div 10) + (part % 10) + 0)
  <2>1. toQuantityScaled(t) =
          Signed(t.negative, t.whole * 100 + 10 * Decimal(t, 1) + Decimal(t, 2) + IF Decimal(t, 3) >= 5 THEN 1 ELSE 0)
    BY DEF toQuantityScaled, QUANTITY_SCALE
  <2>2. (IF Decimal(t, 3) >= 5 THEN 1 ELSE 0) = 0
    BY <1>3
  <2> QED
    BY <1>3, <2>1, <2>2
<1>6. toQuantityScaled(t) = n
  BY <1>4, <1>5 DEF Signed
<1> QED
  BY <1>6 DEF t

\* computeAmountMinor rounds half a cent up and pays no less for more; what is
\* written of a quantity or an amount is read back as it was.
THEOREM AmountsSound ==
  ASSUME NEW q \in Nat, NEW more \in Nat, NEW r \in Nat
  PROVE  AmountSound(q, more, r)
<1>1. PICK p \in Nat : p = q * r
  OBVIOUS
<1>2. PICK m \in Nat : m = more * r
  OBVIOUS
<1>3. q <= more => p <= m
  BY <1>1, <1>2
<1>4. PICK a \in Nat : a = computeAmountMinor(q, r) /\ a = (p + 50) \div 100
  BY <1>1, AmountOf
<1>5. computeAmountMinor(more, r) = (m + 50) \div 100
  BY <1>2, AmountOf
<1>6. q <= more => computeAmountMinor(q, r) <= computeAmountMinor(more, r)
  BY <1>3, <1>4, <1>5
<1>7. RoundsHalfUp(computeAmountMinor(q, r), q * r, QUANTITY_SCALE)
  <2>1. -100 <= 2 * (p - 100 * a) /\ 2 * (p - 100 * a) < 100
    BY <1>4
  <2>2. Magnitude(p) = p /\ Magnitude(a) = a /\ ~(p < 0) /\ ~(a < 0)
    BY DEF Magnitude
  <2> QED
    BY <1>1, <1>4, <2>1, <2>2 DEF RoundsHalfUp, QUANTITY_SCALE
<1>8. toQuantityScaled(PlainDecimal(q)) = q /\ toQuantityScaled(PlainDecimal(a)) = a
  BY PlainRead
<1> QED
  BY <1>4, <1>6, <1>7, <1>8 DEF AmountSound

\* A draft that detectDiscrepancies passes, whatever its quantity and its rates.
LEMMA PassedAsClaimed ==
  ASSUME NEW d, d.rate \in Int, d.listRate \in Int, d.ceiling \in Int, d.quantity \in Int
  PROVE  UnexplainedAsClaimed(d)
<1> SUFFICES ASSUME DraftStatus(d) = "READY" PROVE UnexplainedAsClaimed(d)
  BY DEF UnexplainedAsClaimed
<1>1. detectDiscrepancies(d) = {}
  BY DEF DraftStatus
<1>2. /\ ~(d.claimed # NoClaim /\ toQuantityScaled(d.claimed) # d.quantity)
      /\ ~(d.ceiling # NoCeiling /\ d.rate > d.ceiling)
      /\ ~(d.rate # d.listRate)
      /\ ~(d.basis = "HOURLY" /\ d.quantity > 6000)
  BY <1>1 DEF detectDiscrepancies, Flag
<1>3. d.quantity = IF d.claimed = NoClaim THEN d.quantity ELSE toQuantityScaled(d.claimed)
  BY <1>2
<1>4. d.rate = d.listRate /\ (d.ceiling # NoCeiling => d.listRate <= d.ceiling)
      /\ (d.basis = "HOURLY" => d.quantity <= 6000)
  BY <1>2
<1> QED
  BY <1>3, <1>4 DEF UnexplainedAsClaimed

-----------------------------------------------------------------------------
(***************************************************************************)
(* The ranking, for all candidates and briefs.  A slug is any value, a     *)
(* proficiency any number, an offset that of a time zone on earth.         *)
(***************************************************************************)

Offsets == -12 .. 14

CandidatesOn(slugs) ==
  [id : Int, status : DOMAIN STANDING_BY_STATUS, reachable : BOOLEAN, years : Nat, rate : Nat,
   offset : Offsets, capacity : Nat, skill : [slugs -> Nat], open : BOOLEAN, assigned : BOOLEAN,
   declined : Nat \cup {Never}, seats : Nat]

BriefsOn(slugs) ==
  [minYears : Nat, maxRate : Nat, offset : Offsets, hours : Nat,
   asks : [slugs -> [required : BOOLEAN, min : Nat, weight : Nat]]]

\* Products and quotients grow with what is multiplied and divided.
LEMMA ProductGrows ==
  ASSUME NEW a \in Int, NEW b \in Int, NEW k \in Nat, a <= b
  PROVE  a * k <= b * k /\ k * a <= k * b
OBVIOUS

LEMMA QuotientGrows ==
  ASSUME NEW a \in Int, NEW b \in Int, NEW d \in Nat \ {0}, a <= b
  PROVE  a \div d \in Int /\ b \div d \in Int /\ a \div d <= b \div d
<1>1. PICK q \in Int : q = a \div d
  OBVIOUS
<1>2. PICK r \in Int : r = b \div d
  OBVIOUS
<1>3. d * q <= a /\ b < d * r + d
  BY <1>1, <1>2
<1>4. ASSUME r < q PROVE FALSE
  <2>1. d * (r + 1) <= d * q
    BY <1>4, ProductGrows
  <2>2. d * (r + 1) = d * r + d
    OBVIOUS
  <2> QED
    BY <1>3, <2>1, <2>2
<1> QED
  BY <1>1, <1>2, <1>4

LEMMA QuotientExact ==
  ASSUME NEW k \in Int, NEW d \in Nat \ {0}, NEW r \in Nat, r < d
  PROVE  (k * d + r) \div d = k
<1>1. PICK q \in Int : q = (k * d + r) \div d
  OBVIOUS
<1>2. d * q <= k * d + r /\ k * d + r < d * q + d
  BY <1>1
<1>3. ASSUME k < q PROVE FALSE
  <2>1. d * (k + 1) <= d * q
    BY <1>3, ProductGrows
  <2>2. d * (k + 1) = k * d + d
    OBVIOUS
  <2> QED
    BY <1>2, <2>1, <2>2
<1>4. ASSUME q < k PROVE FALSE
  <2>1. d * (q + 1) <= d * k
    BY <1>4, ProductGrows
  <2>2. d * (q + 1) = d * q + d /\ d * k = k * d
    OBVIOUS
  <2> QED
    BY <1>2, <2>1, <2>2
<1> QED
  BY <1>1, <1>3, <1>4

LEMMA ClampGrows ==
  ASSUME NEW n \in Int, NEW m \in Int, NEW d \in Nat, n <= m
  PROVE  /\ Clamp(n, d) \in 0 .. d /\ Clamp(m, d) \in 0 .. d
         /\ Clamp(n, d) <= Clamp(m, d)
BY DEF Clamp

LEMMA RoundedGrows ==
  ASSUME NEW n \in Int, NEW m \in Int, NEW d \in Nat \ {0}, n <= m
  PROVE  Rounded(n, d) \in Int /\ Rounded(m, d) \in Int /\ Rounded(n, d) <= Rounded(m, d)
<1>1. 2 * n + d <= 2 * m + d /\ 2 * d \in Nat \ {0}
  OBVIOUS
<1> QED
  BY <1>1, QuotientGrows DEF Rounded

\* A part grows with its numerator, from nothing to all its points.
LEMMA PartGrows ==
  ASSUME NEW p \in Nat, NEW n \in Int, NEW m \in Int, NEW d \in Nat \ {0}, n <= m
  PROVE  /\ Part(p, n, d) \in Int /\ Part(p, m, d) \in Int
         /\ Part(p, n, d) <= Part(p, m, d)
         /\ 0 <= Part(p, n, d) /\ Part(p, n, d) <= 100 * p
<1> DEFINE x == Clamp(n, d)
           y == Clamp(m, d)
<1>1. x \in 0 .. d /\ y \in 0 .. d /\ x <= y
  BY ClampGrows
<1>2. Part(p, n, d) = Rounded(100 * p * x, d) /\ Part(p, m, d) = Rounded(100 * p * y, d)
  BY DEF Part
<1> HIDE DEF x, y
<1>3. PICK k \in Nat : k = 100 * p
  OBVIOUS
<1>4. /\ k * x \in Nat /\ k * y \in Nat /\ k * d \in Nat
      /\ k * x <= k * y /\ k * x <= k * d /\ 0 <= k * x
  BY <1>1, ProductGrows
<1>5. /\ Rounded(k * x, d) \in Int /\ Rounded(k * y, d) \in Int
      /\ Rounded(k * x, d) <= Rounded(k * y, d)
  BY <1>4, RoundedGrows
<1>6. Rounded(k * x, d) <= Rounded(k * d, d)
  BY <1>4, RoundedGrows
<1>7. Rounded(0, d) <= Rounded(k * x, d)
  BY <1>4, RoundedGrows
<1>8. Rounded(k * d, d) = k
  <2>1. 2 * (k * d) + d = k * (2 * d) + d /\ d < 2 * d /\ 2 * d \in Nat \ {0}
    OBVIOUS
  <2> QED
    BY <2>1, QuotientExact DEF Rounded
<1>9. Rounded(0, d) = 0
  <2>1. 2 * 0 + d = 0 * (2 * d) + d /\ d < 2 * d /\ 2 * d \in Nat \ {0}
    OBVIOUS
  <2> QED
    BY <2>1, QuotientExact DEF Rounded
<1> QED
  BY <1>2, <1>3, <1>5, <1>6, <1>7, <1>8, <1>9

\* Two parts of the same points and denominator.
Grow(x, y, p) == x \in Int /\ y \in Int /\ y <= x /\ 0 <= x /\ x <= p /\ y <= p

LEMMA PartsGrow ==
  ASSUME NEW p \in Nat, NEW n \in Int, NEW m \in Int, NEW d \in Nat \ {0}, m <= n
  PROVE  Grow(Part(p, n, d), Part(p, m, d), 100 * p)
<1>1. /\ Part(p, n, d) \in Int /\ Part(p, m, d) \in Int /\ Part(p, m, d) <= Part(p, n, d)
      /\ 0 <= Part(p, m, d)
  BY PartGrows
<1>2. Part(p, n, d) <= 100 * p
  <2>1. n <= n
    OBVIOUS
  <2> QED
    BY <2>1, PartGrows
<1>3. 100 * p \in Int
  OBVIOUS
<1> HIDE DEF Part
<1> QED
  BY <1>1, <1>2, <1>3 DEF Grow

LEMMA PartFull == ASSUME NEW p \in Nat PROVE Part(p, 1, 1) = 100 * p
<1>1. Clamp(1, 1) = 1
  BY DEF Clamp
<1>2. (2 * (100 * p * 1) + 1) \div (2 * 1) = 100 * p
  OBVIOUS
<1> QED
  BY <1>1, <1>2 DEF Part, Rounded

-----------------------------------------------------------------------------
\* Hours shared.
LEMMA MaxOf ==
  ASSUME NEW X \in SUBSET Int, NEW m \in X, \A y \in X : y <= m
  PROVE  Max(X) = m
<1>1. \A x \in X : (\A y \in X : x >= y) => x = m
  OBVIOUS
<1>2. \A y \in X : m >= y
  OBVIOUS
<1> QED
  BY <1>1, <1>2 DEF Max

\* The hours two people share, by the distance of their noons.
Shared(x) ==
  CASE x < -24 -> 32 + x
    [] x \in -24 .. -16 -> -16 - x
    [] x \in -8 .. -1 -> 8 + x
    [] x \in 0 .. 8 -> 8 - x
    [] x \in 16 .. 24 -> x - 16
    [] x > 24 -> 32 - x
    [] OTHER -> 0

LEMMA OverlapIs ==
  ASSUME NEW a \in Offsets, NEW b \in Offsets
  PROVE  workingHoursOverlap(a, b) = Shared(b - a) /\ Shared(b - a) \in 0 .. 8
<1> DEFINE x == b - a
           hours(d) == IF d > 0 THEN 8 - d ELSE 8 + d
           X == {0} \cup {hours(d) : d \in Hours(a, b)}
<1>1. x \in -26 .. 26
  BY DEF Offsets
<1>2. X = {0, hours(x - 24), hours(x), hours(x + 24)}
  <2>1. Hours(a, b) = {x - 24, x, x + 24}
    BY <1>1 DEF Hours, Offsets
  <2> HIDE DEF x
  <2> QED
    BY <2>1
<1> HIDE DEF x
<1>3. hours(x - 24) \in Int /\ hours(x) \in Int /\ hours(x + 24) \in Int
  BY <1>1
<1>4. Shared(x) \in {0, hours(x - 24), hours(x), hours(x + 24)}
  BY <1>1 DEF Shared
<1>5. hours(x - 24) <= Shared(x) /\ hours(x) <= Shared(x) /\ hours(x + 24) <= Shared(x)
      /\ 0 <= Shared(x) /\ Shared(x) <= 8
  BY <1>1 DEF Shared
<1> HIDE DEF hours
<1>6. \A y \in {0, hours(x - 24), hours(x), hours(x + 24)} : y <= Shared(x)
  BY <1>5
<1>7. Max(X) = Shared(x)
  <2> DEFINE m == Shared(x)
  <2>1. m \in X /\ X \subseteq Int
    BY <1>2, <1>3, <1>4
  <2>2. \A y \in X : y <= m
    BY <1>2, <1>6
  <2> HIDE DEF X, m
  <2>3. Max(X) = m
    BY <2>1, <2>2, MaxOf
  <2> QED
    BY <2>3 DEF m
<1> HIDE DEF X
<1>8. workingHoursOverlap(a, b) = Max(X)
  BY DEF workingHoursOverlap, X, hours
<1> QED
  BY <1>3, <1>4, <1>5, <1>7, <1>8 DEF x

LEMMA SharedIs ==
  ASSUME NEW a \in Offsets, NEW b \in Offsets
  PROVE  SharedHours(a, b) = Shared(b - a)
<1> DEFINE d == (a - b) % 24
           X == {0, 8 - d, 8 - (24 - d)}
<1>1. PICK x \in -26 .. 26 : x = a - b
  BY DEF Offsets
<1>2. \/ x < -24 /\ d = x + 48
      \/ x \in -24 .. -1 /\ d = x + 24
      \/ x \in 0 .. 23 /\ d = x
      \/ x > 23 /\ d = x - 24
  BY <1>1
<1>3. d \in 0 .. 23 /\ b - a = -x
  BY <1>1 DEF Offsets
<1> HIDE DEF d
<1>4. Shared(-x) \in X /\ \A y \in X : y <= Shared(-x)
  <2>1. CASE x < -24 /\ d = x + 48
    BY <1>1, <1>3, <2>1 DEF Shared
  <2>2. CASE x \in -24 .. -1 /\ d = x + 24
    BY <1>1, <1>3, <2>2 DEF Shared
  <2>3. CASE x \in 0 .. 23 /\ d = x
    BY <1>1, <1>3, <2>3 DEF Shared
  <2>4. CASE x > 23 /\ d = x - 24
    BY <1>1, <1>3, <2>4 DEF Shared
  <2> QED
    BY <1>2, <2>1, <2>2, <2>3, <2>4
<1>5. X \in SUBSET Int
  BY <1>3
<1>6. SharedHours(a, b) = Max(X)
  BY DEF SharedHours, d
<1> HIDE DEF X
<1> QED
  BY <1>3, <1>4, <1>5, <1>6, MaxOf

LEMMA SharedBothWays == ASSUME NEW x \in -26 .. 26 PROVE Shared(x) = Shared(-x)
BY DEF Shared

-----------------------------------------------------------------------------
\* Who may be ranked.
LEMMA BetterMayBeRanked ==
  ASSUME NEW slugs, NEW c \in CandidatesOn(slugs), NEW d \in CandidatesOn(slugs),
         NEW brief \in BriefsOn(slugs), AtLeastAsGood(c, d, brief), ~Excluded(d, brief)
  PROVE  ~Excluded(c, brief)
<1>1. c.status \notin {"ARCHIVED", "REJECTED"}
  <2>1. d.status \in {"VERIFIED", "PENDING_VERIFICATION", "ONBOARDING", "PROSPECT"}
    BY DEF Excluded, CandidatesOn, STANDING_BY_STATUS
  <2>2. STANDING_BY_STATUS[d.status] \in {100, 75, 50, 35}
    BY <2>1 DEF STANDING_BY_STATUS
  <2>3. STANDING_BY_STATUS[c.status] >= STANDING_BY_STATUS[d.status]
    BY DEF AtLeastAsGood
  <2>4. c.status = "ARCHIVED" \/ c.status = "REJECTED" => STANDING_BY_STATUS[c.status] = 0
    BY DEF STANDING_BY_STATUS
  <2> QED
    BY <2>2, <2>3, <2>4
<1>2. c.reachable /\ ~c.assigned /\ ~c.open
  BY DEF AtLeastAsGood, Excluded
<1>3. /\ c.skill \in [slugs -> Nat] /\ d.skill \in [slugs -> Nat]
      /\ \A s \in slugs : c.skill[s] >= d.skill[s]
      /\ DOMAIN brief.asks = slugs
      /\ \A s \in slugs : brief.asks[s].min \in Nat
  BY DEF AtLeastAsGood, CandidatesOn, BriefsOn
<1>4. Missing(c, brief) = {}
  <2>1. Missing(d, brief) = {}
    BY DEF Excluded
  <2>2. ASSUME NEW s \in Asked(brief, TRUE), c.skill[s] < brief.asks[s].min
        PROVE  FALSE
    <3>1. s \in slugs
      BY <1>3 DEF Asked
    <3>2. d.skill[s] < brief.asks[s].min
      BY <1>3, <2>2, <3>1
    <3> QED
      BY <2>1, <3>2 DEF Missing
  <2> QED
    BY <2>2 DEF Missing
<1>5. ~ (/\ \A s \in DOMAIN c.skill : c.skill[s] = 0
         /\ \E s \in DOMAIN brief.asks : brief.asks[s].weight > 0)
  <2>1. ASSUME \A s \in slugs : c.skill[s] = 0
        PROVE  \A s \in slugs : d.skill[s] = 0
    <3> TAKE s \in slugs
    <3>1. c.skill[s] = 0 /\ c.skill[s] >= d.skill[s] /\ d.skill[s] \in Nat
      BY <1>3, <2>1
    <3> QED
      BY <3>1
  <2> QED
    BY <1>3, <2>1 DEF Excluded
<1>6. ~(c.years < brief.minYears)
  <2>1. c.years \in Nat /\ d.years \in Nat /\ brief.minYears \in Nat /\ c.years >= d.years
    BY DEF CandidatesOn, BriefsOn, AtLeastAsGood
  <2>2. ~(d.years < brief.minYears)
    BY DEF Excluded
  <2> QED
    BY <2>1, <2>2
<1>7. ~(c.declined # Never /\ c.declined < DECLINE_COOLOFF_DAYS)
  <2>1. /\ c.declined \in Nat \cup {-1} /\ d.declined \in Nat \cup {-1}
        /\ c.declined = -1 \/ (d.declined # -1 /\ c.declined >= d.declined)
    BY DEF CandidatesOn, AtLeastAsGood, Never
  <2>2. ~(d.declined # -1 /\ d.declined < 14)
    BY DEF Excluded, Never, DECLINE_COOLOFF_DAYS
  <2>3. ~(c.declined # -1 /\ c.declined < 14)
    BY <2>1, <2>2
  <2> QED
    BY <2>3 DEF Never, DECLINE_COOLOFF_DAYS
<1> QED
  BY <1>1, <1>2, <1>4, <1>5, <1>6, <1>7 DEF Excluded

-----------------------------------------------------------------------------
\* Sums over sets.  They are a recursion whose solution has to be shown to exist.
Pick(s) == CHOOSE x \in s : TRUE
Sums(f, I, g) == g = [s \in SUBSET I |-> IF s = {} THEN 0 ELSE f[Pick(s)] + g[s \ {Pick(s)}]]
SumOf(f, I) == (CHOOSE g : Sums(f, I, g))[I]

LEMMA Subsets ==
  ASSUME NEW I, IsFiniteSet(I)
  PROVE  /\ \A s \in SUBSET I : IsFiniteSet(s) /\ Cardinality(s) \in Nat /\ (Cardinality(s) = 0 <=> s = {})
         /\ \A s \in SUBSET I : s # {} =>
              Pick(s) \in s /\ s \ {Pick(s)} \in SUBSET I /\ Cardinality(s \ {Pick(s)}) = Cardinality(s) - 1
<1>1. \A s \in SUBSET I : IsFiniteSet(s) /\ Cardinality(s) \in Nat /\ (Cardinality(s) = 0 <=> s = {})
  BY FS_Subset, FS_CardinalityType, FS_EmptySet
<1>2. \A s \in SUBSET I : s # {} => Pick(s) \in s
  BY DEF Pick
<1> QED
  BY <1>1, <1>2, FS_RemoveElement

\* A property of subsets that the smaller ones pass on holds of all.
LEMMA BySize ==
  ASSUME NEW I, IsFiniteSet(I), NEW Good \in SUBSET (SUBSET I), {} \in Good,
         \A s \in SUBSET I : s # {} /\ s \ {Pick(s)} \in Good => s \in Good
  PROVE  Good = SUBSET I
<1> DEFINE Bad == {n \in Nat : \E s \in SUBSET I : Cardinality(s) = n /\ s \notin Good}
<1> SUFFICES ASSUME Bad # {} PROVE FALSE
  BY Subsets
<1>1. PICK n \in Bad : \A m \in Bad : n <= m
  BY LeastNatural
<1>2. PICK s \in SUBSET I : Cardinality(s) = n /\ s \notin Good
  OBVIOUS
<1>3. s # {} /\ s \ {Pick(s)} \in SUBSET I /\ s \ {Pick(s)} \notin Good
  BY <1>2, Subsets
<1>4. Cardinality(s \ {Pick(s)}) = n - 1 /\ n \in Nat /\ n # 0
  BY <1>2, <1>3, Subsets
<1>5. n - 1 \in Nat /\ ~(n <= n - 1)
  BY <1>4
<1>6. n - 1 \in Bad
  BY <1>3, <1>4, <1>5
<1> QED
  BY <1>1, <1>5, <1>6

LEMMA SumExists ==
  ASSUME NEW I, IsFiniteSet(I), NEW f \in [I -> Nat]
  PROVE  \E g : Sums(f, I, g)
<1> DEFINE Upto(n) == {s \in SUBSET I : Cardinality(s) <= n}
           Unrolls(g, D) == g = [s \in D |-> IF s = {} THEN 0 ELSE f[Pick(s)] + g[s \ {Pick(s)}]]
           Bad == {n \in Nat : ~ \E g : Unrolls(g, Upto(n))}
<1>1. 0 \notin Bad
  <2>1. Upto(0) = {{}}
    BY Subsets
  <2>2. Unrolls([s \in Upto(0) |-> 0], Upto(0))
    BY <2>1
  <2> QED
    BY <2>2
<1>2. ASSUME NEW n \in Nat, n \notin Bad
      PROVE  n + 1 \notin Bad
  <2>1. PICK g : Unrolls(g, Upto(n))
    BY <1>2
  <2> DEFINE h == [s \in Upto(n + 1) |-> IF s = {} THEN 0 ELSE f[Pick(s)] + g[s \ {Pick(s)}]]
  <2>2. \A s \in Upto(n + 1) : s # {} => s \ {Pick(s)} \in Upto(n)
    BY Subsets
  <2>3. Upto(n) \subseteq Upto(n + 1)
    BY Subsets
  <2>4. \A s \in Upto(n) : h[s] = g[s]
    BY <2>1, <2>3
  <2>5. Unrolls(h, Upto(n + 1))
    BY <2>2, <2>4
  <2> QED
    BY <2>5
<1>3. Bad = {}
  <2> SUFFICES ASSUME Bad # {} PROVE FALSE
    OBVIOUS
  <2>1. PICK n \in Bad : \A m \in Bad : n <= m
    BY LeastNatural
  <2>2. n \in Nat /\ n # 0
    BY <1>1
  <2>3. n - 1 \in Nat /\ (n - 1) + 1 = n /\ ~(n <= n - 1)
    BY <2>2
  <2> HIDE DEF Bad
  <2>4. n - 1 \in Bad
    BY <1>2, <2>3
  <2> QED
    BY <2>1, <2>3, <2>4
<1>4. Cardinality(I) \in Nat /\ Upto(Cardinality(I)) = SUBSET I
  BY FS_Subset, FS_CardinalityType
<1>5. \E g : Unrolls(g, Upto(Cardinality(I)))
  BY <1>3, <1>4
<1> QED
  BY <1>4, <1>5 DEF Sums

\* The chosen solution, its values, and how it compares with a greater one.
Adds(g, f, I) ==
  /\ g \in [SUBSET I -> Nat]
  /\ SumOf(f, I) = g[I]
  /\ \A s \in SUBSET I : g[s] = IF s = {} THEN 0 ELSE f[Pick(s)] + g[s \ {Pick(s)}]

LEMMA SumSolved ==
  ASSUME NEW I, IsFiniteSet(I), NEW f \in [I -> Nat]
  PROVE  \E g : Adds(g, f, I)
<1> DEFINE g == CHOOSE g : Sums(f, I, g)
           Good == {s \in SUBSET I : g[s] \in Nat}
<1>1. Sums(f, I, g)
  BY SumExists
<1> HIDE DEF g
<1>2. \A s \in SUBSET I : g[s] = IF s = {} THEN 0 ELSE f[Pick(s)] + g[s \ {Pick(s)}]
  BY <1>1 DEF Sums
<1>3. \A s \in SUBSET I : s # {} /\ s \ {Pick(s)} \in Good => s \in Good
  BY <1>2, Subsets
<1>4. {} \in Good
  BY <1>2
<1>5. Good = SUBSET I
  <2> HIDE DEF Good
  <2>1. Good \in SUBSET (SUBSET I)
    BY DEF Good
  <2> QED
    BY <1>3, <1>4, <2>1, BySize
<1>6. g \in [SUBSET I -> Nat]
  BY <1>1, <1>5 DEF Sums
<1>7. SumOf(f, I) = g[I]
  BY DEF SumOf, g
<1> QED
  BY <1>2, <1>6, <1>7 DEF Adds

LEMMA SumGrows ==
  ASSUME NEW I, IsFiniteSet(I), NEW f \in [I -> Nat], NEW k \in [I -> Nat], \A x \in I : f[x] <= k[x]
  PROVE  SumOf(f, I) \in Nat /\ SumOf(k, I) \in Nat /\ SumOf(f, I) <= SumOf(k, I)
<1>0. PICK g : Adds(g, f, I)
  BY SumSolved
<1>1. /\ g \in [SUBSET I -> Nat]
      /\ SumOf(f, I) = g[I]
      /\ \A s \in SUBSET I : g[s] = IF s = {} THEN 0 ELSE f[Pick(s)] + g[s \ {Pick(s)}]
  BY <1>0 DEF Adds
<1>b. PICK h : Adds(h, k, I)
  BY SumSolved
<1>2. /\ h \in [SUBSET I -> Nat]
      /\ SumOf(k, I) = h[I]
      /\ \A s \in SUBSET I : h[s] = IF s = {} THEN 0 ELSE k[Pick(s)] + h[s \ {Pick(s)}]
  BY <1>b DEF Adds
<1> DEFINE Good == {s \in SUBSET I : g[s] <= h[s]}
<1>3. {} \in Good
  <2>1. g[{}] = 0 /\ h[{}] = 0
    BY <1>1, <1>2
  <2> QED
    BY <2>1
<1>4. ASSUME NEW s \in SUBSET I, s # {}, s \ {Pick(s)} \in Good
      PROVE  s \in Good
  <2>1. Pick(s) \in I /\ s \ {Pick(s)} \in SUBSET I
    BY <1>4, Subsets
  <2>2. /\ g[s] = f[Pick(s)] + g[s \ {Pick(s)}] /\ h[s] = k[Pick(s)] + h[s \ {Pick(s)}]
        /\ f[Pick(s)] <= k[Pick(s)] /\ g[s \ {Pick(s)}] <= h[s \ {Pick(s)}]
        /\ {f[Pick(s)], k[Pick(s)], g[s \ {Pick(s)}], h[s \ {Pick(s)}]} \subseteq Nat
    BY <1>1, <1>2, <1>4, <2>1
  <2>3. g[s] <= h[s]
    BY <2>2
  <2> QED
    BY <2>3
<1>5. Good = SUBSET I
  <2> HIDE DEF Good
  <2>1. Good \in SUBSET (SUBSET I)
    BY DEF Good
  <2> QED
    BY <1>3, <1>4, <2>1, BySize
<1> QED
  BY <1>1, <1>2, <1>5

LEMMA SumPositive ==
  ASSUME NEW I, IsFiniteSet(I), I # {}, NEW f \in [I -> Nat], \A x \in I : f[x] > 0
  PROVE  SumOf(f, I) \in Nat \ {0}
<1>0. PICK g : Adds(g, f, I)
  BY SumSolved
<1>1. /\ g \in [SUBSET I -> Nat]
      /\ SumOf(f, I) = g[I]
      /\ \A s \in SUBSET I : g[s] = IF s = {} THEN 0 ELSE f[Pick(s)] + g[s \ {Pick(s)}]
  BY <1>0 DEF Adds
<1>2. Pick(I) \in I /\ I \ {Pick(I)} \in SUBSET I
  BY Subsets
<1>3. g[I] = f[Pick(I)] + g[I \ {Pick(I)}] /\ g[I \ {Pick(I)}] \in Nat /\ f[Pick(I)] \in Nat /\ f[Pick(I)] > 0
  BY <1>1, <1>2
<1> QED
  BY <1>1, <1>3

-----------------------------------------------------------------------------
\* The two sums of a part for skills.
WeightOf(brief, I) == [s \in I |-> brief.asks[s].weight]
EarnedOf(c, brief, I) == [s \in I |-> brief.asks[s].weight * Earned(c, brief, s)]

LEMMA SkillsAre ==
  ASSUME NEW c, NEW brief, NEW required, NEW points
  PROVE  LET asked == Asked(brief, required)
         IN  Skills(c, brief, required, points) =
               IF asked = {} THEN Part(points, 1, 1)
               ELSE Part(points, SumOf(EarnedOf(c, brief, asked), asked),
                         240 * SumOf(WeightOf(brief, asked), asked))
<1> DEFINE asked == Asked(brief, required)
           W(g) == [s \in SUBSET asked |-> IF s = {} THEN 0 ELSE brief.asks[Pick(s)].weight + g[s \ {Pick(s)}]]
           V(g) == [s \in SUBSET asked |-> IF s = {} THEN 0 ELSE WeightOf(brief, asked)[Pick(s)] + g[s \ {Pick(s)}]]
           E(g) == [s \in SUBSET asked |-> IF s = {} THEN 0
                      ELSE brief.asks[Pick(s)].weight * Earned(c, brief, Pick(s)) + g[s \ {Pick(s)}]]
           D(g) == [s \in SUBSET asked |-> IF s = {} THEN 0
                      ELSE EarnedOf(c, brief, asked)[Pick(s)] + g[s \ {Pick(s)}]]
<1>1. \A s \in SUBSET asked : s # {} => Pick(s) \in asked
  BY DEF Pick
<1> HIDE DEF asked
<1>2. \A g : W(g) = V(g)
  BY <1>1 DEF WeightOf
<1>3. \A g : E(g) = D(g)
  BY <1>1 DEF EarnedOf
<1>4. (CHOOSE g : g = W(g)) = (CHOOSE g : g = V(g))
  BY <1>2, Zenon
<1>5. (CHOOSE g : g = E(g)) = (CHOOSE g : g = D(g))
  BY <1>3, Zenon
<1>6. (CHOOSE g : g = V(g))[asked] = SumOf(WeightOf(brief, asked), asked)
  BY DEF SumOf, Sums
<1>7. (CHOOSE g : g = D(g))[asked] = SumOf(EarnedOf(c, brief, asked), asked)
  BY DEF SumOf, Sums
<1>8. Skills(c, brief, required, points) =
        IF asked = {} THEN Part(points, 1, 1)
        ELSE Part(points, (CHOOSE g : g = E(g))[asked], 240 * (CHOOSE g : g = W(g))[asked])
  BY DEF Skills, MapThenSumSet, MapThenFoldSet, Pick, asked
<1> QED
  BY <1>4, <1>5, <1>6, <1>7, <1>8 DEF asked

\* A deeper skill earns no less, and never more than its weight in full.
LEMMA DepthGrows ==
  ASSUME NEW slugs, NEW c \in CandidatesOn(slugs), NEW d \in CandidatesOn(slugs),
         NEW brief \in BriefsOn(slugs), NEW s \in slugs, c.skill[s] >= d.skill[s]
  PROVE  /\ Depth(c, brief, s) \in 0 .. 12 /\ Depth(d, brief, s) \in 0 .. 12
         /\ Depth(d, brief, s) <= Depth(c, brief, s)
<1>1. /\ c.skill[s] \in Nat /\ d.skill[s] \in Nat /\ brief.asks[s].min \in Nat
  BY DEF CandidatesOn, BriefsOn
<1>2. CASE brief.asks[s].min >= 5
  BY <1>2 DEF Depth
<1>3. CASE ~ (brief.asks[s].min >= 5)
  <2> DEFINE m == brief.asks[s].min
             x == Clamp(12 * (c.skill[s] - m), 12 * (5 - m))
             y == Clamp(12 * (d.skill[s] - m), 12 * (5 - m))
  <2>1. /\ 5 - m \in Nat \ {0} /\ 12 * (5 - m) \in Nat
        /\ 12 * (d.skill[s] - m) \in Int /\ 12 * (c.skill[s] - m) \in Int
        /\ 12 * (d.skill[s] - m) <= 12 * (c.skill[s] - m)
    BY <1>1, <1>3
  <2>2. x \in 0 .. 12 * (5 - m) /\ y \in 0 .. 12 * (5 - m) /\ y <= x
    BY <2>1, ClampGrows
  <2>3. Depth(c, brief, s) = x \div (5 - m) /\ Depth(d, brief, s) = y \div (5 - m)
    BY <1>3 DEF Depth
  <2> HIDE DEF x, y, m
  <2>4. (0 * (5 - m) + 0) \div (5 - m) = 0 /\ (12 * (5 - m) + 0) \div (5 - m) = 12
    BY <2>1, QuotientExact
  <2>5. 0 * (5 - m) + 0 = 0 /\ 12 * (5 - m) + 0 = 12 * (5 - m)
    BY <2>1
  <2>6. /\ x \in Int /\ y \in Int /\ 0 <= y /\ y <= x /\ x <= 12 * (5 - m) /\ 0 \in Int
        /\ 12 * (5 - m) \in Int
    BY <2>1, <2>2
  <2>7. /\ y \div (5 - m) \in Int /\ x \div (5 - m) \in Int /\ y \div (5 - m) <= x \div (5 - m)
        /\ 0 \div (5 - m) <= y \div (5 - m) /\ x \div (5 - m) <= (12 * (5 - m)) \div (5 - m)
    BY <2>1, <2>6, QuotientGrows
  <2> QED
    BY <2>3, <2>4, <2>5, <2>7
<1> QED
  BY <1>2, <1>3

LEMMA EarnedGrows ==
  ASSUME NEW slugs, NEW c \in CandidatesOn(slugs), NEW d \in CandidatesOn(slugs),
         NEW brief \in BriefsOn(slugs), NEW s \in slugs, c.skill[s] >= d.skill[s]
  PROVE  /\ Earned(c, brief, s) \in 0 .. 240 /\ Earned(d, brief, s) \in 0 .. 240
         /\ Earned(d, brief, s) <= Earned(c, brief, s)
<1>1. /\ c.skill[s] \in Nat /\ d.skill[s] \in Nat /\ brief.asks[s].min \in Nat
      /\ brief.asks[s].required \in BOOLEAN
  BY DEF CandidatesOn, BriefsOn
<1>2. /\ Depth(c, brief, s) \in 0 .. 12 /\ Depth(d, brief, s) \in 0 .. 12
      /\ Depth(d, brief, s) <= Depth(c, brief, s)
  BY DepthGrows
<1>3. CASE brief.asks[s].required
  BY <1>1, <1>2, <1>3 DEF Earned
<1>4. CASE ~brief.asks[s].required
  BY <1>1, <1>2, <1>4 DEF Earned
<1> QED
  BY <1>3, <1>4

\* Each part: within its points, and no smaller for the better.
LEMMA SkillsGrow ==
  ASSUME NEW slugs, IsFiniteSet(slugs),
         NEW c \in CandidatesOn(slugs), NEW d \in CandidatesOn(slugs),
         NEW brief \in BriefsOn(slugs), \A s \in slugs : c.skill[s] >= d.skill[s],
         NEW required, NEW points \in Nat
  PROVE  Grow(Skills(c, brief, required, points), Skills(d, brief, required, points), 100 * points)
<1> DEFINE I == Asked(brief, required)
           w == WeightOf(brief, I)
           e == EarnedOf(c, brief, I)
           f == EarnedOf(d, brief, I)
<1>1. I \subseteq slugs /\ \A s \in I : brief.asks[s].weight \in Nat /\ brief.asks[s].weight > 0
  BY DEF Asked, BriefsOn
<1>2. IsFiniteSet(I)
  BY <1>1, FS_Subset
<1>3. /\ Skills(c, brief, required, points) =
           IF I = {} THEN Part(points, 1, 1) ELSE Part(points, SumOf(e, I), 240 * SumOf(w, I))
      /\ Skills(d, brief, required, points) =
           IF I = {} THEN Part(points, 1, 1) ELSE Part(points, SumOf(f, I), 240 * SumOf(w, I))
  BY SkillsAre
<1> HIDE DEF I
<1>4. CASE I = {}
  <2>1. 100 * points \in Int /\ 0 <= 100 * points
    OBVIOUS
  <2> QED
    BY <1>3, <1>4, <2>1, PartFull DEF Grow
<1>5. CASE I # {}
  <2>1. w \in [I -> Nat] /\ \A s \in I : w[s] > 0
    BY <1>1 DEF WeightOf
  <2>2. ASSUME NEW s \in I
        PROVE  e[s] \in Nat /\ f[s] \in Nat /\ f[s] <= e[s]
    <3>1. s \in slugs /\ brief.asks[s].weight \in Nat
      BY <1>1
    <3>2. /\ Earned(c, brief, s) \in 0 .. 240 /\ Earned(d, brief, s) \in 0 .. 240
          /\ Earned(d, brief, s) <= Earned(c, brief, s)
      BY <3>1, EarnedGrows
    <3>3. \A x, y, k \in Nat : x <= y => k * x \in Nat /\ k * y \in Nat /\ k * x <= k * y
      BY ProductGrows
    <3>4. e[s] = brief.asks[s].weight * Earned(c, brief, s) /\ f[s] = brief.asks[s].weight * Earned(d, brief, s)
      BY DEF EarnedOf
    <3> HIDE DEF e, f
    <3>5. PICK x \in Nat : x = Earned(c, brief, s)
      BY <3>2
    <3>6. PICK y \in Nat : y = Earned(d, brief, s)
      BY <3>2
    <3>7. PICK k \in Nat : k = brief.asks[s].weight
      BY <3>1
    <3>8. y <= x /\ k * x \in Nat /\ k * y \in Nat /\ k * y <= k * x
      BY <3>2, <3>3, <3>5, <3>6
    <3> QED
      BY <3>4, <3>5, <3>6, <3>7, <3>8
  <2>3. e \in [I -> Nat] /\ f \in [I -> Nat]
    BY <2>2 DEF EarnedOf
  <2> HIDE DEF w, e, f
  <2>4. SumOf(f, I) \in Nat /\ SumOf(e, I) \in Nat /\ SumOf(f, I) <= SumOf(e, I)
    BY <1>2, <2>2, <2>3, SumGrows
  <2>5. SumOf(w, I) \in Nat \ {0}
    BY <1>2, <1>5, <2>1, SumPositive
  <2>6. 240 * SumOf(w, I) \in Nat \ {0} /\ SumOf(f, I) \in Int /\ SumOf(e, I) \in Int
    BY <2>4, <2>5
  <2>7. Grow(Part(points, SumOf(e, I), 240 * SumOf(w, I)), Part(points, SumOf(f, I), 240 * SumOf(w, I)), 100 * points)
    BY <2>4, <2>6, PartsGrow
  <2> QED
    BY <1>3, <1>5, <2>7
<1> QED
  BY <1>4, <1>5

LEMMA SeniorityGrows ==
  ASSUME NEW slugs, NEW c \in CandidatesOn(slugs), NEW d \in CandidatesOn(slugs),
         NEW brief \in BriefsOn(slugs), c.years >= d.years, NEW points \in Nat
  PROVE  Grow(Seniority(c, brief, points), Seniority(d, brief, points), 100 * points)
<1> DEFINE years == IF brief.minYears < 1 THEN 1 ELSE brief.minYears
<1>1. c.years \in Int /\ d.years \in Int /\ d.years <= c.years /\ 2 * years \in Nat \ {0}
  BY DEF CandidatesOn, BriefsOn
<1>2. /\ Seniority(c, brief, points) = Part(points, c.years, 2 * years)
      /\ Seniority(d, brief, points) = Part(points, d.years, 2 * years)
  BY DEF Seniority
<1> HIDE DEF years
<1>3. Grow(Part(points, c.years, 2 * years), Part(points, d.years, 2 * years), 100 * points)
  BY <1>1, PartsGrow
<1> QED
  BY <1>2, <1>3

LEMMA RateGrows ==
  ASSUME NEW slugs, NEW c \in CandidatesOn(slugs), NEW d \in CandidatesOn(slugs),
         NEW brief \in BriefsOn(slugs), c.rate <= d.rate, NEW points \in Nat
  PROVE  Grow(Rate(c, brief, points), Rate(d, brief, points), 100 * points)
<1>1. c.rate \in Nat /\ d.rate \in Nat /\ brief.maxRate \in Nat
  BY DEF CandidatesOn, BriefsOn
<1>2. Part(points, 1, 1) = 100 * points /\ 100 * points \in Nat
  BY PartFull
<1> DEFINE x == 5 * brief.maxRate - 4 * c.rate
           y == 5 * brief.maxRate - 4 * d.rate
<1>3. x \in Int /\ y \in Int /\ y <= x
  BY <1>1
<1>4. CASE brief.maxRate = 0 \/ d.rate <= brief.maxRate
  BY <1>1, <1>2, <1>4 DEF Rate, Grow
<1>5. CASE brief.maxRate # 0 /\ ~(d.rate <= brief.maxRate)
  <2>1. Grow(Part(points, x, brief.maxRate), Part(points, y, brief.maxRate), 100 * points)
    <3> HIDE DEF x, y
    <3>1. brief.maxRate \in Nat \ {0}
      BY <1>1, <1>5
    <3> QED
      BY <1>3, <3>1, PartsGrow
  <2>2. Rate(d, brief, points) = Part(points, y, brief.maxRate)
    BY <1>5 DEF Rate
  <2>3. Rate(c, brief, points) \in {Part(points, 1, 1), Part(points, x, brief.maxRate)}
    BY DEF Rate
  <2> HIDE DEF x, y
  <2> QED
    BY <1>2, <2>1, <2>2, <2>3 DEF Grow
<1> QED
  BY <1>4, <1>5

LEMMA AvailabilityGrows ==
  ASSUME NEW slugs, NEW c \in CandidatesOn(slugs), NEW d \in CandidatesOn(slugs),
         NEW brief \in BriefsOn(slugs), c.capacity >= d.capacity,
         workingHoursOverlap(c.offset, brief.offset) >= workingHoursOverlap(d.offset, brief.offset),
         NEW points \in Nat
  PROVE  Grow(Availability(c, brief, points), Availability(d, brief, points), 100 * points)
<1> DEFINE x == Clamp(workingHoursOverlap(c.offset, brief.offset), 6)
           y == Clamp(workingHoursOverlap(d.offset, brief.offset), 6)
           k == Clamp(c.capacity, brief.hours)
           l == Clamp(d.capacity, brief.hours)
           h == brief.hours
<1>1. /\ workingHoursOverlap(c.offset, brief.offset) \in Int
      /\ workingHoursOverlap(d.offset, brief.offset) \in Int
  BY OverlapIs DEF CandidatesOn, BriefsOn
<1>2. x \in 0 .. 6 /\ y \in 0 .. 6 /\ y <= x
  BY <1>1, ClampGrows
<1>3. k \in 0 .. h /\ l \in 0 .. h /\ l <= k /\ h \in Nat
  BY ClampGrows DEF CandidatesOn, BriefsOn
<1>4. /\ Availability(c, brief, points) =
           IF h = 0 THEN Part(points, x + 4, 10) ELSE Part(points, x * h + 4 * k, 10 * h)
      /\ Availability(d, brief, points) =
           IF h = 0 THEN Part(points, y + 4, 10) ELSE Part(points, y * h + 4 * l, 10 * h)
  BY DEF Availability
<1> HIDE DEF x, y, k, l, h
<1>5. CASE h = 0
  <2>1. x + 4 \in Int /\ y + 4 \in Int /\ y + 4 <= x + 4
    BY <1>2
  <2>2. Grow(Part(points, x + 4, 10), Part(points, y + 4, 10), 100 * points)
    BY <2>1, PartsGrow
  <2> QED
    BY <1>4, <1>5, <2>2
<1>6. CASE h # 0
  <2>1. x * h \in Int /\ y * h \in Int /\ y * h <= x * h
    BY <1>2, <1>3, ProductGrows
  <2>2. /\ x * h + 4 * k \in Int /\ y * h + 4 * l \in Int /\ y * h + 4 * l <= x * h + 4 * k
        /\ 10 * h \in Nat \ {0}
    BY <1>3, <1>6, <2>1
  <2>3. Grow(Part(points, x * h + 4 * k, 10 * h), Part(points, y * h + 4 * l, 10 * h), 100 * points)
    BY <2>2, PartsGrow
  <2> QED
    BY <1>4, <1>6, <2>3
<1> QED
  BY <1>5, <1>6

LEMMA StandingGrows ==
  ASSUME NEW slugs, NEW c \in CandidatesOn(slugs), NEW d \in CandidatesOn(slugs),
         STANDING_BY_STATUS[c.status] >= STANDING_BY_STATUS[d.status], c.seats <= d.seats,
         NEW points \in Nat
  PROVE  Grow(Standing(c, points), Standing(d, points), 100 * points)
<1> DEFINE u == STANDING_BY_STATUS[c.status]
           v == STANDING_BY_STATUS[d.status]
           b == IF c.seats >= 2 THEN 60 ELSE IF c.seats = 1 THEN 85 ELSE 100
           e == IF d.seats >= 2 THEN 60 ELSE IF d.seats = 1 THEN 85 ELSE 100
<1>1. u \in Nat /\ v \in Nat /\ v <= u
  BY DEF CandidatesOn, STANDING_BY_STATUS
<1>2. b \in {60, 85, 100} /\ e \in {60, 85, 100} /\ e <= b
  BY DEF CandidatesOn
<1>3. Standing(c, points) = Part(points, u * b, 10000) /\ Standing(d, points) = Part(points, v * e, 10000)
  BY DEF Standing
<1> HIDE DEF u, v, b, e
<1>4. u * b \in Int /\ v * e \in Int /\ v * e <= u * b
  <2>1. v * e <= u * e /\ u * e <= u * b
    BY <1>1, <1>2, ProductGrows
  <2> QED
    BY <1>1, <1>2, <2>1
<1>5. Grow(Part(points, u * b, 10000), Part(points, v * e, 10000), 100 * points)
  BY <1>4, PartsGrow
<1> QED
  BY <1>3, <1>5

\* Together.
LEMMA RawGrows ==
  ASSUME NEW slugs, IsFiniteSet(slugs),
         NEW c \in CandidatesOn(slugs), NEW d \in CandidatesOn(slugs),
         NEW brief \in BriefsOn(slugs), AtLeastAsGood(c, d, brief)
  PROVE  /\ Raw(c, brief, DEFAULT_WEIGHTS) \in Int /\ Raw(d, brief, DEFAULT_WEIGHTS) \in Int
         /\ Raw(d, brief, DEFAULT_WEIGHTS) <= Raw(c, brief, DEFAULT_WEIGHTS)
         /\ Raw(c, brief, DEFAULT_WEIGHTS) <= 10000
<1>1. /\ \A s \in slugs : c.skill[s] >= d.skill[s]
      /\ c.years >= d.years /\ c.rate <= d.rate /\ c.capacity >= d.capacity
      /\ workingHoursOverlap(c.offset, brief.offset) >= workingHoursOverlap(d.offset, brief.offset)
      /\ STANDING_BY_STATUS[c.status] >= STANDING_BY_STATUS[d.status] /\ c.seats <= d.seats
  BY DEF AtLeastAsGood, CandidatesOn
<1> DEFINE a == Skills(c, brief, TRUE, 35)
           b == Skills(d, brief, TRUE, 35)
           e == Skills(c, brief, FALSE, 20)
           f == Skills(d, brief, FALSE, 20)
           g == Seniority(c, brief, 15)
           h == Seniority(d, brief, 15)
           i == Rate(c, brief, 12)
           j == Rate(d, brief, 12)
           k == Availability(c, brief, 10)
           l == Availability(d, brief, 10)
           m == Standing(c, 8)
           n == Standing(d, 8)
<1>2. Grow(a, b, 3500)
  <2>1. 35 \in Nat /\ 100 * 35 = 3500
    OBVIOUS
  <2>2. Grow(a, b, 100 * 35)
    <3>1. \A q : Grow(Skills(c, brief, q, 35), Skills(d, brief, q, 35), 100 * 35)
      BY <1>1, <2>1, SkillsGrow
    <3> QED
      BY <3>1, Zenon
  <2> HIDE DEF a, b
  <2> QED
    BY <2>1, <2>2
<1>3. Grow(e, f, 2000)
  <2>1. 20 \in Nat /\ 100 * 20 = 2000
    OBVIOUS
  <2>2. Grow(e, f, 100 * 20)
    <3>1. \A q : Grow(Skills(c, brief, q, 20), Skills(d, brief, q, 20), 100 * 20)
      BY <1>1, <2>1, SkillsGrow
    <3> QED
      BY <3>1, Zenon
  <2> HIDE DEF e, f
  <2> QED
    BY <2>1, <2>2
<1>4. Grow(g, h, 1500)
  <2>1. 15 \in Nat /\ 100 * 15 = 1500
    OBVIOUS
  <2>2. Grow(g, h, 100 * 15)
    BY <1>1, <2>1, SeniorityGrows
  <2> HIDE DEF g, h
  <2> QED
    BY <2>1, <2>2
<1>5. Grow(i, j, 1200)
  <2>1. 12 \in Nat /\ 100 * 12 = 1200
    OBVIOUS
  <2>2. Grow(i, j, 100 * 12)
    BY <1>1, <2>1, RateGrows
  <2> HIDE DEF i, j
  <2> QED
    BY <2>1, <2>2
<1>6. Grow(k, l, 1000)
  <2>1. 10 \in Nat /\ 100 * 10 = 1000
    OBVIOUS
  <2>2. Grow(k, l, 100 * 10)
    BY <1>1, <2>1, AvailabilityGrows
  <2> HIDE DEF k, l
  <2> QED
    BY <2>1, <2>2
<1>7. Grow(m, n, 800)
  <2>1. 8 \in Nat /\ 100 * 8 = 800
    OBVIOUS
  <2>2. Grow(m, n, 100 * 8)
    BY <1>1, <2>1, StandingGrows
  <2> HIDE DEF m, n
  <2> QED
    BY <2>1, <2>2
<1>9. Grow(a + e + g + i + k + m, b + f + h + j + l + n, 10000)
  <2> HIDE DEF a, b, e, f, g, h, i, j, k, l, m, n
  <2> QED
    BY <1>2, <1>3, <1>4, <1>5, <1>6, <1>7 DEF Grow
<1>10. Grow(Raw(c, brief, DEFAULT_WEIGHTS), Raw(d, brief, DEFAULT_WEIGHTS), 10000)
  <2>1. Raw(c, brief, DEFAULT_WEIGHTS) = a + e + g + i + k + m
    BY DEF Raw, DEFAULT_WEIGHTS
  <2>2. Raw(d, brief, DEFAULT_WEIGHTS) = b + f + h + j + l + n
    BY DEF Raw, DEFAULT_WEIGHTS
  <2> HIDE DEF a, b, e, f, g, h, i, j, k, l, m, n
  <2> QED
    BY <1>9, <2>1, <2>2
<1> QED
  BY <1>10 DEF Grow

\* Everyone is at least as good as themselves.
LEMMA AsGoodAsOneself ==
  ASSUME NEW slugs, NEW c \in CandidatesOn(slugs), NEW brief \in BriefsOn(slugs)
  PROVE  AtLeastAsGood(c, c, brief)
<1>1. /\ c.skill \in [slugs -> Nat] /\ c.years \in Int /\ c.rate \in Int /\ c.capacity \in Int
      /\ c.seats \in Int /\ c.declined \in Int
  BY DEF CandidatesOn, Never
<1>2. STANDING_BY_STATUS[c.status] \in Int
  BY DEF CandidatesOn, STANDING_BY_STATUS
<1>3. workingHoursOverlap(c.offset, brief.offset) \in Int
  BY OverlapIs DEF CandidatesOn, BriefsOn
<1> QED
  BY <1>1, <1>2, <1>3 DEF AtLeastAsGood

LEMMA ScoreGrows ==
  ASSUME NEW slugs, IsFiniteSet(slugs),
         NEW c \in CandidatesOn(slugs), NEW d \in CandidatesOn(slugs),
         NEW brief \in BriefsOn(slugs), AtLeastAsGood(c, d, brief)
  PROVE  Score(c, brief) \in Int /\ Score(d, brief) \in Int /\ Score(d, brief) <= Score(c, brief)
<1>1. totalWeight(DEFAULT_WEIGHTS) = 100
  BY DEF totalWeight, DEFAULT_WEIGHTS
<1>2. /\ Rounded(Raw(c, brief, DEFAULT_WEIGHTS), 100) \in Int
      /\ Rounded(Raw(d, brief, DEFAULT_WEIGHTS), 100) \in Int
      /\ Rounded(Raw(d, brief, DEFAULT_WEIGHTS), 100) <= Rounded(Raw(c, brief, DEFAULT_WEIGHTS), 100)
  BY RawGrows, RoundedGrows
<1> QED
  BY <1>1, <1>2, ClampGrows DEF Score, scoreCandidate

\* scoreCandidate, rankCandidates: for every two candidates and every brief, over
\* any finite set of skills, the better is never ranked lower or excluded, ties
\* are settled by id, and the points fit the hundred.
THEOREM RankingIsSound ==
  ASSUME NEW slugs, IsFiniteSet(slugs),
         NEW c \in CandidatesOn(slugs), NEW d \in CandidatesOn(slugs), NEW brief \in BriefsOn(slugs)
  PROVE  RankingSound(c, d, brief)
<1>1. Rewarding(c, d, brief)
  <2> SUFFICES ASSUME AtLeastAsGood(c, d, brief), ~Excluded(d, brief)
               PROVE  ~Excluded(c, brief) /\ Score(c, brief) >= Score(d, brief)
    BY DEF Rewarding
  <2>1. ~Excluded(c, brief)
    BY BetterMayBeRanked
  <2>2. Score(c, brief) \in Int /\ Score(d, brief) \in Int /\ Score(d, brief) <= Score(c, brief)
    BY ScoreGrows
  <2> QED
    BY <2>1, <2>2
<1>2. Decided(c, d, brief)
  <2>1. Score(c, brief) \in Int /\ Score(d, brief) \in Int
    BY AsGoodAsOneself, ScoreGrows
  <2>2. c.id \in Int /\ d.id \in Int
    BY DEF CandidatesOn
  <2>3. CASE Excluded(c, brief) # Excluded(d, brief)
    <3>1. Excluded(c, brief) \in BOOLEAN /\ Excluded(d, brief) \in BOOLEAN
      BY Zenon DEF Excluded
    <3>2. Before(c, d, brief) <=> ~Excluded(c, brief)
      BY <2>3, Zenon DEF Before
    <3>3. Before(d, c, brief) <=> ~Excluded(d, brief)
      BY <2>3, Zenon DEF Before
    <3> QED
      BY <2>3, <3>1, <3>2, <3>3 DEF Decided
  <2>4. CASE Excluded(c, brief) = Excluded(d, brief)
    <3>1. Before(c, d, brief) <=>
            (Score(c, brief) > Score(d, brief) \/ (Score(c, brief) = Score(d, brief) /\ c.id < d.id))
      BY <2>4, Zenon DEF Before
    <3>2. Before(d, c, brief) <=>
            (Score(d, brief) > Score(c, brief) \/ (Score(d, brief) = Score(c, brief) /\ d.id < c.id))
      BY <2>4, Zenon DEF Before
    <3> QED
      BY <2>1, <2>2, <3>1, <3>2 DEF Decided
  <2> QED
    BY <2>3, <2>4
<1>3. Weighted(c, d, brief)
  <2>1. Raw(c, brief, DEFAULT_WEIGHTS) <= 100 * totalWeight(DEFAULT_WEIGHTS)
    <3>1. totalWeight(DEFAULT_WEIGHTS) = 100
      BY DEF totalWeight, DEFAULT_WEIGHTS
    <3>2. Raw(c, brief, DEFAULT_WEIGHTS) <= 10000
      BY AsGoodAsOneself, RawGrows
    <3> QED
      BY <3>1, <3>2
  <2>2. c.offset \in Offsets /\ d.offset \in Offsets
    BY DEF CandidatesOn
  <2>3. /\ d.offset - c.offset \in -26 .. 26
        /\ c.offset - d.offset = -(d.offset - c.offset)
    BY <2>2 DEF Offsets
  <2> QED
    BY <2>1, <2>2, <2>3, OverlapIs, SharedIs, SharedBothWays DEF Weighted
<1> QED
  BY <1>1, <1>2, <1>3 DEF RankingSound

-----------------------------------------------------------------------------
(***************************************************************************)
(* The console.  For every kind of record there is a lemma that says of    *)
(* each of its records: what the services and the rest of the product make *)
(* of it is again such a record, reached by a declared move; every button  *)
(* shown is permitted and taken, or left to the answer; and some button or *)
(* drift leads on.  The console then only moves between such records.      *)
(***************************************************************************)

\* The records a screen can be about.
Records(k) ==
  CASE k = "support"       -> [is : {"OPEN", "WAITING_ON_EXPERT", "WAITING_ON_OPS", "RESOLVED", "CLOSED"}]
    [] k = "attention"     -> [is : {"OPEN", "RESOLVED", "DISMISSED"}]
    [] k = "payment_item"  -> {i \in [is : {"DRAFT", "READY", "IN_BATCH", "EXPORTED", "VOID"}, flagged : BOOLEAN] :
                                 i.is = "DRAFT" => i.flagged}
    [] k = "payment_batch" -> [is : {"DRAFT", "PENDING_APPROVAL", "APPROVED", "EXPORTED"}, own : BOOLEAN]
    [] k = "outreach"      -> {b \in [is : {"DRAFT", "PENDING_APPROVAL", "APPROVED", "REJECTED",
                                            "PARTIALLY_DISPATCHED", "DISPATCHED"},
                                      mine : BOOLEAN, left : BOOLEAN] :
                                 b.left <=> b.is # "DISPATCHED"}
    [] k = "work"          -> [is : {"ASSIGNED", "SUBMITTED", "REVISION_REQUESTED", "APPROVED", "CANCELLED"}]
    [] k = "offboarding"   -> [is : {"PENDING", "CONFIRMED", "NOT_APPLICABLE"}]
    [] k = "job"           -> [is : {"PENDING", "RUNNING", "SUCCEEDED", "FAILED", "DEAD"}]
    [] k = "project"       -> {p \in C!Projects :
                                 /\ p.is # "DRAFT" => p.needs
                                 /\ p.taken => p.seat # "CONFIRMED"
                                 /\ p.is = "ACTIVE" => ~C!SeatsLeft(p)}
    [] k = "campaign"      -> [is : {"DRAFT", "ACTIVE", "PAUSED", "CLOSED"}]
    [] k = "opportunity"   -> [is : {"DRAFT", "PUBLISHED", "CLOSED"}, told : BOOLEAN, past : BOOLEAN]
    [] k = "rubric"        -> [is : {"NEW", "PUBLISHED"}, drafting : BOOLEAN, criteria : BOOLEAN]
    [] k = "expert"        -> [is : {"NONE", "IN_PROGRESS", "SUBMITTED", "VERIFIED", "REJECTED"},
                               filled : BOOLEAN, letter : BOOLEAN,
                               seated : BOOLEAN, owes : BOOLEAN, archived : BOOLEAN]
    [] k = "screening"     -> [is : {"INVITED", "SUBMITTED", "IN_REVIEW", "REVISION_REQUESTED", "DECIDED", "EXPIRED"},
                               mine : BOOLEAN,
                               seen : SUBSET {"approve", "disapprove"},
                               dispute : {"NONE", "OPEN", "RESOLVED"}, late : BOOLEAN]
    [] k = "candidate"     -> {c \in [is : {"NEW", "DUPLICATE_HOLD", "SCREENING_INVITED", "WITHDRAWN",
                                            "QUALIFIED", "REJECTED"},
                                      twin : BOOLEAN, silent : BOOLEAN, round : {"NONE", "OPEN", "ENDED"},
                                      applied : {"NONE", "ACTIVE", "WITHDRAWN"}] :
                                 c.is = "DUPLICATE_HOLD" => c.twin}

\* What a record becomes is a record of its kind, reached by a declared move.
MovesTo(k, t, u) ==
  /\ u \in Records(k)
  /\ t.is \in DOMAIN C!Declared(k) /\ u.is # t.is => u.is \in C!Declared(k)[t.is]

Kept(k, t) ==
  /\ \A a \in C!Takes(k, t) : \A u \in C!After(k, t, a) : MovesTo(k, t, u)
  /\ \A u \in C!Drift(k, t) : MovesTo(k, t, u)

Permitted(k, t) == \A w \in C!People : \A a \in C!Shows(k, C!May[w], t) : C!Allowed(k, w, TRUE, a)

Granted(k, t) ==
  \A w \in C!People : \A a \in C!Shows(k, C!May[w], t) : a \in C!Takes(k, t) \cup C!LeftToTheAnswer(k, t)

Leaves(k, t) ==
  ~C!Rests(k, t) =>
    \/ \E who \in C!People : \E a \in C!Shows(k, C!May[who], t) \cap C!Takes(k, t) :
         C!After(k, t, a) # {t} \/ a = "match"
    \/ \E u \in C!Drift(k, t) : u.is # t.is
    \/ k = "project" /\ t.is = "DRAFT" /\ ~t.needs
    \/ k = "candidate" /\ t.round = "ENDED" /\ t.applied # "ACTIVE"

Served(k, t) == t # C!Absent /\ Kept(k, t) /\ Permitted(k, t) /\ Granted(k, t) /\ Leaves(k, t)

LEMMA Roles ==
  /\ C!People = {"VIEWER", "OPERATOR", "ADMIN", "EXPERT", "CANDIDATE", "VISITOR"}
  /\ C!OPERATOR \subseteq C!May["ADMIN"] /\ C!May["OPERATOR"] = C!OPERATOR
  /\ C!May["EXPERT"] = {"portal"} /\ C!May["CANDIDATE"] = {"apply"}
BY DEF C!People, C!May, C!ADMIN

\* The ways out: a button that is taken and changes the record, or a drift.
LEMMA WayByButton ==
  ASSUME NEW k, NEW t, NEW w \in C!People,
         NEW a \in C!Shows(k, C!May[w], t) \cap C!Takes(k, t), C!After(k, t, a) # {t}
  PROVE  Leaves(k, t)
BY DEF Leaves

LEMMA WayByOneOf ==
  ASSUME NEW k, NEW t, NEW w \in C!People,
         NEW a \in C!Shows(k, C!May[w], t) \cap C!Takes(k, t),
         NEW u \in C!After(k, t, a), u # t
  PROVE  Leaves(k, t)
BY DEF Leaves

LEMMA WayByDrift ==
  ASSUME NEW k, NEW t, NEW u \in C!Drift(k, t), u.is # t.is PROVE Leaves(k, t)
BY DEF Leaves

LEMMA SupportServed == \A t \in Records("support") : Served("support", t)
<1> SUFFICES ASSUME NEW t \in Records("support") PROVE Served("support", t)
  OBVIOUS
<1>1. t # C!Absent /\ t \in [is : {"OPEN", "WAITING_ON_EXPERT", "WAITING_ON_OPS", "RESOLVED", "CLOSED"}]
  BY DEF Records, C!Absent
<1>2. /\ C!Takes("support", t) = C!SupportTakes(t)
      /\ C!Drift("support", t) = {}
      /\ \A m : C!Shows("support", m, t) =
                  IF C!SupportPage(m, t) THEN C!SupportThread(m, t) \cup C!SupportPanel(m, t) ELSE {}
      /\ \A a : C!After("support", t, a) = C!SupportAfter(t, a)
  BY <1>1 DEF C!Takes, C!Drift, C!Shows, C!After
<1>3. ASSUME NEW u, u \in [is : {"OPEN", "WAITING_ON_EXPERT", "WAITING_ON_OPS", "RESOLVED", "CLOSED"}]
      PROVE  MovesTo("support", t, u)
  BY <1>3 DEF MovesTo, Records, C!Declared
<1>4. Kept("support", t)
  BY <1>1, <1>2, <1>3 DEF Kept, C!Offer, C!SupportTakes, C!SupportAfter
<1>5. Permitted("support", t)
  BY <1>1, <1>2, Roles DEF Permitted, C!Allowed, C!Routes, C!Both, C!All, C!Offer, C!SupportPage,
       C!SupportThread, C!SupportPanel, C!PortalSupportListRoute, C!SupportRoute, C!PortalSupportRoute
<1>6. Granted("support", t)
  BY <1>1, <1>2 DEF Granted, C!LeftToTheAnswer, C!Offer, C!SupportPage, C!SupportThread, C!SupportPanel,
       C!SupportTakes
<1>7. Leaves("support", t)
  <2>1. CASE t.is = "WAITING_ON_EXPERT"
    <3>1. /\ "EXPERT" \in C!People
          /\ "answer" \in C!Shows("support", C!May["EXPERT"], t) \cap C!Takes("support", t)
      BY <1>1, <1>2, <2>1, Roles DEF C!Offer, C!SupportPage, C!SupportThread, C!SupportPanel, C!SupportTakes
    <3>2. C!After("support", t, "answer") # {t}
      BY <1>1, <1>2, <2>1 DEF C!SupportAfter
    <3> QED
      BY <3>1, <3>2, WayByButton
  <2>2. CASE t.is \notin {"WAITING_ON_EXPERT", "CLOSED"}
    <3>1. /\ "OPERATOR" \in C!People
          /\ "reply" \in C!Shows("support", C!May["OPERATOR"], t) \cap C!Takes("support", t)
      BY <1>1, <1>2, <2>2, Roles DEF C!Offer, C!SupportPage, C!SupportThread, C!SupportPanel,
           C!SupportTakes, C!OPERATOR
    <3>2. C!After("support", t, "reply") # {t}
      BY <1>1, <1>2, <2>2 DEF C!SupportAfter
    <3> QED
      BY <3>1, <3>2, WayByButton
  <2> QED
    BY <1>1, <2>1, <2>2 DEF Leaves, C!Rests
<1> QED
  BY <1>1, <1>4, <1>5, <1>6, <1>7 DEF Served

LEMMA AttentionServed == \A t \in Records("attention") : Served("attention", t)
<1> SUFFICES ASSUME NEW t \in Records("attention") PROVE Served("attention", t)
  OBVIOUS
<1>1. t # C!Absent /\ t \in [is : {"OPEN", "RESOLVED", "DISMISSED"}]
  BY DEF Records, C!Absent
<1>2. /\ C!Takes("attention", t) = C!AttentionTakes(t)
      /\ C!Drift("attention", t) = C!AttentionDrift(t)
      /\ \A m : C!Shows("attention", m, t) = C!AttentionActions(m, t)
      /\ \A a : C!After("attention", t, a) = C!AttentionAfter(t, a)
  BY <1>1 DEF C!Takes, C!Drift, C!Shows, C!After
<1>3. ASSUME NEW u, u \in [is : {"OPEN", "RESOLVED", "DISMISSED"}]
      PROVE  MovesTo("attention", t, u)
  BY <1>3 DEF MovesTo, Records, C!Declared
<1>4. Kept("attention", t)
  BY <1>1, <1>2, <1>3 DEF Kept, C!Offer, C!AttentionTakes, C!AttentionAfter, C!AttentionDrift
<1>5. Permitted("attention", t)
  BY <1>1, <1>2, Roles DEF Permitted, C!Allowed, C!Routes, C!Both, C!All, C!Offer, C!AttentionActions,
       C!AttentionPage, C!AttentionRoute
<1>6. Granted("attention", t)
  BY <1>1, <1>2 DEF Granted, C!LeftToTheAnswer, C!Offer, C!AttentionActions, C!AttentionPage, C!AttentionTakes
<1>7. Leaves("attention", t)
  <2>1. CASE t.is = "RESOLVED"
    <3> DEFINE u == [t EXCEPT !.is = "OPEN"]
    <3>1. u \in C!Drift("attention", t) /\ u.is # t.is
      BY <1>1, <1>2, <2>1 DEF C!Offer, C!AttentionDrift
    <3> QED
      BY <3>1, WayByDrift
  <2>2. CASE t.is # "RESOLVED"
    <3> DEFINE u == [t EXCEPT !.is = "RESOLVED"]
    <3>1. u \in C!Drift("attention", t) /\ u.is # t.is
      BY <1>1, <1>2, <2>2 DEF C!Offer, C!AttentionDrift
    <3> QED
      BY <3>1, WayByDrift
  <2> QED
    BY <1>1, <2>1, <2>2 DEF Leaves, C!Rests
<1> QED
  BY <1>1, <1>4, <1>5, <1>6, <1>7 DEF Served

LEMMA PaymentItemServed == \A t \in Records("payment_item") : Served("payment_item", t)
<1> SUFFICES ASSUME NEW t \in Records("payment_item") PROVE Served("payment_item", t)
  OBVIOUS
<1>1. t # C!Absent /\ t \in [is : {"DRAFT", "READY", "IN_BATCH", "EXPORTED", "VOID"}, flagged : BOOLEAN]
      /\ (t.is = "DRAFT" => t.flagged)
  BY DEF Records, C!Absent
<1>2. /\ C!Takes("payment_item", t) = C!PaymentItemTakes(t)
      /\ C!Drift("payment_item", t) = C!PaymentItemDrift(t)
      /\ \A m : C!Shows("payment_item", m, t) = C!PaymentsPage(m, t)
      /\ C!After("payment_item", t, "explain") =
           {[is |-> IF t.is = "DRAFT" THEN "READY" ELSE t.is, flagged |-> FALSE]}
      /\ C!After("payment_item", t, "correct") = {[t EXCEPT !.is = "VOID"]}
      /\ C!After("payment_item", t, "batch") = {[t EXCEPT !.is = "IN_BATCH"]}
  BY <1>1 DEF C!Takes, C!Drift, C!Shows, C!After, C!PaymentItemAfter
<1>3. ASSUME NEW u, u \in [is : {"DRAFT", "READY", "IN_BATCH", "EXPORTED", "VOID"}, flagged : BOOLEAN],
                  u.is = "DRAFT" => u.flagged
      PROVE  MovesTo("payment_item", t, u)
  BY <1>3 DEF MovesTo, Records, C!Declared
<1>4. Kept("payment_item", t)
  <2>1. ASSUME NEW a \in C!Takes("payment_item", t), NEW u \in C!After("payment_item", t, a)
        PROVE  MovesTo("payment_item", t, u)
    <3>1. CASE a = "explain"
      BY <1>1, <1>2, <1>3, <2>1, <3>1 DEF C!Offer, C!PaymentItemTakes
    <3>2. CASE a = "correct"
      BY <1>1, <1>2, <1>3, <2>1, <3>2 DEF C!Offer, C!PaymentItemTakes
    <3>3. CASE a = "batch"
      BY <1>1, <1>2, <1>3, <2>1, <3>3 DEF C!Offer, C!PaymentItemTakes
    <3> QED
      BY <1>2, <2>1, <3>1, <3>2, <3>3 DEF C!Offer, C!PaymentItemTakes
  <2>2. ASSUME NEW u \in C!Drift("payment_item", t) PROVE MovesTo("payment_item", t, u)
    BY <1>1, <1>2, <1>3, <2>2 DEF C!Offer, C!PaymentItemDrift
  <2> QED
    BY <2>1, <2>2 DEF Kept
<1>5. Permitted("payment_item", t)
  BY <1>1, <1>2, Roles DEF Permitted, C!Allowed, C!Routes, C!Both, C!All, C!Offer, C!PaymentsPage,
       C!PaymentItemRoute
<1>6. Granted("payment_item", t)
  BY <1>1, <1>2 DEF Granted, C!LeftToTheAnswer, C!Offer, C!PaymentsPage, C!PaymentItemTakes
<1>7. Leaves("payment_item", t)
  <2>1. CASE t.is = "DRAFT"
    <3>1. /\ "OPERATOR" \in C!People
          /\ "explain" \in C!Shows("payment_item", C!May["OPERATOR"], t) \cap C!Takes("payment_item", t)
      BY <1>1, <1>2, <2>1, Roles DEF C!Offer, C!PaymentsPage, C!PaymentItemTakes, C!OPERATOR
    <3>2. C!After("payment_item", t, "explain") # {t}
      BY <1>1, <1>2, <2>1
    <3> QED
      BY <3>1, <3>2, WayByButton
  <2>2. CASE t.is = "READY"
    <3>1. /\ "OPERATOR" \in C!People
          /\ "batch" \in C!Shows("payment_item", C!May["OPERATOR"], t) \cap C!Takes("payment_item", t)
      BY <1>1, <1>2, <2>2, Roles DEF C!Offer, C!PaymentsPage, C!PaymentItemTakes, C!OPERATOR
    <3>2. C!After("payment_item", t, "batch") # {t}
      BY <1>1, <1>2, <2>2
    <3> QED
      BY <3>1, <3>2, WayByButton
  <2>3. CASE t.is = "IN_BATCH"
    <3> DEFINE u == [t EXCEPT !.is = "EXPORTED"]
    <3>1. u \in C!Drift("payment_item", t) /\ u.is # t.is
      BY <1>1, <1>2, <2>3 DEF C!Offer, C!PaymentItemDrift
    <3> QED
      BY <3>1, WayByDrift
  <2> QED
    BY <1>1, <2>1, <2>2, <2>3 DEF Leaves, C!Rests
<1> QED
  BY <1>1, <1>4, <1>5, <1>6, <1>7 DEF Served

LEMMA PaymentBatchServed == \A t \in Records("payment_batch") : Served("payment_batch", t)
<1> SUFFICES ASSUME NEW t \in Records("payment_batch") PROVE Served("payment_batch", t)
  OBVIOUS
<1>1. t # C!Absent /\ t \in [is : {"DRAFT", "PENDING_APPROVAL", "APPROVED", "EXPORTED"}, own : BOOLEAN]
  BY DEF Records, C!Absent, C!PaymentBatchEdges
<1>2. /\ C!Takes("payment_batch", t) = C!PaymentBatchTakes(t)
      /\ C!Drift("payment_batch", t) = C!PaymentBatchDrift(t)
      /\ \A m : C!Shows("payment_batch", m, t) = C!PaymentBatchActions(m, t)
      /\ \A a : C!After("payment_batch", t, a) = C!PaymentBatchAfter(t, a)
  BY <1>1 DEF C!Takes, C!Drift, C!Shows, C!After
<1>3. ASSUME NEW u, u \in [is : {"DRAFT", "PENDING_APPROVAL", "APPROVED", "EXPORTED"}, own : BOOLEAN],
             u.is # t.is => u.is \in C!PaymentBatchEdges[t.is]
      PROVE  MovesTo("payment_batch", t, u)
  BY <1>3 DEF MovesTo, Records, C!Declared
<1>4. Kept("payment_batch", t)
  BY <1>1, <1>2, <1>3 DEF Kept, C!Offer, C!PaymentBatchTakes, C!PaymentBatchAfter, C!PaymentBatchEdges,
       C!PaymentBatchDrift
<1>5. Permitted("payment_batch", t)
  BY <1>1, <1>2, Roles DEF Permitted, C!Allowed, C!Routes, C!Both, C!All, C!Offer,
       C!PaymentBatchActions, C!PaymentBatchRoute, C!PaymentBatchesRoute
<1>6. Granted("payment_batch", t)
  BY <1>1, <1>2 DEF Granted, C!LeftToTheAnswer, C!Offer, C!PaymentBatchActions, C!PaymentBatchTakes
<1>7. Leaves("payment_batch", t)
  <2>1. CASE t.is = "DRAFT"
    <3>1. /\ "OPERATOR" \in C!People
          /\ "submit" \in C!Shows("payment_batch", C!May["OPERATOR"], t) \cap C!Takes("payment_batch", t)
      BY <1>1, <1>2, <2>1, Roles DEF C!Offer, C!PaymentBatchActions, C!PaymentBatchTakes, C!OPERATOR
    <3>2. C!After("payment_batch", t, "submit") # {t}
      BY <1>1, <1>2, <2>1 DEF C!PaymentBatchAfter
    <3> QED
      BY <3>1, <3>2, WayByButton
  <2>2. CASE t.is \in {"PENDING_APPROVAL", "APPROVED"}
    <3> DEFINE u == [t EXCEPT !.is = "DRAFT"]
    <3>1. u \in C!Drift("payment_batch", t) /\ u.is # t.is
      BY <1>1, <1>2, <2>2 DEF C!Offer, C!PaymentBatchDrift
    <3> QED
      BY <3>1, WayByDrift
  <2> QED
    BY <1>1, <2>1, <2>2 DEF Leaves, C!Rests, C!PaymentBatchEdges
<1> QED
  BY <1>1, <1>4, <1>5, <1>6, <1>7 DEF Served

LEMMA OutreachServed == \A t \in Records("outreach") : Served("outreach", t)
<1> SUFFICES ASSUME NEW t \in Records("outreach") PROVE Served("outreach", t)
  OBVIOUS
<1>1. t # C!Absent /\ t \in [is : {"DRAFT", "PENDING_APPROVAL", "APPROVED", "REJECTED",
                 "PARTIALLY_DISPATCHED", "DISPATCHED"}, mine : BOOLEAN, left : BOOLEAN]
      /\ (t.left <=> t.is # "DISPATCHED")
  BY DEF Records, C!Absent, C!OutreachEdges
<1>2. /\ C!Takes("outreach", t) = C!OutreachTakes(t)
      /\ C!Drift("outreach", t) = {}
      /\ \A m : C!Shows("outreach", m, t) = C!OutreachBatchActions(m, t)
      /\ C!After("outreach", t, "submit") = {[t EXCEPT !.is = "PENDING_APPROVAL"]}
      /\ C!After("outreach", t, "approve") = {[t EXCEPT !.is = "APPROVED"]}
      /\ C!After("outreach", t, "reject") = {[t EXCEPT !.is = "REJECTED"]}
      /\ C!After("outreach", t, "dispatch") = IF t.left THEN {[t EXCEPT !.is = "PARTIALLY_DISPATCHED"],
                                 [t EXCEPT !.is = "DISPATCHED", !.left = FALSE]} ELSE {t}
  BY <1>1 DEF C!Takes, C!Drift, C!Shows, C!After, C!OutreachAfter
<1>3. ASSUME NEW u, u \in [is : {"DRAFT", "PENDING_APPROVAL", "APPROVED", "REJECTED",
                 "PARTIALLY_DISPATCHED", "DISPATCHED"}, mine : BOOLEAN, left : BOOLEAN],
                  u.left <=> u.is # "DISPATCHED",
             u.is # t.is => u.is \in C!OutreachEdges[t.is]
      PROVE  MovesTo("outreach", t, u)
  BY <1>3 DEF MovesTo, Records, C!Declared
<1>4. Kept("outreach", t)
  <2>1. ASSUME NEW a \in C!Takes("outreach", t), NEW u \in C!After("outreach", t, a)
        PROVE  MovesTo("outreach", t, u)
    <3>1. CASE a = "submit"
      BY <1>1, <1>2, <1>3, <2>1, <3>1 DEF C!Offer, C!OutreachTakes, C!OutreachEdges
    <3>2. CASE a = "approve"
      BY <1>1, <1>2, <1>3, <2>1, <3>2 DEF C!Offer, C!OutreachTakes, C!OutreachEdges
    <3>3. CASE a = "reject"
      BY <1>1, <1>2, <1>3, <2>1, <3>3 DEF C!Offer, C!OutreachTakes, C!OutreachEdges
    <3>4. CASE a = "dispatch"
      <4>1. t.is \in {"APPROVED", "PARTIALLY_DISPATCHED", "DISPATCHED"}
        BY <1>1, <1>2, <2>1, <3>4 DEF C!Offer, C!OutreachTakes
      <4>2. CASE t.left
        <5>1. \/ u = [t EXCEPT !.is = "PARTIALLY_DISPATCHED"]
              \/ u = [t EXCEPT !.is = "DISPATCHED", !.left = FALSE]
          BY <1>2, <2>1, <3>4, <4>2
        <5>2. /\ C!OutreachEdges["APPROVED"] = {"PARTIALLY_DISPATCHED", "DISPATCHED", "CANCELLED"}
              /\ C!OutreachEdges["PARTIALLY_DISPATCHED"] = {"DISPATCHED", "CANCELLED"}
          BY DEF C!OutreachEdges
        <5>3. t.is \in {"APPROVED", "PARTIALLY_DISPATCHED"}
          BY <1>1, <4>1, <4>2
        <5> QED
          BY <1>1, <1>3, <5>1, <5>2, <5>3
      <4>3. CASE ~t.left
        BY <1>1, <1>2, <1>3, <2>1, <3>4, <4>1, <4>3
      <4> QED
        BY <4>2, <4>3
    <3> QED
      BY <1>2, <2>1, <3>1, <3>2, <3>3, <3>4 DEF C!Offer, C!OutreachTakes
  <2> QED
    BY <1>2, <2>1 DEF Kept
<1>5. Permitted("outreach", t)
  BY <1>1, <1>2, Roles DEF Permitted, C!Allowed, C!Routes, C!Both, C!All, C!Offer,
       C!OutreachBatchActions, C!OutreachRoute, C!OutreachBatchesRoute
<1>6. Granted("outreach", t)
  BY <1>1, <1>2 DEF Granted, C!LeftToTheAnswer, C!Offer, C!OutreachBatchActions, C!OutreachTakes
<1>7. Leaves("outreach", t)
  <2>1. CASE t.is = "DRAFT"
    <3>1. /\ "OPERATOR" \in C!People
          /\ "submit" \in C!Shows("outreach", C!May["OPERATOR"], t) \cap C!Takes("outreach", t)
      BY <1>1, <1>2, <2>1, Roles DEF C!Offer, C!OutreachBatchActions, C!OutreachTakes, C!OPERATOR
    <3>2. C!After("outreach", t, "submit") # {t}
      BY <1>1, <1>2, <2>1
    <3> QED
      BY <3>1, <3>2, WayByButton
  <2>2. CASE t.is = "PENDING_APPROVAL"
    <3>1. /\ "ADMIN" \in C!People
          /\ "reject" \in C!Shows("outreach", C!May["ADMIN"], t) \cap C!Takes("outreach", t)
      BY <1>1, <1>2, <2>2, Roles DEF C!Offer, C!OutreachBatchActions, C!OutreachTakes, C!OPERATOR,
           C!May, C!ADMIN
    <3>2. C!After("outreach", t, "reject") # {t}
      BY <1>1, <1>2, <2>2
    <3> QED
      BY <3>1, <3>2, WayByButton
  <2>3. CASE t.is \in {"APPROVED", "PARTIALLY_DISPATCHED"}
    <3>1. /\ "ADMIN" \in C!People
          /\ "dispatch" \in C!Shows("outreach", C!May["ADMIN"], t) \cap C!Takes("outreach", t)
      BY <1>1, <1>2, <2>3, Roles DEF C!Offer, C!OutreachBatchActions, C!OutreachTakes, C!OPERATOR,
           C!May, C!ADMIN
    <3> DEFINE u == [t EXCEPT !.is = "DISPATCHED", !.left = FALSE]
    <3>2. u \in C!After("outreach", t, "dispatch") /\ u # t
      BY <1>1, <1>2, <2>3
    <3> QED
      BY <3>1, <3>2, WayByOneOf
  <2> QED
    BY <1>1, <2>1, <2>2, <2>3 DEF Leaves, C!Rests, C!OutreachEdges
<1> QED
  BY <1>1, <1>4, <1>5, <1>6, <1>7 DEF Served

LEMMA WorkServed == \A t \in Records("work") : Served("work", t)
<1> SUFFICES ASSUME NEW t \in Records("work") PROVE Served("work", t)
  OBVIOUS
<1>1. t # C!Absent /\ t \in [is : {"ASSIGNED", "SUBMITTED", "REVISION_REQUESTED", "APPROVED", "CANCELLED"}]
  BY DEF Records, C!Absent, C!WorkEdges
<1>2. /\ C!Takes("work", t) = C!SubmitWorkTakes(t) \cup C!ReviewWorkTakes(t)
      /\ C!Drift("work", t) = C!WorkDrift(t)
      /\ \A m : C!Shows("work", m, t) = C!ReviewWorkPanel(m, t) \cup C!WorkPanel(m, t)
      /\ \A a : C!After("work", t, a) = C!WorkAfter(t, a)
  BY <1>1 DEF C!Takes, C!Drift, C!Shows, C!After
<1>3. ASSUME NEW u, u \in [is : {"ASSIGNED", "SUBMITTED", "REVISION_REQUESTED", "APPROVED", "CANCELLED"}],
             u.is # t.is => u.is \in C!WorkEdges[t.is]
      PROVE  MovesTo("work", t, u)
  BY <1>3 DEF MovesTo, Records, C!Declared
<1>4. Kept("work", t)
  BY <1>1, <1>2, <1>3 DEF Kept, C!Offer, C!SubmitWorkTakes, C!ReviewWorkTakes, C!WorkEdges, C!WorkAfter,
       C!WorkDrift
<1>5. Permitted("work", t)
  BY <1>1, <1>2, Roles DEF Permitted, C!Allowed, C!Routes, C!Both, C!All, C!Offer, C!ReviewWorkPanel,
       C!WorkPage, C!WorkPanel, C!WorkRoute, C!PortalWorkRoute, C!WorkItemsRoute
<1>6. Granted("work", t)
  BY <1>1, <1>2 DEF Granted, C!LeftToTheAnswer, C!Offer, C!ReviewWorkPanel, C!WorkPage, C!WorkPanel,
       C!SubmitWorkTakes, C!ReviewWorkTakes, C!WorkEdges
<1>7. Leaves("work", t)
  <2>1. CASE t.is \in {"ASSIGNED", "REVISION_REQUESTED"}
    <3>1. /\ "EXPERT" \in C!People
          /\ "submit" \in C!Shows("work", C!May["EXPERT"], t) \cap C!Takes("work", t)
      BY <1>1, <1>2, <2>1, Roles DEF C!Offer, C!ReviewWorkPanel, C!WorkPage, C!WorkPanel,
           C!SubmitWorkTakes, C!ReviewWorkTakes, C!WorkEdges
    <3>2. C!After("work", t, "submit") # {t}
      BY <1>1, <1>2, <2>1 DEF C!WorkAfter
    <3> QED
      BY <3>1, <3>2, WayByButton
  <2>2. CASE t.is = "SUBMITTED"
    <3>1. /\ "OPERATOR" \in C!People
          /\ "approve" \in C!Shows("work", C!May["OPERATOR"], t) \cap C!Takes("work", t)
      BY <1>1, <1>2, <2>2, Roles DEF C!Offer, C!ReviewWorkPanel, C!WorkPage, C!WorkPanel,
           C!SubmitWorkTakes, C!ReviewWorkTakes, C!WorkEdges, C!OPERATOR
    <3>2. C!After("work", t, "approve") # {t}
      BY <1>1, <1>2, <2>2 DEF C!WorkAfter
    <3> QED
      BY <3>1, <3>2, WayByButton
  <2> QED
    BY <1>1, <2>1, <2>2 DEF Leaves, C!Rests, C!WorkEdges
<1> QED
  BY <1>1, <1>4, <1>5, <1>6, <1>7 DEF Served

LEMMA OffboardingServed == \A t \in Records("offboarding") : Served("offboarding", t)
<1> SUFFICES ASSUME NEW t \in Records("offboarding") PROVE Served("offboarding", t)
  OBVIOUS
<1>1. t # C!Absent /\ t \in [is : {"PENDING", "CONFIRMED", "NOT_APPLICABLE"}]
  BY DEF Records, C!Absent
<1>2. /\ C!Takes("offboarding", t) = C!OffboardingTakes(t)
      /\ C!Drift("offboarding", t) = {}
      /\ \A m : C!Shows("offboarding", m, t) = C!AssignOffboardingTask(m, t) \cup C!ConfirmOffboardingTask(m, t)
      /\ \A a : C!After("offboarding", t, a) = C!OffboardingAfter(t, a)
  BY <1>1 DEF C!Takes, C!Drift, C!Shows, C!After
<1>3. ASSUME NEW u, u \in [is : {"PENDING", "CONFIRMED", "NOT_APPLICABLE"}]
      PROVE  MovesTo("offboarding", t, u)
  BY <1>3 DEF MovesTo, Records, C!Declared
<1>4. Kept("offboarding", t)
  BY <1>1, <1>2, <1>3 DEF Kept, C!Offer, C!OffboardingTakes, C!OffboardingAfter
<1>5. Permitted("offboarding", t)
  BY <1>1, <1>2, Roles DEF Permitted, C!Allowed, C!Routes, C!Both, C!All, C!Offer,
       C!AssignOffboardingTask, C!ConfirmOffboardingTask, C!OffboardingRoute
<1>6. Granted("offboarding", t)
  BY <1>1, <1>2 DEF Granted, C!LeftToTheAnswer, C!Offer, C!AssignOffboardingTask,
       C!ConfirmOffboardingTask, C!OffboardingTakes
<1>7. Leaves("offboarding", t)
  <2>1. CASE t.is = "PENDING"
    <3>1. /\ "OPERATOR" \in C!People
          /\ "confirm" \in C!Shows("offboarding", C!May["OPERATOR"], t) \cap C!Takes("offboarding", t)
      BY <1>1, <1>2, <2>1, Roles DEF C!Offer, C!AssignOffboardingTask, C!ConfirmOffboardingTask,
           C!OffboardingTakes, C!OPERATOR
    <3>2. C!After("offboarding", t, "confirm") # {t}
      BY <1>1, <1>2, <2>1 DEF C!OffboardingAfter
    <3> QED
      BY <3>1, <3>2, WayByButton
  <2> QED
    BY <1>1, <2>1 DEF Leaves, C!Rests
<1> QED
  BY <1>1, <1>4, <1>5, <1>6, <1>7 DEF Served

LEMMA JobServed == \A t \in Records("job") : Served("job", t)
<1> SUFFICES ASSUME NEW t \in Records("job") PROVE Served("job", t)
  OBVIOUS
<1>1. t # C!Absent /\ t \in [is : {"PENDING", "RUNNING", "SUCCEEDED", "FAILED", "DEAD"}]
  BY DEF Records, C!Absent
<1>2. /\ C!Takes("job", t) = C!JobTakes(t)
      /\ C!Drift("job", t) = C!JobDrift(t)
      /\ \A m : C!Shows("job", m, t) = C!JobsPage(m, t)
      /\ \A a : C!After("job", t, a) = C!JobAfter(t, a)
  BY <1>1 DEF C!Takes, C!Drift, C!Shows, C!After
<1>3. ASSUME NEW u, u \in [is : {"PENDING", "RUNNING", "SUCCEEDED", "FAILED", "DEAD"}]
      PROVE  MovesTo("job", t, u)
  BY <1>3 DEF MovesTo, Records, C!Declared
<1>4. Kept("job", t)
  BY <1>1, <1>2, <1>3 DEF Kept, C!Offer, C!JobTakes, C!JobAfter, C!JobDrift
<1>5. Permitted("job", t)
  BY <1>1, <1>2, Roles DEF Permitted, C!Allowed, C!Routes, C!Both, C!All, C!Offer, C!JobsPage, C!JobsRoute
<1>6. Granted("job", t)
  BY <1>1, <1>2 DEF Granted, C!LeftToTheAnswer, C!Offer, C!JobsPage, C!JobTakes
<1>7. Leaves("job", t)
  <2>1. CASE t.is \in {"FAILED", "DEAD"}
    <3>1. /\ "ADMIN" \in C!People
          /\ "retry" \in C!Shows("job", C!May["ADMIN"], t) \cap C!Takes("job", t)
      BY <1>1, <1>2, <2>1, Roles DEF C!Offer, C!JobsPage, C!JobTakes, C!OPERATOR, C!May, C!ADMIN
    <3>2. C!After("job", t, "retry") # {t}
      BY <1>1, <1>2, <2>1 DEF C!JobAfter
    <3> QED
      BY <3>1, <3>2, WayByButton
  <2>2. CASE t.is \in {"PENDING", "RUNNING"}
    <3> DEFINE u == [is |-> IF t.is = "RUNNING" THEN "DEAD" ELSE "RUNNING"]
    <3>1. u \in C!Drift("job", t) /\ u.is # t.is
      BY <1>1, <1>2, <2>2 DEF C!Offer, C!JobDrift
    <3> QED
      BY <3>1, WayByDrift
  <2> QED
    BY <1>1, <2>1, <2>2 DEF Leaves, C!Rests
<1> QED
  BY <1>1, <1>4, <1>5, <1>6, <1>7 DEF Served

LEMMA CampaignServed == \A t \in Records("campaign") : Served("campaign", t)
<1> SUFFICES ASSUME NEW t \in Records("campaign") PROVE Served("campaign", t)
  OBVIOUS
<1>1. t # C!Absent /\ t \in [is : {"DRAFT", "ACTIVE", "PAUSED", "CLOSED"}]
  BY DEF Records, C!Absent, C!CampaignEdges
<1>2. /\ C!Takes("campaign", t) = C!CampaignTakes(t)
      /\ C!Drift("campaign", t) = {}
      /\ \A m : C!Shows("campaign", m, t) = C!CampaignStatusControl(m, t)
      /\ \A a : C!After("campaign", t, a) = C!CampaignAfter(t, a)
  BY <1>1 DEF C!Takes, C!Drift, C!Shows, C!After
<1>3. ASSUME NEW u, u \in [is : {"DRAFT", "ACTIVE", "PAUSED", "CLOSED"}],
             u.is # t.is => u.is \in C!CampaignEdges[t.is]
      PROVE  MovesTo("campaign", t, u)
  BY <1>3 DEF MovesTo, Records, C!Declared
<1>4. Kept("campaign", t)
  BY <1>1, <1>2, <1>3 DEF Kept, C!Offer, C!CampaignTakes, C!CampaignEdges, C!CampaignAfter
<1>5. Permitted("campaign", t)
  BY <1>1, <1>2, Roles DEF Permitted, C!Allowed, C!Routes, C!Both, C!All, C!Offer,
       C!CampaignStatusControl, C!CampaignRoute, C!CampaignsRoute
<1>6. Granted("campaign", t)
  BY <1>1, <1>2 DEF Granted, C!LeftToTheAnswer, C!Offer, C!CampaignStatusControl, C!CampaignTakes,
       C!CampaignEdges
<1>7. Leaves("campaign", t)
  <2>1. CASE t.is # "CLOSED"
    <3>1. /\ "OPERATOR" \in C!People
          /\ "CLOSED" \in C!Shows("campaign", C!May["OPERATOR"], t) \cap C!Takes("campaign", t)
      BY <1>1, <1>2, <2>1, Roles DEF C!Offer, C!CampaignStatusControl, C!CampaignTakes, C!CampaignEdges,
           C!OPERATOR
    <3>2. C!After("campaign", t, "CLOSED") # {t}
      BY <1>1, <1>2, <2>1 DEF C!CampaignAfter
    <3> QED
      BY <3>1, <3>2, WayByButton
  <2> QED
    BY <1>1, <2>1 DEF Leaves, C!Rests, C!CampaignEdges
<1> QED
  BY <1>1, <1>4, <1>5, <1>6, <1>7 DEF Served

LEMMA OpportunityServed == \A t \in Records("opportunity") : Served("opportunity", t)
<1> SUFFICES ASSUME NEW t \in Records("opportunity") PROVE Served("opportunity", t)
  OBVIOUS
<1>1. t # C!Absent /\ t \in [is : {"DRAFT", "PUBLISHED", "CLOSED"}, told : BOOLEAN, past : BOOLEAN]
  BY DEF Records, C!Absent
<1>2. /\ C!Takes("opportunity", t) = C!OpportunityTakes(t)
      /\ C!Drift("opportunity", t) = C!OpportunityDrift(t)
      /\ \A m : C!Shows("opportunity", m, t) =
                  C!OpportunityActions(m, t) \cup C!OpportunityForm(m, t) \cup C!OpportunityPage(m, t)
      /\ C!After("opportunity", t, "publish") = {[t EXCEPT !.is = "PUBLISHED"]}
      /\ C!After("opportunity", t, "close") = {[t EXCEPT !.is = "CLOSED"]}
      /\ C!After("opportunity", t, "tell") = {[t EXCEPT !.told = TRUE]}
      /\ C!After("opportunity", t, "move_deadline") = {[t EXCEPT !.past = FALSE]}
      /\ C!After("opportunity", t, "apply") = {t}
  BY <1>1 DEF C!Takes, C!Drift, C!Shows, C!After, C!OpportunityAfter
<1>3. ASSUME NEW u, u \in [is : {"DRAFT", "PUBLISHED", "CLOSED"}, told : BOOLEAN, past : BOOLEAN]
      PROVE  MovesTo("opportunity", t, u)
  BY <1>3 DEF MovesTo, Records, C!Declared
<1>4. Kept("opportunity", t)
  <2>1. ASSUME NEW a \in C!Takes("opportunity", t), NEW u \in C!After("opportunity", t, a)
        PROVE  MovesTo("opportunity", t, u)
    <3>1. CASE a = "publish"
      BY <1>1, <1>2, <1>3, <2>1, <3>1 DEF C!Offer, C!OpportunityTakes, C!PublishTakes, C!CloseTakes,
           C!UpdateOpportunityTakes, C!ApplyTakes, C!Accepting
    <3>2. CASE a = "close"
      BY <1>1, <1>2, <1>3, <2>1, <3>2 DEF C!Offer, C!OpportunityTakes, C!PublishTakes, C!CloseTakes,
           C!UpdateOpportunityTakes, C!ApplyTakes, C!Accepting
    <3>3. CASE a = "tell"
      BY <1>1, <1>2, <1>3, <2>1, <3>3 DEF C!Offer, C!OpportunityTakes, C!PublishTakes, C!CloseTakes,
           C!UpdateOpportunityTakes, C!ApplyTakes, C!Accepting
    <3>4. CASE a = "move_deadline"
      BY <1>1, <1>2, <1>3, <2>1, <3>4 DEF C!Offer, C!OpportunityTakes, C!PublishTakes, C!CloseTakes,
           C!UpdateOpportunityTakes, C!ApplyTakes, C!Accepting
    <3>5. CASE a = "apply"
      BY <1>1, <1>2, <1>3, <2>1, <3>5 DEF C!Offer, C!OpportunityTakes, C!PublishTakes, C!CloseTakes,
           C!UpdateOpportunityTakes, C!ApplyTakes, C!Accepting
    <3> QED
      BY <1>2, <2>1, <3>1, <3>2, <3>3, <3>4, <3>5 DEF C!Offer, C!OpportunityTakes, C!PublishTakes,
           C!CloseTakes, C!UpdateOpportunityTakes, C!ApplyTakes, C!Accepting
  <2>2. ASSUME NEW u \in C!Drift("opportunity", t) PROVE MovesTo("opportunity", t, u)
    BY <1>1, <1>2, <1>3, <2>2 DEF C!Offer, C!OpportunityDrift
  <2> QED
    BY <2>1, <2>2 DEF Kept
<1>5. Permitted("opportunity", t)
  BY <1>1, <1>2, Roles DEF Permitted, C!Allowed, C!Routes, C!Both, C!All, C!Offer, C!OpportunityActions,
       C!OpportunityForm, C!OpportunityPage, C!Accepting, C!OpportunityRoute, C!OpportunitiesRoute
<1>6. Granted("opportunity", t)
  BY <1>1, <1>2 DEF Granted, C!LeftToTheAnswer, C!Offer, C!OpportunityActions, C!OpportunityForm,
       C!OpportunityPage, C!Accepting, C!OpportunityTakes, C!PublishTakes, C!CloseTakes,
       C!UpdateOpportunityTakes, C!ApplyTakes
<1>7. Leaves("opportunity", t)
  <2>1. CASE t.is = "DRAFT" /\ ~t.told
    <3>1. /\ "OPERATOR" \in C!People
          /\ "tell" \in C!Shows("opportunity", C!May["OPERATOR"], t) \cap C!Takes("opportunity", t)
      BY <1>1, <1>2, <2>1, Roles DEF C!Offer, C!OpportunityActions, C!OpportunityForm,
           C!OpportunityPage, C!Accepting, C!OpportunityTakes, C!PublishTakes, C!CloseTakes,
           C!UpdateOpportunityTakes, C!ApplyTakes, C!OPERATOR
    <3>2. C!After("opportunity", t, "tell") # {t}
      BY <1>1, <1>2, <2>1
    <3> QED
      BY <3>1, <3>2, WayByButton
  <2>2. CASE t.is = "DRAFT" /\ t.past
    <3>1. /\ "OPERATOR" \in C!People
          /\ "move_deadline" \in C!Shows("opportunity", C!May["OPERATOR"], t) \cap C!Takes("opportunity", t)
      BY <1>1, <1>2, <2>2, Roles DEF C!Offer, C!OpportunityActions, C!OpportunityForm,
           C!OpportunityPage, C!Accepting, C!OpportunityTakes, C!PublishTakes, C!CloseTakes,
           C!UpdateOpportunityTakes, C!ApplyTakes, C!OPERATOR
    <3>2. C!After("opportunity", t, "move_deadline") # {t}
      BY <1>1, <1>2, <2>2
    <3> QED
      BY <3>1, <3>2, WayByButton
  <2>3. CASE t.is = "DRAFT" /\ t.told /\ ~t.past
    <3>1. /\ "OPERATOR" \in C!People
          /\ "publish" \in C!Shows("opportunity", C!May["OPERATOR"], t) \cap C!Takes("opportunity", t)
      BY <1>1, <1>2, <2>3, Roles DEF C!Offer, C!OpportunityActions, C!OpportunityForm,
           C!OpportunityPage, C!Accepting, C!OpportunityTakes, C!PublishTakes, C!CloseTakes,
           C!UpdateOpportunityTakes, C!ApplyTakes, C!OPERATOR
    <3>2. C!After("opportunity", t, "publish") # {t}
      BY <1>1, <1>2, <2>3
    <3> QED
      BY <3>1, <3>2, WayByButton
  <2>4. CASE t.is = "PUBLISHED"
    <3>1. /\ "OPERATOR" \in C!People
          /\ "close" \in C!Shows("opportunity", C!May["OPERATOR"], t) \cap C!Takes("opportunity", t)
      BY <1>1, <1>2, <2>4, Roles DEF C!Offer, C!OpportunityActions, C!OpportunityForm,
           C!OpportunityPage, C!Accepting, C!OpportunityTakes, C!PublishTakes, C!CloseTakes,
           C!UpdateOpportunityTakes, C!ApplyTakes, C!OPERATOR
    <3>2. C!After("opportunity", t, "close") # {t}
      BY <1>1, <1>2, <2>4
    <3> QED
      BY <3>1, <3>2, WayByButton
  <2> QED
    BY <1>1, <2>1, <2>2, <2>3, <2>4 DEF Leaves, C!Rests
<1> QED
  BY <1>1, <1>4, <1>5, <1>6, <1>7 DEF Served

LEMMA RubricServed == \A t \in Records("rubric") : Served("rubric", t)
<1> SUFFICES ASSUME NEW t \in Records("rubric") PROVE Served("rubric", t)
  OBVIOUS
<1>1. t # C!Absent /\ t \in [is : {"NEW", "PUBLISHED"}, drafting : BOOLEAN, criteria : BOOLEAN]
  BY DEF Records, C!Absent
<1>2. /\ C!Takes("rubric", t) = C!RubricTakes(t)
      /\ C!Drift("rubric", t) = {}
      /\ \A m : C!Shows("rubric", m, t) = C!RubricsPage(m, t) \cup C!RubricEditor(m, t)
      /\ C!After("rubric", t, "draft") = {[t EXCEPT !.drafting = TRUE, !.criteria = (t.is = "PUBLISHED")]}
      /\ C!After("rubric", t, "save") = {[t EXCEPT !.criteria = TRUE]}
      /\ C!After("rubric", t, "publish") = {[t EXCEPT !.is = "PUBLISHED", !.drafting = FALSE]}
  BY <1>1 DEF C!Takes, C!Drift, C!Shows, C!After, C!RubricAfter
<1>3. ASSUME NEW u, u \in [is : {"NEW", "PUBLISHED"}, drafting : BOOLEAN, criteria : BOOLEAN]
      PROVE  MovesTo("rubric", t, u)
  BY <1>3 DEF MovesTo, Records, C!Declared
<1>4. Kept("rubric", t)
  <2>1. ASSUME NEW a \in C!Takes("rubric", t), NEW u \in C!After("rubric", t, a)
        PROVE  MovesTo("rubric", t, u)
    <3>1. CASE a = "draft"
      BY <1>1, <1>2, <1>3, <2>1, <3>1 DEF C!Offer, C!RubricTakes
    <3>2. CASE a = "save"
      BY <1>1, <1>2, <1>3, <2>1, <3>2 DEF C!Offer, C!RubricTakes
    <3>3. CASE a = "publish"
      BY <1>1, <1>2, <1>3, <2>1, <3>3 DEF C!Offer, C!RubricTakes
    <3> QED
      BY <1>2, <2>1, <3>1, <3>2, <3>3 DEF C!Offer, C!RubricTakes
  <2> QED
    BY <1>2, <2>1 DEF Kept
<1>5. Permitted("rubric", t)
  BY <1>1, <1>2, Roles DEF Permitted, C!Allowed, C!Routes, C!Both, C!All, C!Offer, C!RubricsPage,
       C!RubricEditor, C!RubricRoute
<1>6. Granted("rubric", t)
  BY <1>1, <1>2 DEF Granted, C!LeftToTheAnswer, C!Offer, C!RubricsPage, C!RubricEditor, C!RubricTakes
<1>7. Leaves("rubric", t)
  <2>1. CASE ~t.drafting
    <3>1. /\ "OPERATOR" \in C!People
          /\ "draft" \in C!Shows("rubric", C!May["OPERATOR"], t) \cap C!Takes("rubric", t)
      BY <1>1, <1>2, <2>1, Roles DEF C!Offer, C!RubricsPage, C!RubricEditor, C!RubricTakes, C!OPERATOR
    <3> DEFINE u == [t EXCEPT !.drafting = TRUE, !.criteria = (t.is = "PUBLISHED")]
    <3>2. u \in C!After("rubric", t, "draft") /\ u # t
      BY <1>1, <1>2, <2>1
    <3> QED
      BY <3>1, <3>2, WayByOneOf
  <2>2. CASE t.drafting /\ t.criteria
    <3>1. /\ "ADMIN" \in C!People
          /\ "publish" \in C!Shows("rubric", C!May["ADMIN"], t) \cap C!Takes("rubric", t)
      BY <1>1, <1>2, <2>2, Roles DEF C!Offer, C!RubricsPage, C!RubricEditor, C!RubricTakes, C!OPERATOR,
           C!May, C!ADMIN
    <3> DEFINE u == [t EXCEPT !.is = "PUBLISHED", !.drafting = FALSE]
    <3>2. u \in C!After("rubric", t, "publish") /\ u # t
      BY <1>1, <1>2, <2>2
    <3> QED
      BY <3>1, <3>2, WayByOneOf
  <2>3. CASE t.drafting /\ ~t.criteria
    <3>1. /\ "OPERATOR" \in C!People
          /\ "save" \in C!Shows("rubric", C!May["OPERATOR"], t) \cap C!Takes("rubric", t)
      BY <1>1, <1>2, <2>3, Roles DEF C!Offer, C!RubricsPage, C!RubricEditor, C!RubricTakes, C!OPERATOR
    <3> DEFINE u == [t EXCEPT !.criteria = TRUE]
    <3>2. u \in C!After("rubric", t, "save") /\ u # t
      BY <1>1, <1>2, <2>3
    <3> QED
      BY <3>1, <3>2, WayByOneOf
  <2> QED
    BY <1>1, <2>1, <2>2, <2>3 DEF Leaves, C!Rests
<1> QED
  BY <1>1, <1>4, <1>5, <1>6, <1>7 DEF Served



LEMMA CandidateServed == \A t \in Records("candidate") : Served("candidate", t)
<1> SUFFICES ASSUME NEW t \in Records("candidate") PROVE Served("candidate", t)
  OBVIOUS
<1>1. t # C!Absent /\ t \in [is : {"NEW", "DUPLICATE_HOLD", "SCREENING_INVITED", "WITHDRAWN",
                 "QUALIFIED", "REJECTED"}, twin : BOOLEAN, silent : BOOLEAN, round : {"NONE", "OPEN", "ENDED"},
           applied : {"NONE", "ACTIVE", "WITHDRAWN"}] /\ (t.is = "DUPLICATE_HOLD" => t.twin)
  BY DEF Records, C!Absent
<1>2. /\ C!Takes("candidate", t) = C!CandidateTakes(t)
      /\ C!Drift("candidate", t) = C!CandidateDrift(t)
      /\ \A m : C!Shows("candidate", m, t) =
                  C!ResolveDuplicate(m, t) \cup C!StartScreeningPanel(m, t) \cup C!ApplyPage(m, t)
      /\ C!After("candidate", t, "screen") = {[t EXCEPT !.is = "SCREENING_INVITED", !.round = "OPEN"]}
      /\ C!After("candidate", t, "withdraw") = {[t EXCEPT !.applied = "WITHDRAWN"]}
      /\ C!After("candidate", t, "same") = {[t EXCEPT !.is = "WITHDRAWN", !.twin = FALSE]}
      /\ C!After("candidate", t, "different") =
           {[t EXCEPT !.is = IF t.is = "DUPLICATE_HOLD" THEN "NEW" ELSE t.is, !.twin = FALSE]}
  BY <1>1 DEF C!Takes, C!Drift, C!Shows, C!After, C!CandidateAfter
<1>3. ASSUME NEW u, u \in [is : {"NEW", "DUPLICATE_HOLD", "SCREENING_INVITED", "WITHDRAWN",
                 "QUALIFIED", "REJECTED"}, twin : BOOLEAN, silent : BOOLEAN, round : {"NONE", "OPEN", "ENDED"},
           applied : {"NONE", "ACTIVE", "WITHDRAWN"}],
                  u.is = "DUPLICATE_HOLD" => u.twin
      PROVE  MovesTo("candidate", t, u)
  BY <1>3 DEF MovesTo, Records, C!Declared
<1>4. Kept("candidate", t)
  <2>1. ASSUME NEW a \in C!Takes("candidate", t), NEW u \in C!After("candidate", t, a)
        PROVE  MovesTo("candidate", t, u)
    <3>1. CASE a = "screen"
      BY <1>1, <1>2, <1>3, <2>1, <3>1 DEF C!Offer, C!CandidateTakes, C!StartScreeningTakes
    <3>2. CASE a = "withdraw"
      BY <1>1, <1>2, <1>3, <2>1, <3>2 DEF C!Offer, C!CandidateTakes, C!StartScreeningTakes
    <3>3. CASE a = "same"
      BY <1>1, <1>2, <1>3, <2>1, <3>3 DEF C!Offer, C!CandidateTakes, C!StartScreeningTakes
    <3>4. CASE a = "different"
      BY <1>1, <1>2, <1>3, <2>1, <3>4 DEF C!Offer, C!CandidateTakes, C!StartScreeningTakes
    <3> QED
      BY <1>2, <2>1, <3>1, <3>2, <3>3, <3>4 DEF C!Offer, C!CandidateTakes, C!StartScreeningTakes
  <2>2. ASSUME NEW u \in C!Drift("candidate", t) PROVE MovesTo("candidate", t, u)
    BY <1>1, <1>2, <1>3, <2>2 DEF C!Offer, C!CandidateDrift
  <2> QED
    BY <2>1, <2>2 DEF Kept
<1>5. Permitted("candidate", t)
  BY <1>1, <1>2, Roles DEF Permitted, C!Allowed, C!Routes, C!Both, C!All, C!Offer, C!ResolveDuplicate,
       C!StartScreeningPanel, C!ApplyPage, C!CandidatePage, C!ApplicantPage, C!CandidateRoute,
       C!DuplicateRoute, C!ApplyApplicationRoute, C!CandidatesRoute
<1>6. Granted("candidate", t)
  BY <1>1, <1>2 DEF Granted, C!LeftToTheAnswer, C!Offer, C!ResolveDuplicate, C!StartScreeningPanel,
       C!ApplyPage, C!CandidatePage, C!ApplicantPage, C!CandidateTakes, C!StartScreeningTakes
<1>7. Leaves("candidate", t)
  <2>1. CASE t.is = "DUPLICATE_HOLD"
    <3>1. /\ "OPERATOR" \in C!People
          /\ "different" \in C!Shows("candidate", C!May["OPERATOR"], t) \cap C!Takes("candidate", t)
      BY <1>1, <1>2, <2>1, Roles DEF C!Offer, C!ResolveDuplicate, C!StartScreeningPanel, C!ApplyPage,
           C!CandidatePage, C!ApplicantPage, C!CandidateTakes, C!StartScreeningTakes, C!OPERATOR
    <3>2. C!After("candidate", t, "different") # {t}
      BY <1>1, <1>2, <2>1
    <3> QED
      BY <3>1, <3>2, WayByButton
  <2>2. CASE t.is \in {"NEW", "SCREENING_INVITED"} /\ ~t.silent /\ t.round = "NONE"
    <3>1. /\ "OPERATOR" \in C!People
          /\ "screen" \in C!Shows("candidate", C!May["OPERATOR"], t) \cap C!Takes("candidate", t)
      BY <1>1, <1>2, <2>2, Roles DEF C!Offer, C!ResolveDuplicate, C!StartScreeningPanel, C!ApplyPage,
           C!CandidatePage, C!ApplicantPage, C!CandidateTakes, C!StartScreeningTakes, C!OPERATOR
    <3>2. C!After("candidate", t, "screen") # {t}
      BY <1>1, <1>2, <2>2
    <3> QED
      BY <3>1, <3>2, WayByButton
  <2>3. CASE t.is \in {"NEW", "SCREENING_INVITED"} /\ ~t.silent /\ t.round = "ENDED" /\ t.applied = "ACTIVE"
    <3>1. /\ "OPERATOR" \in C!People
          /\ "screen" \in C!Shows("candidate", C!May["OPERATOR"], t) \cap C!Takes("candidate", t)
      BY <1>1, <1>2, <2>3, Roles DEF C!Offer, C!ResolveDuplicate, C!StartScreeningPanel, C!ApplyPage,
           C!CandidatePage, C!ApplicantPage, C!CandidateTakes, C!StartScreeningTakes, C!OPERATOR
    <3>2. C!After("candidate", t, "screen") # {t}
      BY <1>1, <1>2, <2>3
    <3> QED
      BY <3>1, <3>2, WayByButton
  <2>4. CASE t.is \in {"NEW", "SCREENING_INVITED"} /\ t.round = "OPEN"
    <3> DEFINE u == [t EXCEPT !.round = "ENDED", !.is = "QUALIFIED"]
    <3>1. u \in C!Drift("candidate", t) /\ u.is # t.is
      BY <1>1, <1>2, <2>4 DEF C!Offer, C!CandidateDrift
    <3> QED
      BY <3>1, WayByDrift
  <2> QED
    BY <1>1, <2>1, <2>2, <2>3, <2>4 DEF Leaves, C!Rests
<1> QED
  BY <1>1, <1>4, <1>5, <1>6, <1>7 DEF Served


LEMMA ExpertServed == \A t \in Records("expert") : Served("expert", t)
<1> SUFFICES ASSUME NEW t \in Records("expert") PROVE Served("expert", t)
  OBVIOUS
<1> DEFINE Fields(u) == u \in [is : {"NONE", "IN_PROGRESS", "SUBMITTED", "VERIFIED", "REJECTED"}, filled : BOOLEAN,
                               letter : BOOLEAN, seated : BOOLEAN, owes : BOOLEAN, archived : BOOLEAN]
<1>1. t # C!Absent /\ Fields(t)
  BY DEF Records, C!Absent
<1>2. /\ C!Takes("expert", t) = C!ExpertTakes(t)
      /\ C!Drift("expert", t) = C!ExpertDrift(t)
      /\ \A m : C!Shows("expert", m, t) = C!OnboardingPanel(m, t) \cup C!InvitationPanel(m, t)
                  \cup C!WithdrawalPanel(m, t) \cup C!VerifyPanel(m, t) \cup C!PortalLinkPanel(m, t)
                  \cup C!ExpertProfileEditor(m, t)
      /\ \A a : C!After("expert", t, a) = C!ExpertAfter(t, a)
  BY <1>1 DEF C!Takes, C!Drift, C!Shows, C!After
<1>3. /\ C!CaseEdges["NONE"] = {"IN_PROGRESS"} /\ C!CaseEdges["IN_PROGRESS"] = {"SUBMITTED"}
      /\ C!CaseEdges["SUBMITTED"] = {"VERIFIED", "REJECTED"} /\ C!CaseEdges["VERIFIED"] = {}
      /\ C!CaseEdges["REJECTED"] = {"IN_PROGRESS", "SUBMITTED"}
  BY DEF C!CaseEdges
<1>4. ASSUME NEW u, Fields(u), u.is # t.is => u.is \in C!CaseEdges[t.is]
      PROVE  MovesTo("expert", t, u)
  BY <1>4 DEF MovesTo, Records, C!Declared
<1>5. Kept("expert", t)
  <2>1. ASSUME NEW a \in C!ExpertTakes(t), NEW u \in C!ExpertAfter(t, a)
        PROVE  Fields(u) /\ (u.is # t.is => u.is \in C!CaseEdges[t.is])
    <3>1. CASE a \in {"save", "submit"}
      <4>1. t.is \in {"IN_PROGRESS", "REJECTED"}
        BY <2>1, <3>1 DEF C!ExpertTakes, C!SaveOnboardingTakes, C!SubmitOnboardingTakes,
             C!DecideVerificationTakes, C!PortalLinkTakes, C!Offer
      <4>2. \/ \E f \in BOOLEAN : u = [t EXCEPT !.is = "IN_PROGRESS", !.filled = f]
            \/ u = [t EXCEPT !.is = "SUBMITTED"]
        <5>1. /\ C!ExpertAfter(t, "save") = {[t EXCEPT !.is = "IN_PROGRESS", !.filled = f] : f \in BOOLEAN}
              /\ C!ExpertAfter(t, "submit") = {[t EXCEPT !.is = "SUBMITTED"]}
          BY DEF C!ExpertAfter
        <5>2. CASE a = "save"
          BY <2>1, <5>1, <5>2
        <5>3. CASE a = "submit"
          BY <2>1, <5>1, <5>3
        <5> QED
          BY <3>1, <5>2, <5>3
      <4> QED
        BY <1>1, <1>3, <4>1, <4>2
    <3>2. CASE a \in {"verify", "return"}
      <4>1. t.is = "SUBMITTED"
        BY <2>1, <3>2 DEF C!ExpertTakes, C!SaveOnboardingTakes, C!SubmitOnboardingTakes,
             C!DecideVerificationTakes, C!PortalLinkTakes, C!Offer
      <4>2. u = [t EXCEPT !.is = "VERIFIED"] \/ u = [t EXCEPT !.is = "REJECTED"]
        <5>1. /\ C!ExpertAfter(t, "verify") = {[t EXCEPT !.is = "VERIFIED"]}
              /\ C!ExpertAfter(t, "return") = {[t EXCEPT !.is = "REJECTED"]}
          BY DEF C!ExpertAfter
        <5> QED
          BY <2>1, <3>2, <5>1
      <4> QED
        BY <1>1, <1>3, <4>1, <4>2
    <3>3. CASE a = "accept"
      <4>1. u = [t EXCEPT !.letter = FALSE, !.is = IF t.is = "NONE" THEN "IN_PROGRESS" ELSE t.is]
        BY <2>1, <3>3 DEF C!ExpertAfter
      <4> QED
        BY <1>1, <1>3, <4>1
    <3>4. CASE a \notin {"save", "submit", "verify", "return", "accept"}
      <4>1. \/ u = [t EXCEPT !.letter = FALSE]
            \/ u = [t EXCEPT !.seated = FALSE, !.owes = FALSE]
            \/ u = t
        <5>1. /\ C!ExpertAfter(t, "decline") = {[t EXCEPT !.letter = FALSE]}
              /\ C!ExpertAfter(t, "leave") = {[t EXCEPT !.seated = FALSE, !.owes = FALSE]}
              /\ C!ExpertAfter(t, "edit") = {t} /\ C!ExpertAfter(t, "link") = {t}
          BY DEF C!ExpertAfter
        <5>2. a \in {"decline", "leave", "edit", "link"}
          BY <2>1, <3>4 DEF C!ExpertTakes, C!SaveOnboardingTakes, C!SubmitOnboardingTakes,
               C!DecideVerificationTakes, C!PortalLinkTakes, C!Offer
        <5> QED
          BY <2>1, <5>1, <5>2
      <4> QED
        BY <1>1, <4>1
    <3> QED
      BY <3>1, <3>2, <3>3, <3>4
  <2>2. ASSUME NEW u \in C!ExpertDrift(t) PROVE Fields(u) /\ u.is = t.is
    BY <1>1, <2>2 DEF C!ExpertDrift, C!Offer
  <2> QED
    BY <1>2, <1>4, <2>1, <2>2 DEF Kept
<1>6. ASSUME NEW w \in C!People, NEW a \in C!Shows("expert", C!May[w], t)
      PROVE  /\ C!Allowed("expert", w, TRUE, a)
             /\ a \in C!Takes("expert", t) \cup C!LeftToTheAnswer("expert", t)
  <2>1. /\ \A b \in {"save", "submit", "accept", "decline", "leave"} : C!Routes("expert")[b] = "portal"
        /\ \A b \in {"verify", "return"} : C!Routes("expert")[b] = "onboarding:verify"
        /\ \A b \in {"edit", "link"} : C!Routes("expert")[b] = "expert:write"
    BY DEF C!Routes, C!Both, C!All, C!ExpertsRoute, C!ExpertRoute, C!PortalRoute
  <2>2. C!LeftToTheAnswer("expert", t) = C!Offer(t.archived, {"link"}) \cup C!Offer(~t.filled, {"submit"})
    BY DEF C!LeftToTheAnswer
  <2>3. CASE a \in C!OnboardingPanel(C!May[w], t)
    <3>1. "portal" \in C!May[w] /\ t.is \in {"IN_PROGRESS", "REJECTED"} /\ a \in {"save", "submit"}
      BY <2>3 DEF C!OnboardingPanel, C!Offer
    <3>2. C!Allowed("expert", w, TRUE, a)
      BY <2>1, <3>1 DEF C!Allowed
    <3>3. a \in C!ExpertTakes(t) \cup C!Offer(~t.filled, {"submit"})
      BY <3>1 DEF C!ExpertTakes, C!SaveOnboardingTakes, C!SubmitOnboardingTakes, C!Offer
    <3> QED
      BY <1>2, <2>2, <3>2, <3>3
  <2>4. CASE a \in C!InvitationPanel(C!May[w], t) \cup C!WithdrawalPanel(C!May[w], t)
    <3>1. /\ "portal" \in C!May[w] /\ a \in {"accept", "decline", "leave"}
          /\ a \in C!Offer(t.letter, {"accept", "decline"}) \cup C!Offer(t.seated, {"leave"})
      BY <2>4 DEF C!InvitationPanel, C!WithdrawalPanel, C!Offer
    <3>2. C!Allowed("expert", w, TRUE, a)
      BY <2>1, <3>1 DEF C!Allowed
    <3> QED
      BY <1>2, <3>1, <3>2 DEF C!ExpertTakes
  <2>5. CASE a \in C!VerifyPanel(C!May[w], t)
    <3>1. "onboarding:verify" \in C!May[w] /\ t.is = "SUBMITTED" /\ a \in {"verify", "return"}
      BY <2>5 DEF C!VerifyPanel, C!ExpertPage, C!Offer
    <3>2. C!Allowed("expert", w, TRUE, a)
      BY <2>1, <3>1 DEF C!Allowed
    <3> QED
      BY <1>2, <3>1, <3>2 DEF C!ExpertTakes, C!DecideVerificationTakes, C!Offer
  <2>6. CASE a \in C!PortalLinkPanel(C!May[w], t) \cup C!ExpertProfileEditor(C!May[w], t)
    <3>1. "expert:write" \in C!May[w] /\ a \in {"link", "edit"}
      BY <2>6 DEF C!PortalLinkPanel, C!ExpertProfileEditor, C!ExpertPage, C!Offer
    <3>2. C!Allowed("expert", w, TRUE, a)
      BY <2>1, <3>1 DEF C!Allowed
    <3>3. a \in C!ExpertTakes(t) \cup C!Offer(t.archived, {"link"})
      BY <3>1 DEF C!ExpertTakes, C!PortalLinkTakes, C!Offer
    <3> QED
      BY <1>2, <2>2, <3>2, <3>3
  <2> QED
    BY <1>2, <1>6, <2>3, <2>4, <2>5, <2>6
<1>7. Leaves("expert", t)
  <2>1. CASE t.is \in {"IN_PROGRESS", "REJECTED"}
    <3> DEFINE u == [t EXCEPT !.is = "IN_PROGRESS", !.filled = ~t.filled]
    <3>1. /\ "EXPERT" \in C!People
          /\ "save" \in C!Shows("expert", C!May["EXPERT"], t) \cap C!Takes("expert", t)
      BY <1>2, <2>1, Roles DEF C!OnboardingPanel, C!ExpertTakes, C!SaveOnboardingTakes, C!Offer
    <3>2. u \in C!After("expert", t, "save") /\ u # t
      <4>1. C!ExpertAfter(t, "save") = {[t EXCEPT !.is = "IN_PROGRESS", !.filled = f] : f \in BOOLEAN}
        BY DEF C!ExpertAfter
      <4> QED
        BY <1>1, <1>2, <4>1
    <3> QED
      BY <3>1, <3>2, WayByOneOf
  <2>2. CASE t.is = "SUBMITTED"
    <3>1. /\ "OPERATOR" \in C!People
          /\ "verify" \in C!Shows("expert", C!May["OPERATOR"], t) \cap C!Takes("expert", t)
      <4>1. "onboarding:verify" \in C!May["OPERATOR"]
        BY Roles DEF C!OPERATOR
      <4>2. "verify" \in C!VerifyPanel(C!May["OPERATOR"], t) /\ "verify" \in C!ExpertTakes(t)
        BY <2>2, <4>1 DEF C!VerifyPanel, C!ExpertPage, C!ExpertTakes, C!DecideVerificationTakes, C!Offer
      <4> QED
        BY <1>2, <4>2, Roles
    <3>2. C!After("expert", t, "verify") # {t}
      <4>1. C!ExpertAfter(t, "verify") = {[t EXCEPT !.is = "VERIFIED"]}
        BY DEF C!ExpertAfter
      <4> QED
        BY <1>1, <1>2, <2>2, <4>1
    <3> QED
      BY <3>1, <3>2, WayByButton
  <2> QED
    BY <1>1, <2>1, <2>2 DEF Leaves, C!Rests
<1> QED
  BY <1>1, <1>5, <1>6, <1>7 DEF Served, Permitted, Granted

LEMMA ScreeningServed == \A t \in Records("screening") : Served("screening", t)
<1> SUFFICES ASSUME NEW t \in Records("screening") PROVE Served("screening", t)
  OBVIOUS
<1> DEFINE Fields(u) == u \in [is : {"INVITED", "SUBMITTED", "IN_REVIEW", "REVISION_REQUESTED", "DECIDED", "EXPIRED"},
                               mine : BOOLEAN, seen : SUBSET {"approve", "disapprove"},
                               dispute : {"NONE", "OPEN", "RESOLVED"}, late : BOOLEAN]
<1>1. t # C!Absent /\ Fields(t)
  BY DEF Records, C!Absent
<1>2. /\ C!Takes("screening", t) = C!ScreeningTakes(t)
      /\ C!Drift("screening", t) = C!ScreeningDrift(t)
      /\ \A m : C!Shows("screening", m, t) = C!ScreeningForm(m, t) \cup C!AssignReviewerPanel(m, t)
                  \cup C!ReviewForm(m, t) \cup C!ScreeningDecisionPanel(m, t)
      /\ \A a : C!After("screening", t, a) = C!ScreeningAfter(t, a)
  BY <1>1 DEF C!Takes, C!Drift, C!Shows, C!After
<1>3. /\ C!ScreeningEdges["INVITED"] = {"SUBMITTED", "EXPIRED"}
      /\ C!ScreeningEdges["SUBMITTED"] = {"IN_REVIEW", "REVISION_REQUESTED", "DECIDED"}
      /\ C!ScreeningEdges["IN_REVIEW"] = {"REVISION_REQUESTED", "DECIDED"}
      /\ C!ScreeningEdges["REVISION_REQUESTED"] = {"SUBMITTED", "EXPIRED"}
  BY DEF C!ScreeningEdges
<1>4. ASSUME NEW u, Fields(u), u.is # t.is => u.is \in C!ScreeningEdges[t.is]
      PROVE  MovesTo("screening", t, u)
  BY <1>4 DEF MovesTo, Records, C!Declared
<1>5. Kept("screening", t)
  <2>1. ASSUME NEW a \in C!ScreeningTakes(t), NEW u \in C!ScreeningAfter(t, a)
        PROVE  Fields(u) /\ (u.is # t.is => u.is \in C!ScreeningEdges[t.is])
    <3>1. CASE a = "submit"
      <4>1. t.is \in {"INVITED", "REVISION_REQUESTED"}
        BY <2>1, <3>1 DEF C!ScreeningTakes, C!Offer
      <4>2. u = [t EXCEPT !.is = "SUBMITTED"]
        BY <2>1, <3>1 DEF C!ScreeningAfter
      <4> QED
        BY <1>1, <1>3, <4>1, <4>2
    <3>2. CASE a = "assign"
      <4>1. t.is \in {"SUBMITTED", "IN_REVIEW"}
        BY <2>1, <3>2 DEF C!ScreeningTakes, C!Offer
      <4>2. C!ScreeningAfter(t, "assign") = {[t EXCEPT !.is = "IN_REVIEW", !.mine = TRUE, !.seen = v] :
                                               v \in {t.seen} \cup {t.seen \ {x} : x \in t.seen}}
        BY DEF C!ScreeningAfter
      <4>3. PICK v \in {t.seen} \cup {t.seen \ {x} : x \in t.seen} :
                   u = [t EXCEPT !.is = "IN_REVIEW", !.mine = TRUE, !.seen = v]
        BY <2>1, <3>2, <4>2
      <4>4. v \in SUBSET {"approve", "disapprove"}
        BY <1>1
      <4> QED
        BY <1>1, <1>3, <4>1, <4>3, <4>4
    <3>3. CASE a \in {"approve", "disapprove"}
      <4>1. u = [t EXCEPT !.mine = FALSE, !.seen = t.seen \cup {a},
                   !.dispute = IF t.dispute = "NONE" /\ t.seen \ {a} # {} THEN "OPEN" ELSE t.dispute]
        BY <2>1, <3>3 DEF C!ScreeningAfter
      <4>2. t.seen \cup {a} \in SUBSET {"approve", "disapprove"}
        BY <1>1, <3>3
      <4> QED
        BY <1>1, <4>1, <4>2
    <3>4. CASE a = "resolve"
      <4>1. u = [t EXCEPT !.dispute = "RESOLVED"]
        BY <2>1, <3>4 DEF C!ScreeningAfter
      <4> QED
        BY <1>1, <4>1
    <3>5. CASE a \in {"revise", "qualify", "reject"}
      <4>1. t.is \in {"SUBMITTED", "IN_REVIEW"}
        BY <2>1, <3>5 DEF C!ScreeningTakes, C!Offer
      <4>2. /\ C!ScreeningAfter(t, "revise") = {[t EXCEPT !.is = "REVISION_REQUESTED"]}
            /\ C!ScreeningAfter(t, "qualify") = {[t EXCEPT !.is = "DECIDED"]}
            /\ C!ScreeningAfter(t, "reject") = {[t EXCEPT !.is = "DECIDED"]}
        BY DEF C!ScreeningAfter
      <4>3. u = [t EXCEPT !.is = "REVISION_REQUESTED"] \/ u = [t EXCEPT !.is = "DECIDED"]
        BY <2>1, <3>5, <4>2
      <4> QED
        BY <1>1, <1>3, <4>1, <4>3
    <3> QED
      BY <2>1, <3>1, <3>2, <3>3, <3>4, <3>5 DEF C!ScreeningTakes, C!Offer
  <2>2. ASSUME NEW u \in C!ScreeningDrift(t)
        PROVE  Fields(u) /\ (u.is # t.is => u.is \in C!ScreeningEdges[t.is])
    <3>1. /\ t.is \in {"INVITED", "REVISION_REQUESTED"}
          /\ u = [t EXCEPT !.late = TRUE] \/ u = [t EXCEPT !.is = "EXPIRED"]
      BY <2>2 DEF C!ScreeningDrift, C!Offer
    <3> QED
      BY <1>1, <1>3, <3>1
  <2> QED
    BY <1>2, <1>4, <2>1, <2>2 DEF Kept
<1>6. ASSUME NEW w \in C!People, NEW a \in C!Shows("screening", C!May[w], t)
      PROVE  /\ C!Allowed("screening", w, TRUE, a)
             /\ a \in C!Takes("screening", t) \cup C!LeftToTheAnswer("screening", t)
  <2>1. /\ \A b \in {"assign", "revise"} : C!Routes("screening")[b] = "screening:write"
        /\ \A b \in {"qualify", "reject"} : C!Routes("screening")[b] = "screening:decide"
        /\ C!Routes("screening")["resolve"] = "screening:resolve_conflict"
        /\ \A b \in {"approve", "disapprove"} : C!Routes("screening")[b] = "screening:review"
        /\ C!Routes("screening")["submit"] = "apply"
    BY DEF C!Routes, C!Both, C!All, C!ScreeningRoute, C!ReviewRoute, C!ApplyScreeningRoute
  <2>2. C!LeftToTheAnswer("screening", t) = C!Offer(t.seen = {}, {"qualify", "reject"}) \cup C!Offer(t.mine, {"assign"})
    BY DEF C!LeftToTheAnswer
  <2>3. CASE a \in C!ScreeningForm(C!May[w], t)
    <3>1. /\ "apply" \in C!May[w] /\ a = "submit" /\ ~t.late
          /\ t.is \in {"INVITED", "REVISION_REQUESTED"}
      BY <2>3 DEF C!ScreeningForm, C!Offer
    <3>2. C!Allowed("screening", w, TRUE, a)
      BY <2>1, <3>1 DEF C!Allowed
    <3> QED
      BY <1>2, <3>1, <3>2 DEF C!ScreeningTakes, C!Offer
  <2>4. CASE a \in C!AssignReviewerPanel(C!May[w], t)
    <3>1. "screening:write" \in C!May[w] /\ t.is \in {"SUBMITTED", "IN_REVIEW"} /\ a = "assign"
      BY <2>4 DEF C!AssignReviewerPanel, C!ScreeningsPage, C!Offer
    <3>2. C!Allowed("screening", w, TRUE, a)
      BY <2>1, <3>1 DEF C!Allowed
    <3>3. a \in C!ScreeningTakes(t) \cup C!Offer(t.mine, {"assign"})
      BY <3>1 DEF C!ScreeningTakes, C!Offer
    <3> QED
      BY <1>2, <2>2, <3>2, <3>3
  <2>5. CASE a \in C!ReviewForm(C!May[w], t)
    <3>1. "screening:review" \in C!May[w] /\ t.mine /\ a \in {"approve", "disapprove"}
      BY <2>5 DEF C!ReviewForm, C!ScreeningsPage, C!Offer
    <3>2. C!Allowed("screening", w, TRUE, a)
      BY <2>1, <3>1 DEF C!Allowed
    <3> QED
      BY <1>2, <3>1, <3>2 DEF C!ScreeningTakes, C!Offer
  <2>6. CASE a \in C!ScreeningDecisionPanel(C!May[w], t)
    <3>1. /\ "screening:decide" \in C!May[w] /\ t.is \in {"SUBMITTED", "IN_REVIEW"}
          /\ \/ a = "revise"
             \/ t.dispute # "OPEN" /\ a \in {"qualify", "reject"}
             \/ t.dispute = "OPEN" /\ a = "resolve" /\ "screening:resolve_conflict" \in C!May[w]
      BY <2>6 DEF C!ScreeningDecisionPanel, C!ScreeningsPage, C!Offer
    <3>2. "screening:write" \in C!May[w]
      BY <3>1, Roles DEF C!May, C!VIEWER, C!OPERATOR, C!ADMIN
    <3>3. C!Allowed("screening", w, TRUE, a)
      BY <2>1, <3>1, <3>2 DEF C!Allowed
    <3>4. a \in C!ScreeningTakes(t) \cup C!Offer(t.seen = {}, {"qualify", "reject"})
      BY <3>1 DEF C!ScreeningTakes, C!Offer
    <3> QED
      BY <1>2, <2>2, <3>3, <3>4
  <2> QED
    BY <1>2, <1>6, <2>3, <2>4, <2>5, <2>6
<1>7. Leaves("screening", t)
  <2>1. CASE t.is \in {"INVITED", "REVISION_REQUESTED"} /\ ~t.late
    <3>1. /\ "CANDIDATE" \in C!People
          /\ "submit" \in C!Shows("screening", C!May["CANDIDATE"], t) \cap C!Takes("screening", t)
      BY <1>2, <2>1, Roles DEF C!ScreeningForm, C!ScreeningTakes, C!Offer
    <3>2. C!After("screening", t, "submit") # {t}
      <4>1. C!ScreeningAfter(t, "submit") = {[t EXCEPT !.is = "SUBMITTED"]}
        BY DEF C!ScreeningAfter
      <4> QED
        BY <1>1, <1>2, <2>1, <4>1
    <3> QED
      BY <3>1, <3>2, WayByButton
  <2>2. CASE t.is \in {"INVITED", "REVISION_REQUESTED"} /\ t.late
    <3> DEFINE u == [t EXCEPT !.is = "EXPIRED"]
    <3>1. u \in C!Drift("screening", t) /\ u.is # t.is
      BY <1>1, <1>2, <2>2 DEF C!ScreeningDrift, C!Offer
    <3> QED
      BY <3>1, WayByDrift
  <2>3. CASE t.is \in {"SUBMITTED", "IN_REVIEW"}
    <3>1. /\ "OPERATOR" \in C!People
          /\ "revise" \in C!Shows("screening", C!May["OPERATOR"], t) \cap C!Takes("screening", t)
      <4>1. "screening:decide" \in C!May["OPERATOR"]
        BY Roles DEF C!OPERATOR
      <4>2. "revise" \in C!ScreeningDecisionPanel(C!May["OPERATOR"], t) /\ "revise" \in C!ScreeningTakes(t)
        BY <2>3, <4>1 DEF C!ScreeningDecisionPanel, C!ScreeningsPage, C!ScreeningTakes, C!Offer
      <4> QED
        BY <1>2, <4>2, Roles
    <3>2. C!After("screening", t, "revise") # {t}
      <4>1. C!ScreeningAfter(t, "revise") = {[t EXCEPT !.is = "REVISION_REQUESTED"]}
        BY DEF C!ScreeningAfter
      <4> QED
        BY <1>1, <1>2, <2>3, <4>1
    <3> QED
      BY <3>1, <3>2, WayByButton
  <2> QED
    BY <1>1, <2>1, <2>2, <2>3 DEF Leaves, C!Rests
<1> QED
  BY <1>1, <1>5, <1>6, <1>7 DEF Served, Permitted, Granted

\* What the rules of a project say of one move.
LEMMA ProjectMoves ==
  /\ C!ProjectEdges["DRAFT"] = {"MATCHING", "CANCELLED"}
  /\ C!ProjectEdges["MATCHING"] = {"DRAFT", "INVITING", "CANCELLED"}
  /\ C!ProjectEdges["INVITING"] = {"MATCHING", "STAFFING", "CANCELLED"}
  /\ C!ProjectEdges["STAFFING"] = {"INVITING", "ACTIVE", "CLOSED", "CANCELLED"}
  /\ C!ProjectEdges["ACTIVE"] = {"STAFFING", "CLOSED", "CANCELLED"}
  /\ C!ProjectEdges["CLOSED"] = {} /\ C!ProjectEdges["CANCELLED"] = {}
  /\ DOMAIN C!ProjectEdges =
       {"DRAFT", "MATCHING", "INVITING", "STAFFING", "ACTIVE", "CLOSED", "CANCELLED"}
BY DEF C!ProjectEdges

\* A project record that opened with requirements, whose seat goes to one of two,
\* and that is active only while the seat is gone.
ProjectSound(p) ==
  /\ p \in C!Projects
  /\ p.is # "DRAFT" => p.needs
  /\ p.taken => p.seat # "CONFIRMED"
  /\ p.is = "ACTIVE" => ~C!SeatsLeft(p)

\* A status moved along keeps a sound record sound, if it ends nowhere active
\* with the seat free.
LEMMA AdvancedSound ==
  ASSUME NEW t, NEW p \in C!Projects, NEW to \in DOMAIN C!ProjectEdges,
         p.is = t.is, p.is # "DRAFT" => p.needs, p.taken => p.seat # "CONFIRMED",
         to = "ACTIVE" => ~C!SeatsLeft(p),
         p.is = "ACTIVE" => to = "STAFFING" \/ ~C!SeatsLeft(p),
         to \in {"INVITING", "STAFFING", "ACTIVE"}
  PROVE  LET u == C!Advanced(p, to)
         IN  ProjectSound(u) /\ (u.is # t.is => u.is \in C!ProjectEdges[t.is])
<1>1. p.is = "DRAFT" => to \notin C!ProjectEdges[p.is]
  BY ProjectMoves
<1>2. CASE to \in C!ProjectEdges[p.is]
  <2>1. C!Advanced(p, to) = [p EXCEPT !.is = to]
    BY <1>2 DEF C!Advanced
  <2>2. [p EXCEPT !.is = to] \in C!Projects
    BY DEF C!Projects
  <2>3. C!SeatsLeft([p EXCEPT !.is = to]) <=> C!SeatsLeft(p)
    BY DEF C!SeatsLeft, C!Projects
  <2> QED
    BY <1>1, <1>2, <2>1, <2>2, <2>3 DEF ProjectSound, C!Projects
<1>3. CASE to \notin C!ProjectEdges[p.is]
  <2>1. C!Advanced(p, to) = p
    BY <1>3 DEF C!Advanced
  <2>2. p.is = "ACTIVE" => to # "STAFFING"
    BY <1>3, ProjectMoves
  <2> QED
    BY <2>1, <2>2 DEF ProjectSound
<1> QED
  BY <1>2, <1>3

LEMMA ProjectServed == \A t \in Records("project") : Served("project", t)
<1> SUFFICES ASSUME NEW t \in Records("project") PROVE Served("project", t)
  OBVIOUS
<1> DEFINE Follows(u) == ProjectSound(u) /\ (u.is # t.is => u.is \in C!ProjectEdges[t.is])
<1>1. t # C!Absent /\ ProjectSound(t)
  BY DEF Records, C!Absent, ProjectSound, C!Projects, C!ProjectEdges
<1>2. /\ t.is \in {"DRAFT", "MATCHING", "INVITING", "STAFFING", "ACTIVE", "CLOSED", "CANCELLED"}
      /\ t.needs \in BOOLEAN /\ t.ran \in BOOLEAN /\ t.taken \in BOOLEAN /\ t.ready \in BOOLEAN
      /\ t.letter \in {"NONE", "DRAFT", "SENT", "ACCEPTED", "DECLINED", "EXPIRED", "WITHDRAWN"}
      /\ t.seat \in {"NONE", "PROPOSED", "CONFIRMED", "RELEASED"}
      /\ t \in C!Projects /\ t.is \in DOMAIN C!ProjectEdges
  BY <1>1, ProjectMoves DEF ProjectSound, C!Projects
<1>3. /\ C!Takes("project", t) = C!ProjectTakes(t)
      /\ C!Drift("project", t) = C!ProjectDrift(t)
      /\ \A m : C!Shows("project", m, t) = C!ProjectPage(m, t)
      /\ \A a : C!After("project", t, a) = C!ProjectAfter(t, a)
  BY <1>1 DEF C!Takes, C!Drift, C!Shows, C!After
<1>4. ASSUME NEW u, Follows(u) PROVE MovesTo("project", t, u)
  BY <1>4 DEF MovesTo, Records, C!Declared, ProjectSound
<1>5. Kept("project", t)
  <2>1. ASSUME NEW a \in C!ProjectTakes(t), NEW u \in C!ProjectAfter(t, a) PROVE Follows(u)
    <3> USE DEF C!ProjectTakes, C!SetProjectStatusTakes, C!RunMatchingTakes, C!CreateInvitationTakes,
          C!WithdrawInvitationTakes, C!ProposeTakes, C!ConfirmTakes, C!ReleaseTakes, C!Offer
    <3>1. CASE a = "open"
      <4>1. t.is \in {"DRAFT", "MATCHING", "INVITING"} /\ t.needs
        BY <1>1, <1>2, <2>1, <3>1, ProjectMoves DEF ProjectSound
      <4>2. u = [t EXCEPT !.is = "MATCHING"]
        BY <2>1, <3>1 DEF C!ProjectAfter
      <4> QED
        BY <1>1, <1>2, <4>1, <4>2, ProjectMoves DEF ProjectSound, C!Projects, C!SeatsLeft
    <3>2. CASE a = "inviting"
      <4>1. t.is \in {"MATCHING", "INVITING", "STAFFING"}
        BY <1>2, <2>1, <3>2, ProjectMoves
      <4>2. u = [t EXCEPT !.is = "INVITING"]
        BY <2>1, <3>2 DEF C!ProjectAfter
      <4> QED
        BY <1>1, <1>2, <4>1, <4>2, ProjectMoves DEF ProjectSound, C!Projects, C!SeatsLeft
    <3>3. CASE a = "close"
      <4>1. t.is \in {"STAFFING", "ACTIVE", "CLOSED"}
        BY <1>2, <2>1, <3>3, ProjectMoves
      <4>2. u = [t EXCEPT !.is = "CLOSED"]
        BY <2>1, <3>3 DEF C!ProjectAfter
      <4> QED
        BY <1>1, <1>2, <4>1, <4>2, ProjectMoves DEF ProjectSound, C!Projects, C!SeatsLeft
    <3>4. CASE a = "match"
      <4>1. u = [t EXCEPT !.ran = TRUE]
        BY <2>1, <3>4 DEF C!ProjectAfter
      <4> QED
        BY <1>1, <1>2, <4>1 DEF ProjectSound, C!Projects, C!SeatsLeft
    <3>5. CASE a = "withdraw"
      <4>1. u = [t EXCEPT !.letter = "WITHDRAWN"]
        BY <2>1, <3>5 DEF C!ProjectAfter
      <4> QED
        BY <1>1, <1>2, <4>1 DEF ProjectSound, C!Projects, C!SeatsLeft
    <3>6. CASE a = "propose"
      <4>1. t.seat \in {"NONE", "RELEASED"}
        BY <2>1, <3>6
      <4>2. u = [t EXCEPT !.seat = "PROPOSED"]
        BY <2>1, <3>6 DEF C!ProjectAfter
      <4> QED
        BY <1>1, <1>2, <4>1, <4>2 DEF ProjectSound, C!Projects, C!SeatsLeft
    <3>7. CASE a = "invite"
      <4> DEFINE p == [t EXCEPT !.letter = "DRAFT"]
      <4>1. t.is \in {"MATCHING", "INVITING", "STAFFING"}
        BY <2>1, <3>7 DEF C!OpenForInvitations
      <4>2. u = C!Advanced(p, "INVITING")
        BY <2>1, <3>7 DEF C!ProjectAfter
      <4>3. p \in C!Projects /\ p.is = t.is /\ p.needs = t.needs /\ p.taken = t.taken /\ p.seat = t.seat
        BY <1>2 DEF C!Projects
      <4> HIDE DEF p
      <4> QED
        BY <1>1, <4>1, <4>2, <4>3, AdvancedSound, ProjectMoves DEF ProjectSound
    <3>8. CASE a = "confirm"
      <4> DEFINE p == [t EXCEPT !.seat = "CONFIRMED"]
      <4>1. ~t.taken
        BY <2>1, <3>8 DEF C!SeatsLeft
      <4>2. u = C!Advanced(p, "ACTIVE")
        BY <2>1, <3>8 DEF C!ProjectAfter
      <4>3. p \in C!Projects /\ p.is = t.is /\ p.needs = t.needs /\ p.taken = t.taken /\ p.seat = "CONFIRMED"
        BY <1>2 DEF C!Projects
      <4> HIDE DEF p
      <4>4. ~C!SeatsLeft(p)
        BY <4>3 DEF C!SeatsLeft
      <4> QED
        BY <1>1, <4>1, <4>2, <4>3, <4>4, AdvancedSound, ProjectMoves DEF ProjectSound
    <3>9. CASE a \in {"release", "withdraw_proposal"}
      <4> DEFINE p == [t EXCEPT !.seat = "RELEASED"]
      <4>1. u = IF C!SeatsLeft(p) THEN C!Advanced(p, "STAFFING") ELSE p
        <5>1. C!ProjectAfter(t, "release") = {C!Freed(t)} /\ C!ProjectAfter(t, "withdraw_proposal") = {C!Freed(t)}
          BY DEF C!ProjectAfter
        <5> QED
          BY <2>1, <3>9, <5>1 DEF C!Freed
      <4>2. p \in C!Projects /\ p.is = t.is /\ p.needs = t.needs /\ p.taken = t.taken /\ p.seat = "RELEASED"
        BY <1>2 DEF C!Projects
      <4> HIDE DEF p
      <4>3. CASE C!SeatsLeft(p)
        BY <1>1, <4>1, <4>2, <4>3, AdvancedSound, ProjectMoves DEF ProjectSound
      <4>4. CASE ~C!SeatsLeft(p)
        BY <1>1, <4>1, <4>2, <4>4 DEF ProjectSound
      <4> QED
        BY <4>3, <4>4
    <3> QED
      BY <2>1, <3>1, <3>2, <3>3, <3>4, <3>5, <3>6, <3>7, <3>8, <3>9
  <2>2. ASSUME NEW u \in C!ProjectDrift(t) PROVE Follows(u)
    <3>1. CASE u \in {[t EXCEPT !.letter = "SENT"], [t EXCEPT !.letter = "DECLINED"],
                      [t EXCEPT !.letter = "EXPIRED"], [t EXCEPT !.ready = ~t.ready]}
      BY <1>1, <1>2, <3>1 DEF ProjectSound, C!Projects, C!SeatsLeft
    <3>2. CASE u = C!Advanced([t EXCEPT !.letter = "ACCEPTED"], "STAFFING")
      <4> DEFINE p == [t EXCEPT !.letter = "ACCEPTED"]
      <4>1. p \in C!Projects /\ p.is = t.is /\ p.needs = t.needs /\ p.taken = t.taken /\ p.seat = t.seat
        BY <1>2 DEF C!Projects
      <4>2. u = C!Advanced(p, "STAFFING")
        BY <3>2
      <4> HIDE DEF p
      <4> QED
        BY <1>1, <4>1, <4>2, AdvancedSound, ProjectMoves DEF ProjectSound
    <3>3. CASE C!SeatsLeft(t) /\ u = C!Advanced([t EXCEPT !.taken = TRUE], "ACTIVE")
      <4> DEFINE p == [t EXCEPT !.taken = TRUE]
      <4>1. p \in C!Projects /\ p.is = t.is /\ p.needs = t.needs /\ p.taken /\ p.seat = t.seat
        BY <1>2 DEF C!Projects
      <4>2. u = C!Advanced(p, "ACTIVE")
        BY <3>3
      <4>3. t.seat # "CONFIRMED"
        BY <3>3 DEF C!SeatsLeft
      <4> HIDE DEF p
      <4>4. ~C!SeatsLeft(p)
        BY <4>1 DEF C!SeatsLeft
      <4> QED
        BY <1>1, <4>1, <4>2, <4>3, <4>4, AdvancedSound, ProjectMoves DEF ProjectSound
    <3>4. CASE u = C!Advanced([t EXCEPT !.taken = FALSE], "STAFFING")
      <4> DEFINE p == [t EXCEPT !.taken = FALSE]
      <4>1. p \in C!Projects /\ p.is = t.is /\ p.needs = t.needs /\ ~p.taken /\ p.seat = t.seat
        BY <1>2 DEF C!Projects
      <4>2. u = C!Advanced(p, "STAFFING")
        BY <3>4
      <4> HIDE DEF p
      <4> QED
        BY <1>1, <4>1, <4>2, AdvancedSound, ProjectMoves DEF ProjectSound
    <3> QED
      BY <2>2, <3>1, <3>2, <3>3, <3>4 DEF C!ProjectDrift, C!Offer
  <2> QED
    BY <1>3, <1>4, <2>1, <2>2 DEF Kept
<1>6. ASSUME NEW w \in C!People, NEW a \in C!ProjectPage(C!May[w], t)
      PROVE  C!Allowed("project", w, TRUE, a) /\ a \in C!ProjectTakes(t) \cup C!LeftToTheAnswer("project", t)
  <2>1. /\ C!Routes("project")["match"] = "matching:run" /\ C!Routes("project")["invite"] = "invitation:send"
        /\ C!Routes("project")["withdraw"] = "invitation:withdraw"
        /\ C!Routes("project")["propose"] = "staffing:propose" /\ C!Routes("project")["confirm"] = "staffing:confirm"
        /\ \A b \in {"open", "inviting", "close"} : C!Routes("project")[b] = "project:status"
        /\ \A b \in {"withdraw_proposal", "release"} : C!Routes("project")[b] = "staffing:release"
    BY DEF C!Routes, C!Both, C!ProjectsRoute, C!ProjectRoute
  <2>2. C!LeftToTheAnswer("project", t) =
          C!Offer(~t.needs, {"open", "match"}) \cup C!Offer(t.is \notin C!OpenForInvitations, {"invite"})
            \cup C!Offer(t.is \notin C!OpenForStaffing, {"propose", "confirm"})
            \cup C!Offer(t.taken \/ ~t.ready, {"confirm"})
    BY DEF C!LeftToTheAnswer
  <2>3. CASE a \in C!ProjectHeader(C!May[w], t)
    <3>1. \/ a = "open" /\ t.is = "DRAFT" /\ "project:status" \in C!May[w]
          \/ a = "inviting" /\ t.is = "MATCHING" /\ "project:status" \in C!May[w]
          \/ a = "close" /\ t.is \in {"STAFFING", "ACTIVE"} /\ "project:status" \in C!May[w]
          \/ a = "match" /\ t.is \in C!OpenForInvitations /\ "matching:run" \in C!May[w]
      BY <2>3 DEF C!ProjectHeader, C!Offer, C!OpenForInvitations
    <3>2. C!Allowed("project", w, TRUE, a)
      BY <2>1, <3>1 DEF C!Allowed
    <3>3. a \in C!SetProjectStatusTakes(t) \cup C!RunMatchingTakes(t) \cup C!Offer(~t.needs, {"open", "match"})
      BY <3>1, ProjectMoves DEF C!SetProjectStatusTakes, C!RunMatchingTakes, C!Offer
    <3> QED
      BY <2>2, <3>2, <3>3 DEF C!ProjectTakes
  <2>4. CASE a \in C!InviteButton(C!May[w], t) \cup C!ExpertSearchInvite(C!May[w], t)
    <3>1. /\ "invitation:send" \in C!May[w] /\ a = "invite"
          /\ C!SeatsLeft(t) /\ t.letter \notin {"DRAFT", "SENT", "ACCEPTED"}
      BY <2>4 DEF C!InviteButton, C!ExpertSearchInvite, C!Offer
    <3>2. C!Allowed("project", w, TRUE, a)
      BY <2>1, <3>1 DEF C!Allowed
    <3>3. a \in C!CreateInvitationTakes(t) \cup C!Offer(t.is \notin C!OpenForInvitations, {"invite"})
      BY <3>1 DEF C!CreateInvitationTakes, C!Offer
    <3> QED
      BY <2>2, <3>2, <3>3 DEF C!ProjectTakes
  <2>5. CASE a \in C!InvitationTable(C!May[w], t)
    <3>1. "invitation:withdraw" \in C!May[w] /\ t.letter \in {"DRAFT", "SENT"} /\ a = "withdraw"
      BY <2>5 DEF C!InvitationTable, C!Offer
    <3>2. C!Allowed("project", w, TRUE, a)
      BY <2>1, <3>1 DEF C!Allowed
    <3> QED
      BY <3>1, <3>2 DEF C!ProjectTakes, C!WithdrawInvitationTakes, C!Offer
  <2>6. CASE a \in C!StaffingTable(C!May[w], t)
    <3>1. /\ t.letter = "ACCEPTED"
          /\ \/ t.seat = "PROPOSED" /\ "staffing:confirm" \in C!May[w] /\ a \in {"confirm", "withdraw_proposal"}
             \/ t.seat = "CONFIRMED" /\ "staffing:release" \in C!May[w] /\ a = "release"
             \/ ~C!Blocked(t) /\ "staffing:propose" \in C!May[w] /\ a = "propose"
      BY <2>6 DEF C!StaffingTable, C!Offer
    <3>2. "staffing:confirm" \in C!May[w] => "staffing:release" \in C!May[w]
      BY Roles DEF C!May, C!VIEWER, C!OPERATOR, C!ADMIN
    <3>3. C!Allowed("project", w, TRUE, a)
      BY <2>1, <3>1, <3>2 DEF C!Allowed
    <3>4. a \in C!ProposeTakes(t) \cup C!ConfirmTakes(t) \cup C!ReleaseTakes(t)
                  \cup C!Offer(t.is \notin C!OpenForStaffing, {"propose", "confirm"})
                  \cup C!Offer(t.taken \/ ~t.ready, {"confirm"})
      BY <1>2, <3>1 DEF C!ProposeTakes, C!ConfirmTakes, C!ReleaseTakes, C!Offer, C!Blocked, C!SeatsLeft
    <3> QED
      BY <2>2, <3>3, <3>4 DEF C!ProjectTakes
  <2> QED
    BY <1>6, <2>3, <2>4, <2>5, <2>6 DEF C!ProjectPage
<1>7. Leaves("project", t)
  <2>1. "OPERATOR" \in C!People /\ "project:status" \in C!May["OPERATOR"]
    BY Roles DEF C!OPERATOR
  <2>2. CASE t.is = "DRAFT" /\ t.needs
    <3>1. "open" \in C!ProjectPage(C!May["OPERATOR"], t) /\ "open" \in C!ProjectTakes(t)
      BY <2>1, <2>2, ProjectMoves DEF C!ProjectPage, C!ProjectHeader, C!ProjectTakes, C!SetProjectStatusTakes, C!Offer
    <3>2. C!ProjectAfter(t, "open") = {[t EXCEPT !.is = "MATCHING"]}
      BY DEF C!ProjectAfter
    <3>3. C!ProjectAfter(t, "open") # {t}
      BY <1>2, <2>2, <3>2 DEF C!Projects
    <3> QED
      BY <1>3, <2>1, <3>1, <3>3, WayByButton
  <2>3. CASE t.is = "MATCHING"
    <3>1. "inviting" \in C!ProjectPage(C!May["OPERATOR"], t) /\ "inviting" \in C!ProjectTakes(t)
      BY <2>1, <2>3, ProjectMoves DEF C!ProjectPage, C!ProjectHeader, C!ProjectTakes, C!SetProjectStatusTakes, C!Offer
    <3>2. C!ProjectAfter(t, "inviting") = {[t EXCEPT !.is = "INVITING"]}
      BY DEF C!ProjectAfter
    <3>3. C!ProjectAfter(t, "inviting") # {t}
      BY <1>2, <2>3, <3>2 DEF C!Projects
    <3> QED
      BY <1>3, <2>1, <3>1, <3>3, WayByButton
  <2>4. CASE t.is = "INVITING"
    <3>1. "match" \in C!ProjectPage(C!May["OPERATOR"], t) /\ "match" \in C!ProjectTakes(t)
      <4>1. "matching:run" \in C!May["OPERATOR"] /\ t.needs
        BY <1>1, <2>4, Roles DEF C!OPERATOR, ProjectSound
      <4> QED
        BY <2>4, <4>1 DEF C!ProjectPage, C!ProjectHeader, C!ProjectTakes, C!RunMatchingTakes, C!Offer, C!OpenForInvitations
    <3> QED
      BY <1>3, <2>1, <3>1 DEF Leaves
  <2>5. CASE t.is \in {"STAFFING", "ACTIVE"}
    <3>1. "close" \in C!ProjectPage(C!May["OPERATOR"], t) /\ "close" \in C!ProjectTakes(t)
      BY <2>1, <2>5, ProjectMoves DEF C!ProjectPage, C!ProjectHeader, C!ProjectTakes, C!SetProjectStatusTakes, C!Offer
    <3>2. C!ProjectAfter(t, "close") = {[t EXCEPT !.is = "CLOSED"]}
      BY DEF C!ProjectAfter
    <3>3. C!ProjectAfter(t, "close") # {t}
      BY <1>2, <2>5, <3>2 DEF C!Projects
    <3> QED
      BY <1>3, <2>1, <3>1, <3>3, WayByButton
  <2> QED
    BY <1>2, <2>2, <2>3, <2>4, <2>5 DEF Leaves, C!Rests
<1> QED
  BY <1>1, <1>3, <1>5, <1>6, <1>7 DEF Served, Permitted, Granted

\* The banners of a project, an expert and a candidate.
LEMMA ProjectBanner ==
  ASSUME NEW t \in Records("project")
  PROVE  /\ C!NextStep(t) \in C!ProjectPage(C!OPERATOR, t) \cup {"nothing", "wait", "invite"}
         /\ C!NextStep(t) = "invite" => t.is \in C!OpenForInvitations
         /\ C!Recruitable(t)
<1>1. /\ t.is \in {"DRAFT", "MATCHING", "INVITING", "STAFFING", "ACTIVE", "CLOSED", "CANCELLED"}
      /\ t.is = "ACTIVE" => ~C!SeatsLeft(t)
  BY DEF Records, C!Projects, C!ProjectEdges
<1>2. {"project:status", "matching:run", "staffing:confirm", "staffing:propose"} \subseteq C!OPERATOR
  BY DEF C!OPERATOR
<1>3. t.is \in C!OpenForInvitations => "match" \in C!ProjectHeader(C!OPERATOR, t)
  BY <1>2 DEF C!ProjectHeader, C!OpenForInvitations, C!Offer
<1>4. CASE t.is \in {"DRAFT", "CLOSED", "CANCELLED"}
  <2>1. C!NextStep(t) = (IF t.is = "DRAFT" THEN "open" ELSE "nothing")
    BY <1>4 DEF C!NextStep
  <2>2. t.is = "DRAFT" => "open" \in C!ProjectHeader(C!OPERATOR, t)
    BY <1>2 DEF C!ProjectHeader, C!Offer
  <2> QED
    BY <1>4, <2>1, <2>2 DEF C!ProjectPage, C!Recruitable, C!OpenForInvitations, C!OpenForStaffing
<1>5. CASE t.is \in {"MATCHING", "INVITING", "STAFFING", "ACTIVE"}
  <2>1. CASE ~C!SeatsLeft(t)
    BY <1>5, <2>1 DEF C!NextStep, C!Recruitable
  <2>2. CASE C!SeatsLeft(t)
    <3>1. t.is \in C!OpenForInvitations
      BY <1>1, <1>5, <2>2 DEF C!OpenForInvitations
    <3>2. C!Recruitable(t)
      BY <1>3, <3>1 DEF C!Recruitable, C!ProjectTakes, C!RunMatchingTakes, C!Offer
    <3>3. CASE t.letter = "ACCEPTED" /\ t.seat = "PROPOSED"
      <4>1. C!NextStep(t) = "confirm"
        BY <1>5, <2>2, <3>3 DEF C!NextStep
      <4>2. "confirm" \in C!StaffingTable(C!OPERATOR, t)
        BY <1>2, <3>3 DEF C!StaffingTable, C!Offer
      <4> QED
        BY <3>2, <4>1, <4>2 DEF C!ProjectPage
    <3>4. CASE t.letter = "ACCEPTED" /\ t.seat = "NONE" /\ ~C!Blocked(t)
      <4>1. C!NextStep(t) = "propose"
        BY <1>5, <2>2, <3>4 DEF C!NextStep
      <4>2. "propose" \in C!StaffingTable(C!OPERATOR, t)
        BY <1>2, <3>4 DEF C!StaffingTable, C!Offer
      <4> QED
        BY <3>2, <4>1, <4>2 DEF C!ProjectPage
    <3>5. CASE /\ ~(t.letter = "ACCEPTED" /\ t.seat = "PROPOSED")
               /\ ~(t.letter = "ACCEPTED" /\ t.seat = "NONE" /\ ~C!Blocked(t))
      <4>1. C!NextStep(t) = IF ~t.ran THEN "match" ELSE IF t.letter = "SENT" THEN "wait" ELSE "invite"
        BY <1>5, <2>2, <3>5 DEF C!NextStep
      <4> QED
        BY <1>3, <3>1, <3>2, <4>1 DEF C!ProjectPage
    <3> QED
      BY <3>3, <3>4, <3>5
  <2> QED
    BY <2>1, <2>2
<1> QED
  BY <1>1, <1>4, <1>5

LEMMA ExpertBanner ==
  ASSUME NEW t \in Records("expert"), C!PortalHome(t) = "nothing"
  PROVE  /\ C!InvitationPanel({"portal"}, t) = {} /\ ~t.owes
         /\ C!OnboardingPanel({"portal"}, t) # {} => t.filled
<1>1. /\ t.letter \in BOOLEAN /\ t.owes \in BOOLEAN /\ t.filled \in BOOLEAN
      /\ t.is \in {"NONE", "IN_PROGRESS", "SUBMITTED", "VERIFIED", "REJECTED"}
  BY DEF Records
<1>2. CASE t.letter
  BY <1>2 DEF C!PortalHome
<1>3. CASE ~t.letter /\ t.is \in {"IN_PROGRESS", "REJECTED", "SUBMITTED"} /\ ~t.filled
  BY <1>3 DEF C!PortalHome
<1>4. CASE ~t.letter /\ t.is = "SUBMITTED" /\ t.filled
  BY <1>4 DEF C!PortalHome
<1>5. CASE /\ ~t.letter /\ ~(t.is = "SUBMITTED" /\ t.filled)
           /\ ~(t.is \in {"IN_PROGRESS", "REJECTED", "SUBMITTED"} /\ ~t.filled)
  <2>1. C!PortalHome(t) = IF t.owes THEN "deliver" ELSE "nothing"
    BY <1>5 DEF C!PortalHome
  <2>2. ~t.owes
    BY <1>1, <2>1
  <2> QED
    BY <1>1, <1>5, <2>2 DEF C!InvitationPanel, C!OnboardingPanel, C!Offer
<1> QED
  BY <1>1, <1>2, <1>3, <1>4, <1>5

LEMMA CandidateBanner ==
  ASSUME NEW t \in Records("candidate"), C!NextStepFor(t) \in {"resolve", "screen"}
  PROVE  t.round # "NONE" \/ C!NextStepFor(t) \in C!Takes("candidate", t) \cup {"resolve"} \/ t.silent
<1>1. SUFFICES ASSUME t.round = "NONE", ~t.silent, C!NextStepFor(t) = "screen"
               PROVE  "screen" \in C!Takes("candidate", t)
  OBVIOUS
<1>2. t.is = "NEW" /\ t # C!Absent
  BY <1>1 DEF C!NextStepFor, Records, C!Absent
<1> QED
  BY <1>1, <1>2 DEF C!Takes, C!CandidateTakes, C!StartScreeningTakes, C!Offer

-----------------------------------------------------------------------------
(* The console: what is on the screen and what is behind it are records of  *)
(* the kind looked at, whatever happened in between.                        *)

AllKinds ==
  {"support", "attention", "payment_item", "payment_batch", "outreach", "work", "offboarding", "job",
   "project", "campaign", "opportunity", "rubric", "expert", "screening", "candidate"}

Pages(k) == Records(k) \cup IF k \in C!WithForm THEN {C!Absent} ELSE {}

ConsoleInv == kind \in AllKinds /\ role \in C!People /\ thing \in Pages(kind) /\ page \in Pages(kind)

LEMMA EveryKindServed == ASSUME NEW k \in AllKinds, NEW t \in Records(k) PROVE Served(k, t)
BY SupportServed, AttentionServed, PaymentItemServed, PaymentBatchServed, OutreachServed, WorkServed,
   OffboardingServed, JobServed, ProjectServed, CampaignServed, OpportunityServed, RubricServed,
   ExpertServed, ScreeningServed, CandidateServed DEF AllKinds

\* What a form opens, or the worker starts, is a record of its kind.
LEMMA StartedIs == ASSUME NEW k \in AllKinds, NEW u \in C!Started(k) PROVE u \in Records(k)
<1>1. CASE k \in {"support", "attention", "work", "offboarding", "job", "campaign"}
  BY <1>1 DEF Records, C!Started
<1>2. CASE k = "payment_item"
  <2>1. u = [is |-> "DRAFT", flagged |-> TRUE] \/ u = [is |-> "READY", flagged |-> FALSE]
    BY <1>2 DEF C!Started
  <2>2. CASE u = [is |-> "DRAFT", flagged |-> TRUE]
    BY <1>2, <2>2 DEF Records
  <2>3. CASE u = [is |-> "READY", flagged |-> FALSE]
    BY <1>2, <2>3 DEF Records
  <2> QED
    BY <2>1, <2>2, <2>3
<1>3. CASE k = "payment_batch"
  <2>1. \E o \in BOOLEAN : u = [is |-> "DRAFT", own |-> o]
    BY <1>3 DEF C!Started
  <2> QED
    BY <1>3, <2>1 DEF Records
<1>4. CASE k = "outreach"
  <2>1. \E m \in BOOLEAN : u = [is |-> "DRAFT", mine |-> m, left |-> TRUE]
    BY <1>4 DEF C!Started
  <2> QED
    BY <1>4, <2>1 DEF Records
<1>5. CASE k = "project"
  <2>1. \E n \in BOOLEAN :
          u = [is |-> "DRAFT", needs |-> n, ran |-> FALSE, taken |-> FALSE, ready |-> FALSE,
               letter |-> "NONE", seat |-> "NONE"]
    BY <1>5 DEF C!Started
  <2> QED
    BY <1>5, <2>1, ProjectMoves DEF Records, C!Projects, C!SeatsLeft
<1>6. CASE k = "opportunity"
  <2>1. \E t \in BOOLEAN : u = [is |-> "DRAFT", told |-> t, past |-> FALSE]
    BY <1>6 DEF C!Started
  <2> QED
    BY <1>6, <2>1 DEF Records
<1>7. CASE k = "rubric"
  <2>1. u = [is |-> "NEW", drafting |-> FALSE, criteria |-> FALSE]
    BY <1>7 DEF C!Started
  <2> QED
    BY <1>7, <2>1 DEF Records
<1>8. CASE k = "expert"
  <2>1. u = [is |-> "NONE", filled |-> FALSE, letter |-> FALSE, seated |-> FALSE, owes |-> FALSE,
             archived |-> FALSE]
    BY <1>8 DEF C!Started
  <2> QED
    BY <1>8, <2>1 DEF Records
<1>9. CASE k = "screening"
  <2>1. u = [is |-> "INVITED", mine |-> FALSE, seen |-> {}, dispute |-> "NONE", late |-> FALSE]
    BY <1>9 DEF C!Started
  <2> QED
    BY <1>9, <2>1 DEF Records
<1>10. CASE k = "candidate"
  <2>1. \E t \in BOOLEAN, a \in {"NONE", "ACTIVE"} :
          u = [is |-> IF t THEN "DUPLICATE_HOLD" ELSE "NEW", twin |-> t, silent |-> FALSE,
               round |-> "NONE", applied |-> a]
    BY <1>10 DEF C!Started
  <2> QED
    BY <1>10, <2>1 DEF Records
<1> QED
  BY <1>1, <1>2, <1>3, <1>4, <1>5, <1>6, <1>7, <1>8, <1>9, <1>10 DEF AllKinds

\* Every form is shown to those whose role its route asks for.
LEMMA FormsPermitted ==
  ASSUME NEW k \in C!WithForm, NEW w \in C!People, NEW a \in C!Shows(k, C!May[w], C!Absent)
  PROVE  C!Allowed(k, w, TRUE, a)
<1>1. a \in C!Form(k, C!May[w])
  BY DEF C!Shows
<1>2. CASE k \in {"project", "expert", "candidate", "campaign"}
  BY <1>1, <1>2 DEF C!Form, C!Allowed, C!Routes, C!Both, C!Offer, C!ProjectForm, C!ProjectsPage, C!ProjectsRoute,
    C!ExpertForm, C!ExpertsPage, C!ExpertsRoute, C!CandidateForm, C!CandidatesPage, C!CandidatesRoute,
    C!CreateCampaignForm, C!CampaignsPage, C!CampaignsRoute
<1>3. CASE k \in {"opportunity", "rubric", "outreach"}
  BY <1>1, <1>3 DEF C!Form, C!Allowed, C!Routes, C!Both, C!Offer, C!NewOpportunityPage, C!OpportunitiesRoute,
    C!CreateTemplateForm, C!OutreachBuilder, C!OutreachPage, C!OutreachBatchesRoute
<1>4. CASE k \in {"payment_batch", "work", "support"}
  BY <1>1, <1>4 DEF C!Form, C!Allowed, C!Routes, C!Both, C!Offer, C!CreateBatchPanel, C!PaymentBatchesRoute,
    C!AssignWorkPanel, C!WorkItemsRoute, C!NewSupportForm, C!PortalSupportListRoute
<1> QED
  BY <1>2, <1>3, <1>4 DEF C!WithForm

LEMMA ConsoleInit == ASSUME C!ConsoleAssumption, C!Init PROVE ConsoleInv
BY StartedIs DEF C!Init, C!ConsoleAssumption, ConsoleInv, Pages, AllKinds

\* What a request or a drift makes of the record.
LEMMA RecordMoves ==
  ASSUME ConsoleInv, NEW u,
         \/ \E a \in C!Takes(kind, thing) : u \in C!After(kind, thing, a)
         \/ u \in C!Drift(kind, thing)
  PROVE  /\ u \in Records(kind)
         /\ thing.is \in DOMAIN C!Declared(kind) /\ u.is # thing.is => u.is \in C!Declared(kind)[thing.is]
<1>1. CASE thing = C!Absent
  <2>1. u \in C!Started(kind)
    BY <1>1 DEF C!After, C!Drift
  <2>2. thing.is \notin DOMAIN C!Declared(kind)
    BY <1>1 DEF C!Absent, C!Declared, C!PaymentBatchEdges, C!OutreachEdges, C!WorkEdges, C!ProjectEdges,
      C!CampaignEdges, C!CaseEdges, C!ScreeningEdges
  <2> QED
    BY <2>1, <2>2, StartedIs DEF ConsoleInv
<1>2. CASE thing # C!Absent
  <2>1. Kept(kind, thing)
    BY <1>2, EveryKindServed DEF ConsoleInv, Pages, Served
  <2> QED
    BY <2>1 DEF Kept, MovesTo
<1> QED
  BY <1>1, <1>2

LEMMA ConsoleStep == ASSUME ConsoleInv, [C!Next]_(C!consoleVars) PROVE ConsoleInv'
<1>1. ASSUME kind' = kind, role' = role, thing' = thing \/ thing' \in Records(kind),
             page' = page \/ page' = thing'
      PROVE  ConsoleInv'
  BY <1>1 DEF ConsoleInv, Pages
<1>2. ASSUME NEW a, C!Click(a) PROVE ConsoleInv'
  BY <1>1, <1>2 DEF C!Click
<1>3. CASE C!Handle
  BY <1>1, <1>3, RecordMoves DEF C!Handle, C!Good
<1>4. CASE C!Refresh
  BY <1>1, <1>4 DEF C!Refresh
<1>5. CASE C!Elsewhere
  BY <1>1, <1>5, RecordMoves DEF C!Elsewhere
<1>6. CASE C!Lapse
  BY <1>1, <1>6 DEF C!Lapse
<1>7. CASE UNCHANGED C!consoleVars
  BY <1>1, <1>7 DEF C!consoleVars
<1> QED
  BY <1>2, <1>3, <1>4, <1>5, <1>6, <1>7 DEF C!Next

\* A record changes status only along the declared moves.
LEMMA MoveDeclared ==
  ASSUME ConsoleInv, C!Next
  PROVE  thing.is \in DOMAIN C!Declared(kind) /\ thing'.is # thing.is => thing'.is \in C!Declared(kind)[thing.is]
<1>1. CASE C!Handle
  BY <1>1, RecordMoves DEF C!Handle, C!Good
<1>2. CASE C!Elsewhere
  BY <1>2, RecordMoves DEF C!Elsewhere
<1>3. CASE thing' = thing
  BY <1>3
<1> QED
  BY <1>1, <1>2, <1>3 DEF C!Next, C!Click, C!Refresh, C!Lapse

LEMMA ConsoleFollows == ASSUME ConsoleInv PROVE C!ConsoleHolds
<1>1. C!OfferedIsTaken
  <2>1. ASSUME NEW a \in C!Shows(kind, C!May[role], page) PROVE C!Allowed(kind, role, TRUE, a)
    <3>1. CASE page \in Records(kind)
      BY <2>1, <3>1, EveryKindServed DEF ConsoleInv, Served, Permitted
    <3>2. CASE page = C!Absent /\ kind \in C!WithForm
      BY <2>1, <3>2, FormsPermitted DEF ConsoleInv
    <3> QED
      BY <3>1, <3>2 DEF ConsoleInv, Pages
  <2>2. ASSUME NEW a \in C!Shows(kind, C!May[role], page), C!Fresh, thing # C!Absent
        PROVE  a \in C!Takes(kind, thing) \cup C!LeftToTheAnswer(kind, thing)
    BY <2>2, EveryKindServed DEF ConsoleInv, Pages, Served, Granted, C!Fresh
  <2> QED
    BY <2>1, <2>2 DEF C!OfferedIsTaken
<1>2. C!WayOut
  <2>1. thing # C!Absent => Leaves(kind, thing)
    BY EveryKindServed DEF ConsoleInv, Pages, Served
  <2> QED
    BY <2>1 DEF C!WayOut, Leaves
<1>3. C!BannersHold
  BY ProjectBanner, ExpertBanner, CandidateBanner DEF ConsoleInv, Pages, C!BannersHold
<1> QED
  BY <1>1, <1>2, <1>3 DEF C!ConsoleHolds

-----------------------------------------------------------------------------
(***************************************************************************)
(* Together.  Every step moves one component and leaves the others alone;  *)
(* the figures are looked at where they are chosen.                        *)
(***************************************************************************)

Samples ==
  /\ focus = "ranking" => sample \in Comparisons
  /\ focus = "amounts" => sample \in Payouts

PlatformInv == SchedulesInv /\ OutboxInv /\ ReplacementsInv /\ ConsoleInv /\ Samples

LEMMA PlatformStarts == ASSUME PlatformInit PROVE PlatformInv
<1>1. SchedulesInv /\ OutboxInv /\ ReplacementsInv /\ ConsoleInv
  BY PlatformAssumption, SchedulesInit, OutboxInit, ReplacementsInit, ConsoleInit DEF PlatformInit
<1>2. Samples
  BY DEF PlatformInit, Samples
<1> QED
  BY <1>1, <1>2 DEF PlatformInv

LEMMA Split ==
  ASSUME [PlatformNext]_platformVars
  PROVE  /\ [S!Next]_(S!vars) /\ [M!Next]_(M!vars) /\ [Next]_vars /\ [C!Next]_(C!consoleVars)
         /\ UNCHANGED <<focus, sample>>
<1>1. CASE UNCHANGED platformVars
  BY <1>1 DEF platformVars, scheduleVars, outboxVars, S!vars, S!bounds, M!vars, consoleVars, C!consoleVars
<1>2. CASE SchedulesNext
  BY <1>2 DEF SchedulesNext, outboxVars, M!vars, consoleVars, C!consoleVars
<1>3. CASE MessagesNext
  BY <1>3 DEF MessagesNext, scheduleVars, S!vars, S!bounds, consoleVars, C!consoleVars
<1>4. CASE ReplacementsNext
  BY <1>4 DEF ReplacementsNext, scheduleVars, outboxVars, S!vars, S!bounds, M!vars, consoleVars, C!consoleVars
<1>5. CASE ScreensNext
  BY <1>5 DEF ScreensNext, scheduleVars, outboxVars, S!vars, S!bounds, M!vars
<1> QED
  BY <1>1, <1>2, <1>3, <1>4, <1>5 DEF PlatformNext

LEMMA PlatformStep == PlatformInv /\ [PlatformNext]_platformVars => PlatformInv'
<1> SUFFICES ASSUME PlatformInv, [PlatformNext]_platformVars PROVE PlatformInv'
  OBVIOUS
<1>1. SchedulesInv' /\ OutboxInv' /\ ReplacementsInv' /\ ConsoleInv'
  BY PlatformAssumption, Split, SchedulesStep, OutboxStep, ReplacementsStep, ConsoleStep DEF PlatformInv
<1>2. Samples'
  BY Split DEF PlatformInv, Samples
<1> QED
  BY <1>1, <1>2 DEF PlatformInv

\* The invariant of all of them holds in every reachable state.
THEOREM PlatformSound == PlatformSpec => []PlatformInv
<1>1. PlatformInit => PlatformInv
  BY PlatformStarts
<1> QED
  BY <1>1, PlatformStep, PTL DEF PlatformSpec

\* recordWithdrawal, staffing.propose_replacements, recommendReplacements: for any
\* number of experts, seats and workers that search at once, whoever a ranking, a
\* search or a recommendation names can be invited while a seat is free, a
\* withdrawal is offered exactly where one is made, nobody is proposed for the
\* seat they left, no more batches wait than there are workers, and a project
\* with an empty seat takes invitations.
THEOREM ReplacementsHeld == PlatformSpec => []ReplacementsHold
<1>1. PlatformInv => ReplacementsHold
  BY PlatformAssumption, ReplacementsFollow DEF PlatformInv
<1> QED
  BY <1>1, PlatformSound, PTL

LEMMA SamplesSound == ASSUME Samples PROVE FiguresSound
<1>1. ASSUME focus = "ranking"
      PROVE  RankingSound(sample.c, sample.d, sample.b)
  <2> DEFINE slugs == {"a", "b"}
  <2>1. sample.c \in Candidates /\ sample.b \in Briefs
        /\ \E x \in Candidates : sample.d = [x EXCEPT !.id = 2]
    BY <1>1 DEF Samples, Comparisons
  <2>2. ASSUME NEW x \in Candidates PROVE x \in CandidatesOn(slugs)
    <3>1. PICK st \in {"VERIFIED"}, y \in {1, 9}, r \in {100, 110}, o \in {-11, 10},
               a \in {3, 5}, b \in {0, 2, 4}, n \in {-1, 3}, m \in {0} :
            x = [id |-> 1, status |-> st, reachable |-> TRUE, years |-> y, rate |-> r, offset |-> o,
                 capacity |-> 20, skill |-> [a |-> a, b |-> b], open |-> FALSE, assigned |-> FALSE,
                 declined |-> n, seats |-> m]
      BY DEF Candidates
    <3>2. [a |-> a, b |-> b] \in [slugs -> Nat]
      OBVIOUS
    <3>3. /\ st \in DOMAIN STANDING_BY_STATUS /\ y \in Nat /\ r \in Nat /\ o \in Offsets
          /\ n \in Nat \cup {Never} /\ m \in Nat
      BY DEF STANDING_BY_STATUS, Offsets, Never
    <3> HIDE DEF slugs
    <3> QED
      BY <3>1, <3>2, <3>3 DEF CandidatesOn
  <2>3. ASSUME NEW x \in Briefs PROVE x \in BriefsOn(slugs)
    <3>1. PICK y \in {0, 2}, m \in {100}, q \in BOOLEAN :
            x = [minYears |-> y, maxRate |-> m, offset |-> -11, hours |-> 40,
                 asks |-> [a |-> [required |-> TRUE, min |-> 3, weight |-> 2],
                           b |-> [required |-> q, min |-> 3, weight |-> 1]]]
      BY DEF Briefs
    <3>2. [a |-> [required |-> TRUE, min |-> 3, weight |-> 2], b |-> [required |-> q, min |-> 3, weight |-> 1]]
            \in [slugs -> [required : BOOLEAN, min : Nat, weight : Nat]]
      <4> DEFINE Ask == [required : BOOLEAN, min : Nat, weight : Nat]
      <4>1. PICK k \in Ask : k = [required |-> TRUE, min |-> 3, weight |-> 2]
        OBVIOUS
      <4>2. PICK l \in Ask : l = [required |-> q, min |-> 3, weight |-> 1]
        OBVIOUS
      <4> HIDE DEF Ask
      <4>3. [a |-> k, b |-> l] \in [slugs -> Ask]
        OBVIOUS
      <4> QED
        BY <4>1, <4>2, <4>3 DEF Ask
    <3> HIDE DEF slugs
    <3>3. y \in Nat /\ m \in Nat /\ -11 \in Offsets
      BY DEF Offsets
    <3> QED
      BY <3>1, <3>2, <3>3 DEF BriefsOn
  <2>4. \A x \in CandidatesOn(slugs) : [x EXCEPT !.id = 2] \in CandidatesOn(slugs)
    BY DEF CandidatesOn
  <2>5. IsFiniteSet(slugs)
    <3>1. slugs = ({} \cup {"a"}) \cup {"b"}
      OBVIOUS
    <3>2. IsFiniteSet({} \cup {"a"})
      BY FS_EmptySet, FS_AddElement
    <3> QED
      BY <3>1, <3>2, FS_AddElement
  <2> HIDE DEF slugs
  <2> QED
    BY <2>1, <2>2, <2>3, <2>4, <2>5, RankingIsSound
<1>2. ASSUME focus = "amounts"
      PROVE  /\ sample.draft.claimed # NoClaim => ReadsNearest(sample.draft.claimed)
             /\ AmountSound(sample.draft.quantity, sample.more, sample.draft.rate)
             /\ UnexplainedAsClaimed(sample.draft)
  <2>1. /\ sample.draft.claimed \in Texts \cup {NoClaim}
        /\ sample.draft.quantity \in Nat /\ sample.draft.rate \in Nat /\ sample.draft.listRate \in Nat
        /\ sample.draft.ceiling \in Int /\ sample.more \in Nat
    BY <1>2 DEF Samples, Payouts, Drafts, NoCeiling
  <2>2. Texts \subseteq Text
    <3>1. {<< >>, <<5>>, <<0, 0>>, <<0, 1>>, <<0, 0, 4, 9>>, <<0, 0, 5>>, <<9, 9, 4, 9>>, <<9, 9, 5, 0>>}
            \subseteq Seq(0 .. 9)
      OBVIOUS
    <3>2. {0, 60} \subseteq Nat
      OBVIOUS
    <3> QED
      BY <3>1, <3>2 DEF Texts, Text
  <2>3. sample.draft.claimed # NoClaim => ReadsNearest(sample.draft.claimed)
    BY <2>1, <2>2, NearestRead
  <2> QED
    BY <2>1, <2>3, AmountsSound, PassedAsClaimed
<1> QED
  BY <1>1, <1>2 DEF FiguresSound

\* scoreCandidate, rankCandidates, toQuantityScaled, computeAmountMinor,
\* detectDiscrepancies: the figures of every choice are sound.
THEOREM FiguresHeld == PlatformSpec => []FiguresSound
<1>1. PlatformInv => FiguresSound
  BY SamplesSound DEF PlatformInv
<1> QED
  BY <1>1, PlatformSound, PTL

\* tickSchedules, dispatchQueuedMessages: for any number of workers, schedules
\* and messages, no schedule fires early, while off or without its job, a worker
\* whose ticks fail reads as alive, and every message goes out at most once, the
\* oldest a run saw first.
THEOREM PunctualHolds == PlatformSpec => Punctual
<1>1. PlatformInv /\ [PlatformNext]_platformVars =>
        [\A s \in Schedules :
           schedule'[s].last # schedule[s].last =>
             \/ schedule[s].last = S!Never \/ s \in rearmed
             \/ schedule'[s].last >= schedule[s].last + Interval[s]]_(S!vars)
  BY Split, FiresStep DEF PlatformInv, Fires
<1>2. PlatformInv /\ [PlatformNext]_platformVars =>
        [\A s \in Schedules : ~schedule[s].on =>
           \A n \in 0 .. MaxClock : <<s, n>> \in fired' => <<s, n>> \in fired]_(S!vars)
  BY Split, QuietStep DEF PlatformInv, Quiet
<1>3. PlatformInv /\ [PlatformNext]_platformVars => [S!NothingConsumed']_(S!vars)
  BY Split, SchedulesStep DEF PlatformInv, SchedulesInv
<1>4. PlatformInv /\ [PlatformNext]_platformVars =>
        [\A w \in Ticking : lastError'[w] /\ ~lastError[w] => "error" \in S!Warnings']_(S!vars)
  BY Split, ReportsStep DEF PlatformInv, Reports
<1>5. PlatformInv /\ [PlatformNext]_platformVars =>
        [\A m \in Messages : delivered'[m] > delivered[m] =>
           /\ delivered[m] = 0 /\ m \in M!ToSet(queued) /\ m \notin M!ToSet(queued')
           /\ \A w \in Ticking, n \in M!ToSet(queued') :
                dispatch'[w] # dispatch[w] /\ M!Older(n, m) => n \notin dispatch[w].saw]_(M!vars)
  BY Split, DeliversStep DEF PlatformInv, Delivers
<1> QED
  BY <1>1, <1>2, <1>3, <1>4, <1>5, PlatformStarts, PlatformStep, PTL
     DEF PlatformSpec, Punctual, S!Punctual, S!Spacing, S!OffIsQuiet, S!FailingIsAlive, M!DeliveredOnce

\* The pages, their routes and the services behind them: for any set of kinds of
\* record and any number of moves a page may miss, every button a page shows is
\* one its viewer may press and, on a page that is up to date, one the service
\* takes or is known to leave to the answer; no record is left where nothing can
\* move it; and the banners announce what is offered.
THEOREM ConsoleHeld == PlatformSpec => []ConsoleHolds
<1>1. PlatformInv => ConsoleHolds
  BY ConsoleFollows DEF PlatformInv, ConsoleHolds
<1> QED
  BY <1>1, PlatformSound, PTL

\* The services behind the pages: whatever page a request came from, and however
\* often the record moved behind it, a record changes status only along the moves
\* its state machine declares.
THEOREM DeclaredMovesHold == PlatformSpec => OnlyDeclaredMoves
<1>1. PlatformInv /\ [PlatformNext]_platformVars =>
        [thing.is \in DOMAIN C!Declared(kind) /\ thing'.is # thing.is
           => thing'.is \in C!Declared(kind)[thing.is]]_(C!consoleVars)
  BY Split, MoveDeclared DEF PlatformInv
<1> QED
  BY <1>1, PlatformStarts, PlatformStep, PTL DEF PlatformSpec, OnlyDeclaredMoves, C!OnlyDeclaredMoves
=============================================================================
