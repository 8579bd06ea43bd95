---------------------------- MODULE FunnelProofs ----------------------------
(***************************************************************************)
(* What Funnel promises, for any number of records, applications and       *)
(* sessions and for every choice of calls that may overlap but those of    *)
(* Conflicting: one person is one candidate with one application.          *)
(***************************************************************************)
EXTENDS Funnel, FiniteSetTheorems, TLAPS

Stages == {"ABSENT", "NEW", "DUPLICATE_HOLD", "SCREENING_INVITED", "WITHDRAWN"}
FlagStatus == {"NONE", "OPEN", "CONFIRMED_SAME", "CONFIRMED_DIFFERENT"}
CandidateRow == [stage : Stages, optedOut : BOOLEAN]
ApplicationRow ==
  [of : People \cup {None}, listed : BOOLEAN,
   status : {"NONE", "SUBMITTED", "ACKNOWLEDGED", "SCREENING_STARTED", "CLOSED_WITHDRAWN"},
   withdrawn : BOOLEAN]
CallRow ==
  [at : {"idle", "detect", "flag", "hold", "claim", "settle", "status", "apply", "enqueue", "withdraw",
         "read", "mark"},
   does : Calls \cup {"none"}, c : People \cup {None}, a : Applications \cup {None},
   todo : SUBSET (People \cup Applications), held : BOOLEAN]

OnPeople == {"create", "same", "different"}
OnApplications == {"register", "apply", "record", "withdraw", "mark"}

Typed ==
  /\ candidate \in [People -> CandidateRow] /\ flag \in [People -> [People -> FlagStatus]]
  /\ opportunity \in [status : {"DRAFT", "PUBLISHED", "CLOSED"}, late : BOOLEAN]
  /\ application \in [Applications -> ApplicationRow] /\ doing \in [Sessions -> CallRow]
  /\ cut \subseteq People \cup Applications

CallsApart == \A x, y \in Sessions : x # y => {doing[x].does, doing[y].does} \notin Conflicting
Placed(s) ==
  /\ s.does = "none" <=> s.at = "idle"
  /\ s.at \in {"claim", "settle"} => s.does \in {"same", "different"}
Rested == \A x \in Sessions : Placed(doing[x])

\* What a call about a record knows of it.
PersonFits(s) ==
  /\ s.does \in OnPeople => s.c \in People /\ Exists(s.c) /\ s.todo \subseteq People
  /\ s.does = "create" =>
       /\ s.at \in {"detect", "flag", "hold"}
       /\ candidate[s.c].stage \in {"NEW", "SCREENING_INVITED"}
       /\ \A d \in People : flag[s.c][d] \in {"NONE", "OPEN"}
       /\ s.at = "detect" => OpenFlags(s.c) = {}
       /\ s.at = "hold" => OpenFlags(s.c) # {}
  /\ s.does \in {"same", "different"} => s.at \in {"claim", "settle"}
  /\ s.does = "different" =>
       candidate[s.c].stage # IF s.held THEN "WITHDRAWN" ELSE "DUPLICATE_HOLD"

OneCreator ==
  \A x, y \in Sessions :
    doing[x].does = "create" /\ doing[y].does = "create" /\ doing[x].c = doing[y].c => x = y

Creating(c) == \E x \in Sessions : doing[x].does = "create" /\ doing[x].c = c
\* A call that made the record c has yet to look for d, or to flag it.
Finding(c, d) ==
  \E x \in Sessions :
    /\ doing[x].does = "create" /\ doing[x].c = c
    /\ doing[x].at = "detect" \/ (doing[x].at = "flag" /\ d \in doing[x].todo)
Withdrawing(c) == \E x \in Sessions : doing[x].does = "same" /\ doing[x].at = "settle" /\ doing[x].c = c
Releasing(c) ==
  \E x \in Sessions : doing[x].does = "different" /\ doing[x].at = "settle" /\ doing[x].c = c /\ doing[x].held

Noticed ==
  \A c, d \in People \ cut :
    c # d /\ Exists(c) /\ Exists(d) =>
      flag[c][d] # "NONE" \/ flag[d][c] # "NONE" \/ Finding(c, d) \/ Finding(d, c)

\* The stage of a record nobody is creating answers its flags, but for the calls
\* that have answered one and have yet to write the stage.
Parked(c) ==
  /\ OpenFlags(c) # {} => candidate[c].stage \in {"DUPLICATE_HOLD", "WITHDRAWN"}
  /\ candidate[c].stage = "DUPLICATE_HOLD" => OpenFlags(c) # {} \/ Withdrawing(c) \/ Releasing(c)
  /\ (\E d \in People : flag[c][d] = "CONFIRMED_SAME") => candidate[c].stage = "WITHDRAWN" \/ Withdrawing(c)

PeopleInv ==
  /\ \A c, d \in People : flag[c][d] # "NONE" => Exists(c)
  /\ \A x \in Sessions : PersonFits(doing[x])
  /\ OneCreator /\ Noticed
  /\ \A c \in People \ cut : Creating(c) \/ Parked(c)

\* What a call about applications knows of them.
ApplicantFits(s) ==
  /\ s.does = "register" => s.at = "apply" /\ \A c \in People : ~Exists(c)
  /\ s.does = "apply" =>
       /\ s.at = "apply" /\ s.c \in People /\ Exists(s.c)
       /\ \A a \in s.todo : a \in Applications /\ application[a].listed
  /\ s.does = "record" => s.at = "enqueue" /\ s.a \in Applications /\ application[s.a].status # "NONE"
  /\ s.does = "withdraw" => s.at = "withdraw" /\ s.a \in Applications /\ application[s.a].status # "NONE"
  /\ s.does = "mark" =>
       /\ s.at \in {"read", "mark"} /\ s.c \in People
       /\ s.at = "mark" => \A a \in s.todo :
            a \in Applications /\ application[a].status # "NONE" /\ ~application[a].withdrawn

Applied(row) ==
  /\ row.status = "NONE" => ~row.listed
  /\ row.status # "NONE" => row.of \in People /\ Exists(row.of)
  /\ row.withdrawn <=> row.status = "CLOSED_WITHDRAWN"

Recording(a) == \E x \in Sessions : doing[x].does = "record" /\ doing[x].a = a

ApplicationsInv ==
  /\ \A a \in Applications : Applied(application[a])
  /\ \A a, b \in Applications :
       application[a].listed /\ application[b].listed /\ application[a].of = application[b].of => a = b
  /\ \A a \in thanks : a \in Applications /\ application[a].status # "NONE"
  /\ \A x \in Sessions : ApplicantFits(doing[x])
  /\ \A a \in Applications \ cut :
       application[a].status = "SUBMITTED" /\ ~application[a].listed =>
         a \in thanks \/ candidate[application[a].of].optedOut \/ Recording(a)

FunnelInv == Typed /\ CallsApart /\ Rested /\ PeopleInv /\ ApplicationsInv

LEMMA IdleRow == ASSUME FunnelAssumption PROVE Idle \in CallRow /\ Idle.does = "none" /\ Idle.at = "idle"
<1>1. {} \in SUBSET (People \cup Applications)
  OBVIOUS
<1> QED
  BY <1>1 DEF Idle, CallRow

LEMMA FunnelInit == ASSUME FunnelAssumption, Init PROVE FunnelInv
<1>1. \A x \in Sessions : doing[x] = Idle /\ doing[x].does = "none" /\ doing[x].at = "idle"
  BY IdleRow DEF Init
<1>2. Typed
  <2>1. candidate \in [People -> CandidateRow]
    BY DEF Init, Absent, CandidateRow, Stages
  <2>2. flag \in [People -> [People -> FlagStatus]]
    BY DEF Init, FlagStatus
  <2>3. application \in [Applications -> ApplicationRow]
    BY DEF Init, NoApplication, ApplicationRow
  <2>4. doing \in [Sessions -> CallRow]
    BY IdleRow DEF Init
  <2>5. opportunity \in [status : {"DRAFT", "PUBLISHED", "CLOSED"}, late : BOOLEAN]
    BY DEF Init
  <2> QED
    BY <2>1, <2>2, <2>3, <2>4, <2>5 DEF Init, Typed
<1>3. CallsApart
  <2>1. {"none", "none"} \notin Conflicting
    BY DEF Conflicting
  <2> QED
    BY <1>1, <2>1 DEF CallsApart
<1>4. PeopleInv
  <2>1. \A c, d \in People : ~Exists(c) /\ flag[c][d] = "NONE" /\ candidate[c].stage = "ABSENT"
    BY DEF Init, Exists, Absent
  <2>2. \A c \in People : Parked(c)
    BY <2>1 DEF Parked, OpenFlags
  <2> QED
    BY <1>1, <2>1, <2>2 DEF PeopleInv, PersonFits, OnPeople, OneCreator, Noticed
<1>5. ApplicationsInv
  <2>1. \A a \in Applications : application[a] = NoApplication
    BY DEF Init
  <2> QED
    BY <1>1, <2>1 DEF Init, ApplicationsInv, ApplicantFits, Applied, NoApplication
<1> QED
  BY <1>1, <1>2, <1>3, <1>4, <1>5 DEF FunnelInv, Rested, Placed

-----------------------------------------------------------------------------
(***************************************************************************)
(* How the calls move.                                                     *)
(***************************************************************************)
LEMMA CallMoves ==
  ASSUME Typed, NEW x \in Sessions, NEW row \in CallRow, doing' = [doing EXCEPT ![x] = row]
  PROVE  /\ doing' \in [Sessions -> CallRow] /\ doing'[x] = row
         /\ \A y \in Sessions \ {x} : doing'[y] = doing[y]
BY DEF Typed

LEMMA NothingConflictsWithNone ==
  \A does : {"none", does} \notin Conflicting /\ {does, "none"} \notin Conflicting
<1>1. \A s \in Conflicting : "none" \notin s
  BY DEF Conflicting
<1> QED
  BY <1>1

\* A call goes on as what it is, or ends.
LEMMA CallGoesOn ==
  ASSUME Typed, CallsApart, Rested, NEW x \in Sessions, NEW row \in CallRow,
         doing' = [doing EXCEPT ![x] = row],
         row.does \in {doing[x].does, "none"}, Placed(row)
  PROVE  /\ doing' \in [Sessions -> CallRow] /\ doing'[x] = row
         /\ \A y \in Sessions \ {x} : doing'[y] = doing[y]
         /\ CallsApart' /\ Rested'
<1>1. /\ doing' \in [Sessions -> CallRow] /\ doing'[x] = row
      /\ \A y \in Sessions \ {x} : doing'[y] = doing[y]
  BY CallMoves
<1>2. CallsApart'
  <2>1. CASE row.does = "none"
    BY <1>1, <2>1, NothingConflictsWithNone DEF CallsApart
  <2>2. CASE row.does = doing[x].does
    BY <1>1, <2>2 DEF CallsApart
  <2> QED
    BY <2>1, <2>2
<1>3. Rested'
  BY <1>1 DEF Rested
<1> QED
  BY <1>1, <1>2, <1>3

LEMMA CallEnds ==
  ASSUME FunnelAssumption, Typed, CallsApart, Rested, NEW x \in Sessions, Ends(x)
  PROVE  /\ doing' \in [Sessions -> CallRow] /\ doing'[x] = Idle
         /\ \A y \in Sessions \ {x} : doing'[y] = doing[y]
         /\ CallsApart' /\ Rested'
BY IdleRow, CallGoesOn DEF Ends, Placed

LEMMA CallBegins ==
  ASSUME Typed, CallsApart, Rested, Overlapping \cap Conflicting = {},
         NEW x \in Sessions, NEW does \in Calls, NEW s \in CallRow, s.at # "idle",
         s.at \notin {"claim", "settle"} \/ does \in {"same", "different"}, Arrives(x, does, s)
  PROVE  \E row \in CallRow :
           /\ row.does = does /\ row.at = s.at /\ row.c = s.c /\ row.a = s.a /\ row.todo = s.todo
           /\ row.held = s.held
           /\ doing' \in [Sessions -> CallRow] /\ doing'[x] = row
           /\ \A y \in Sessions \ {x} : doing'[y] = doing[y] /\ {does, doing[y].does} \notin Conflicting
           /\ CallsApart' /\ Rested' /\ doing[x].does = "none"
<1> DEFINE row == [s EXCEPT !.does = does]
<1>1. /\ row \in CallRow /\ row.does = does /\ row.at = s.at /\ row.c = s.c /\ row.a = s.a
      /\ row.todo = s.todo /\ row.held = s.held
  BY DEF CallRow
<1>2. doing' = [doing EXCEPT ![x] = row] /\ doing[x].at = "idle"
  BY DEF Arrives, Busy
<1>3. doing[x].does = "none" /\ does # "none"
  BY <1>2 DEF Rested, Placed, Calls
<1>4. ASSUME NEW y \in Sessions \ {x} PROVE {does, doing[y].does} \notin Conflicting
  <2>1. CASE doing[y].at = "idle"
    BY <2>1, NothingConflictsWithNone DEF Rested, Placed
  <2>2. CASE doing[y].at # "idle"
    BY <2>2 DEF Arrives, Busy
  <2> QED
    BY <2>1, <2>2
<1> HIDE DEF row
<1>5. /\ doing' \in [Sessions -> CallRow] /\ doing'[x] = row
      /\ \A y \in Sessions \ {x} : doing'[y] = doing[y]
  BY <1>1, <1>2, CallMoves
<1>6. CallsApart'
  <2>1. \A y \in Sessions \ {x} : {doing[y].does, does} = {does, doing[y].does}
    OBVIOUS
  <2> QED
    BY <1>1, <1>4, <1>5, <2>1 DEF CallsApart
<1>7. Rested'
  BY <1>1, <1>3, <1>5 DEF Rested, Placed
<1> QED
  BY <1>1, <1>3, <1>4, <1>5, <1>6, <1>7

LEMMA ConflictMeans ==
  ASSUME NEW c, NEW d, {c, d} \notin Conflicting
  PROVE  /\ c = "register" => d \notin {"register", "create"}
         /\ c = "create" => d \notin {"register", "same", "different"}
         /\ c = "same" => d \notin {"create", "different"}
         /\ c = "different" => d \notin {"create", "same"}
         /\ c = "withdraw" => d # "mark"
         /\ c = "mark" => d # "withdraw"
<1>1. /\ {c, d} # {"register"} /\ {c, d} # {"register", "create"} /\ {c, d} # {"same", "create"}
      /\ {c, d} # {"different", "create"} /\ {c, d} # {"same", "different"} /\ {c, d} # {"withdraw", "mark"}
  BY DEF Conflicting
<1>2. c = "register" => d \notin {"register", "create"}
  BY <1>1
<1>3. c = "create" => d \notin {"register", "same", "different"}
  <2>1. {"create", "register"} = {"register", "create"} /\ {"create", "same"} = {"same", "create"}
        /\ {"create", "different"} = {"different", "create"}
    OBVIOUS
  <2> QED
    BY <1>1, <2>1
<1>4. c = "same" => d \notin {"create", "different"}
  BY <1>1
<1>5. c = "different" => d \notin {"create", "same"}
  <2>1. {"different", "same"} = {"same", "different"}
    OBVIOUS
  <2> QED
    BY <1>1, <2>1
<1>6. (c = "withdraw" => d # "mark") /\ (c = "mark" => d # "withdraw")
  <2>1. {"mark", "withdraw"} = {"withdraw", "mark"}
    OBVIOUS
  <2> QED
    BY <1>1, <2>1
<1> QED
  BY <1>2, <1>3, <1>4, <1>5, <1>6

LEMMA OthersDo ==
  ASSUME CallsApart, NEW x \in Sessions
  PROVE  /\ \A y \in Sessions \ {x} :
              /\ doing[x].does = "register" => doing[y].does \notin {"register", "create"}
              /\ doing[x].does = "create" => doing[y].does \notin {"register", "same", "different"}
              /\ doing[x].does = "same" => doing[y].does \notin {"create", "different"}
              /\ doing[x].does = "different" => doing[y].does \notin {"create", "same"}
              /\ doing[x].does = "withdraw" => doing[y].does # "mark"
              /\ doing[x].does = "mark" => doing[y].does # "withdraw"
<1>1. \A y \in Sessions \ {x} : {doing[x].does, doing[y].does} \notin Conflicting
  BY DEF CallsApart
<1> QED
  BY <1>1, ConflictMeans

-----------------------------------------------------------------------------
(***************************************************************************)
(* A step that is about one half of the state keeps the other.             *)
(***************************************************************************)
LEMMA PeopleKept ==
  ASSUME PeopleInv, Typed, UNCHANGED flag, \A c \in People : candidate'[c].stage = candidate[c].stage,
         \A y \in Sessions : doing[y].does \in OnPeople \/ doing'[y].does \in OnPeople => doing'[y] = doing[y],
         cut \subseteq cut'
  PROVE  PeopleInv'
<1>1. \A c \in People : (Exists(c)' <=> Exists(c)) /\ OpenFlags(c)' = OpenFlags(c)
  BY DEF Exists, OpenFlags
<1>2. \A c, d \in People : /\ (Creating(c)' <=> Creating(c)) /\ (Finding(c, d)' <=> Finding(c, d))
                           /\ (Withdrawing(c)' <=> Withdrawing(c)) /\ (Releasing(c)' <=> Releasing(c))
  <2>1. \A y \in Sessions : doing'[y].does \in OnPeople => doing'[y] = doing[y]
    OBVIOUS
  <2>2. \A y \in Sessions : doing[y].does \in OnPeople => doing'[y] = doing[y]
    OBVIOUS
  <2>3. \A c \in People : Creating(c)' <=> Creating(c)
    BY <2>1, <2>2 DEF Creating, OnPeople
  <2>4. \A c, d \in People : Finding(c, d)' <=> Finding(c, d)
    BY <2>1, <2>2 DEF Finding, OnPeople
  <2>5. \A c \in People : (Withdrawing(c)' <=> Withdrawing(c)) /\ (Releasing(c)' <=> Releasing(c))
    BY <2>1, <2>2 DEF Withdrawing, Releasing, OnPeople
  <2> QED
    BY <2>3, <2>4, <2>5
<1>3. ASSUME NEW y \in Sessions PROVE PersonFits(doing[y])'
  <2>1. CASE doing'[y].does \notin OnPeople
    BY <2>1 DEF PersonFits, OnPeople
  <2>2. CASE doing'[y].does \in OnPeople
    BY <1>1, <2>2 DEF PersonFits, PeopleInv, OnPeople
  <2> QED
    BY <2>1, <2>2
<1>4. OneCreator'
  BY DEF OneCreator, PeopleInv, OnPeople
<1>5. Noticed'
  BY <1>1, <1>2 DEF Noticed, PeopleInv
<1>6. \A c \in People \ cut' : (Creating(c) \/ Parked(c))'
  BY <1>1, <1>2 DEF Parked, PeopleInv
<1> QED
  BY <1>1, <1>3, <1>4, <1>5, <1>6 DEF PeopleInv

LEMMA ApplicationsKept ==
  ASSUME ApplicationsInv, Typed, UNCHANGED <<application, thanks>>,
         \A c \in People : (Exists(c) => Exists(c)') /\ (candidate[c].optedOut => candidate'[c].optedOut),
         \A y \in Sessions :
           doing[y].does \in OnApplications \/ doing'[y].does \in OnApplications => doing'[y] = doing[y],
         \A y \in Sessions : doing[y].does = "register" => \A c \in People : ~Exists(c)',
         cut \subseteq cut'
  PROVE  ApplicationsInv'
<1>1. \A a \in Applications : Applied(application[a])'
  BY DEF Applied, ApplicationsInv
<1>2. ASSUME NEW y \in Sessions PROVE ApplicantFits(doing[y])'
  <2>1. CASE doing'[y].does \notin OnApplications
    BY <2>1 DEF ApplicantFits, OnApplications
  <2>2. CASE doing'[y].does \in OnApplications
    BY <2>2 DEF ApplicantFits, ApplicationsInv, OnApplications
  <2> QED
    BY <2>1, <2>2
<1>3. \A a : Recording(a) => Recording(a)'
  BY DEF Recording, OnApplications
<1>4. ASSUME NEW a \in Applications \ cut', application[a].status = "SUBMITTED", ~application[a].listed
      PROVE  a \in thanks \/ candidate'[application[a].of].optedOut \/ Recording(a)'
  <2>1. a \in thanks \/ candidate[application[a].of].optedOut \/ Recording(a)
    BY <1>4 DEF ApplicationsInv
  <2>2. application[a].of \in People
    BY <1>4 DEF ApplicationsInv, Applied
  <2> QED
    BY <1>3, <2>1, <2>2
<1> QED
  BY <1>1, <1>2, <1>4 DEF ApplicationsInv

\* The witnesses of the other calls stay.
LEMMA OthersGoOn ==
  ASSUME NEW x \in Sessions, \A y \in Sessions \ {x} : doing'[y] = doing[y]
  PROVE  \A c : doing[x].does \notin OnPeople \/ doing[x].c # c =>
           /\ Creating(c) => Creating(c)'
           /\ \A d : Finding(c, d) => Finding(c, d)'
           /\ Withdrawing(c) => Withdrawing(c)'
           /\ Releasing(c) => Releasing(c)'
<1> SUFFICES ASSUME NEW c, doing[x].does \notin OnPeople \/ doing[x].c # c
             PROVE  /\ Creating(c) => Creating(c)'
                    /\ \A d : Finding(c, d) => Finding(c, d)'
                    /\ Withdrawing(c) => Withdrawing(c)'
                    /\ Releasing(c) => Releasing(c)'
  OBVIOUS
<1>1. \A y \in Sessions : doing[y].does \in OnPeople /\ doing[y].c = c => y # x /\ doing'[y] = doing[y]
  OBVIOUS
<1>2. Creating(c) => Creating(c)'
  BY <1>1 DEF Creating, OnPeople
<1>3. \A d : Finding(c, d) => Finding(c, d)'
  BY <1>1 DEF Finding, OnPeople
<1>4. (Withdrawing(c) => Withdrawing(c)') /\ (Releasing(c) => Releasing(c)')
  BY <1>1 DEF Withdrawing, Releasing, OnPeople
<1> QED
  BY <1>2, <1>3, <1>4

\* A call about one record moves, and changes nothing of another.
LEMMA PersonMoves ==
  ASSUME FunnelInv, NEW x \in Sessions, NEW c \in People,
         \A y \in Sessions \ {x} : doing'[y] = doing[y],
         doing[x].does \notin OnPeople \/ doing[x].c = c,
         \A d \in People \ {c} : candidate'[d].stage = candidate[d].stage /\ flag'[d] = flag[d],
         Exists(c)', \A d \in People : flag[c][d] # "NONE" => flag'[c][d] # "NONE",
         PersonFits(doing[x])',
         doing'[x].does = "create" => doing'[x].c = c /\ (doing[x].does = "create" \/ ~Exists(c)),
         \A y \in Sessions \ {x} : doing[y].c = c => PersonFits(doing[y])',
         \A d \in People \ {c} :
           Exists(d) /\ (Finding(c, d) \/ ~Exists(c)) => Finding(c, d)' \/ flag'[c][d] # "NONE",
         c \notin cut' => (Creating(c) \/ Parked(c))',
         cut \subseteq cut'
  PROVE  PeopleInv'
<1>1. \A d \in People : Exists(d) => Exists(d)'
  BY DEF Exists
<1>2. \A d \in People \ {c} : Exists(d)' => Exists(d)
  BY DEF Exists
<1>3. \A d, e \in People : flag'[d][e] # "NONE" => Exists(d)'
  BY <1>1 DEF FunnelInv, PeopleInv
<1>4. ASSUME NEW y \in Sessions PROVE PersonFits(doing[y])'
  <2>1. CASE y # x /\ doing[y].c # c
    <3>1. doing'[y] = doing[y] /\ PersonFits(doing[y])
      BY <2>1 DEF FunnelInv, PeopleInv
    <3>2. CASE doing[y].does \notin OnPeople
      BY <3>1, <3>2 DEF PersonFits, OnPeople
    <3>3. CASE doing[y].does \in OnPeople
      <4>1. doing[y].c \in People \ {c}
        BY <2>1, <3>1, <3>3 DEF PersonFits
      <4> QED
        BY <3>1, <4>1 DEF PersonFits, Exists, OpenFlags
    <3> QED
      BY <3>2, <3>3
  <2> QED
    BY <2>1
<1>5. OneCreator'
  <2>1. \A y \in Sessions : doing[y].does = "create" => Exists(doing[y].c)
    BY DEF FunnelInv, PeopleInv, PersonFits, OnPeople
  <2>2. \A y \in Sessions \ {x} : ~(doing'[x].does = "create" /\ doing'[y].does = "create" /\ doing'[x].c = doing'[y].c)
    BY <2>1 DEF FunnelInv, PeopleInv, OneCreator, OnPeople
  <2> QED
    BY <2>2 DEF FunnelInv, PeopleInv, OneCreator
<1>6. \A d \in People \ {c} : (Creating(d) => Creating(d)') /\ (Withdrawing(d) => Withdrawing(d)')
        /\ (Releasing(d) => Releasing(d)') /\ \A e : Finding(d, e) => Finding(d, e)'
  BY OthersGoOn
<1>7. Noticed'
  <2>1. ASSUME NEW d \in People \ cut', NEW e \in People \ cut', d # e, Exists(d)', Exists(e)', d # c, e # c
        PROVE  (flag[d][e] # "NONE" \/ flag[e][d] # "NONE" \/ Finding(d, e) \/ Finding(e, d))'
    <3>1. flag[d][e] # "NONE" \/ flag[e][d] # "NONE" \/ Finding(d, e) \/ Finding(e, d)
      BY <1>2, <2>1 DEF FunnelInv, PeopleInv, Noticed
    <3> QED
      BY <1>6, <2>1, <3>1
  <2>2. ASSUME NEW e \in People \ cut', e # c, Exists(e)', c \notin cut'
        PROVE  (flag[c][e] # "NONE" \/ flag[e][c] # "NONE" \/ Finding(c, e) \/ Finding(e, c))'
    <3>1. Exists(e)
      BY <1>2, <2>2
    <3>2. CASE Exists(c)
      <4>1. flag[c][e] # "NONE" \/ flag[e][c] # "NONE" \/ Finding(c, e) \/ Finding(e, c)
        BY <2>2, <3>1, <3>2 DEF FunnelInv, PeopleInv, Noticed
      <4> QED
        BY <1>6, <2>2, <3>1, <4>1
    <3>3. CASE ~Exists(c)
      BY <2>2, <3>1, <3>3
    <3> QED
      BY <3>2, <3>3
  <2> QED
    BY <2>1, <2>2 DEF Noticed
<1>8. ASSUME NEW d \in People \ cut' PROVE (Creating(d) \/ Parked(d))'
  <2>1. CASE d # c
    <3>1. Creating(d) \/ Parked(d)
      BY <1>8 DEF FunnelInv, PeopleInv
    <3> QED
      BY <1>6, <2>1, <3>1 DEF Parked, OpenFlags
  <2> QED
    BY <1>8, <2>1
<1> QED
  BY <1>3, <1>4, <1>5, <1>7, <1>8 DEF PeopleInv

-----------------------------------------------------------------------------
(***************************************************************************)
(* Candidates and duplicates.                                              *)
(***************************************************************************)
LEMMA CreateRowStep ==
  ASSUME FunnelAssumption, Overlapping \cap Conflicting = {}, FunnelInv,
         NEW x \in Sessions, NEW c \in People, CreateRow(x, c)
  PROVE  FunnelInv'
<1> USE DEF FunnelInv
<1> DEFINE first == [Idle EXCEPT !.at = "detect", !.c = c]
           new == [candidate[c] EXCEPT !.stage = "NEW"]
<1>1. first \in CallRow /\ first.at = "detect" /\ first.c = c /\ first.todo = {}
  BY IdleRow DEF Idle, CallRow
<1>2. /\ ~Exists(c) /\ candidate' = [candidate EXCEPT ![c] = new] /\ Arrives(x, "create", first)
      /\ UNCHANGED <<flag, opportunity, application, thanks, cut>>
  BY DEF CreateRow
<1>3. new \in CandidateRow /\ new.stage = "NEW" /\ new.optedOut = candidate[c].optedOut
  BY DEF Typed, CandidateRow, Stages
<1> HIDE DEF first, new
<1>4. "create" \in Calls /\ first.at # "idle" /\ first.at \notin {"claim", "settle"}
  BY <1>1 DEF Calls
<1>5. PICK row \in CallRow :
        /\ row.does = "create" /\ row.at = "detect" /\ row.c = c /\ row.todo = {}
        /\ doing' \in [Sessions -> CallRow] /\ doing'[x] = row
        /\ \A y \in Sessions \ {x} : doing'[y] = doing[y] /\ {"create", doing[y].does} \notin Conflicting
        /\ CallsApart' /\ Rested' /\ doing[x].does = "none"
  BY <1>1, <1>2, <1>4, CallBegins
<1>6. /\ candidate' \in [People -> CandidateRow] /\ candidate'[c].stage = "NEW"
      /\ \A d \in People \ {c} : candidate'[d] = candidate[d]
      /\ \A d \in People : candidate'[d].optedOut = candidate[d].optedOut
  BY <1>2, <1>3 DEF Typed
<1>7. Typed'
  BY <1>2, <1>5, <1>6 DEF Typed
<1>8. \A y \in Sessions \ {x} : doing[y].does \notin {"register", "same", "different"}
  BY <1>5, ConflictMeans
<1>9. \A d \in People : flag[c][d] = "NONE"
  BY <1>2 DEF PeopleInv
<1>10. PeopleInv'
  <2>1. PersonFits(doing[x])'
    BY <1>2, <1>5, <1>6, <1>9 DEF PersonFits, OnPeople, Exists, OpenFlags
  <2>2. ASSUME NEW y \in Sessions \ {x}, doing[y].c = c PROVE PersonFits(doing[y])'
    <3>1. doing[y].does \notin OnPeople
      BY <1>2, <2>2 DEF PeopleInv, PersonFits
    <3> QED
      BY <1>5, <3>1 DEF PersonFits, OnPeople
  <2>3. Creating(c)' /\ \A d \in People : Finding(c, d)'
    BY <1>5 DEF Creating, Finding
  <2>4. Exists(c)' /\ cut \subseteq cut'
    BY <1>2, <1>6 DEF Exists
  <2>5. doing[x].does \notin OnPeople
    BY <1>5 DEF OnPeople
  <2> QED
    BY <1>2, <1>5, <1>6, <2>1, <2>2, <2>3, <2>4, <2>5, PersonMoves
<1>11. ApplicationsInv'
  <2>1. \A y \in Sessions : doing[y].does \in OnApplications \/ doing'[y].does \in OnApplications => doing'[y] = doing[y]
    BY <1>5 DEF OnApplications
  <2>2. \A y \in Sessions : doing[y].does # "register"
    BY <1>5, <1>8
  <2> QED
    BY <1>2, <1>6, <2>1, <2>2, ApplicationsKept DEF Exists
<1> QED
  BY <1>5, <1>7, <1>10, <1>11

\* A step of a call about records that are there already.
LEMMA PeopleStep ==
  ASSUME FunnelInv, NEW x \in Sessions, \A y \in Sessions \ {x} : doing'[y] = doing[y],
         doing[x].does \in OnPeople \cup {"none"}, doing'[x].does \in OnPeople \cup {"none"},
         \A c \in People : (Exists(c)' <=> Exists(c)) /\ candidate'[c].optedOut = candidate[c].optedOut,
         UNCHANGED <<application, thanks>>, cut \subseteq cut'
  PROVE  ApplicationsInv'
<1>1. \A y \in Sessions : doing[y].does \in OnApplications \/ doing'[y].does \in OnApplications => doing'[y] = doing[y]
  BY DEF OnApplications, OnPeople
<1>2. \A y \in Sessions : doing[y].does = "register" => \A c \in People : ~Exists(c)'
  BY DEF FunnelInv, ApplicationsInv, ApplicantFits
<1> QED
  BY <1>1, <1>2, ApplicationsKept DEF FunnelInv

LEMMA DetectStep ==
  ASSUME FunnelAssumption, FunnelInv, NEW x \in Sessions, DetectDuplicates(x)
  PROVE  FunnelInv'
<1> USE DEF FunnelInv
<1>0. PICK c \in People : c = doing[x].c
  BY DEF DetectDuplicates, At, PeopleInv, PersonFits, OnPeople
<1> DEFINE found == Matches(c)
           next == [doing[x] EXCEPT !.todo = found, !.at = "flag"]
<1>1. /\ doing[x].does = "create" /\ doing[x].at = "detect" /\ UNCHANGED <<candidate, flag, opportunity, application, thanks, cut>>
      /\ Exists(c) /\ candidate[c].stage \in {"NEW", "SCREENING_INVITED"}
      /\ (\A d \in People : flag[c][d] \in {"NONE", "OPEN"}) /\ OpenFlags(c) = {}
      /\ doing[x] \in CallRow
  BY <1>0 DEF DetectDuplicates, At, rows, PeopleInv, PersonFits, OnPeople, Typed
<1>2. found \subseteq People /\ \A d \in People \ {c} : Exists(d) => d \in found
  BY DEF Matches
<1>3. next \in CallRow /\ next.does = "create" /\ next.at = "flag" /\ next.c = c /\ next.todo = found
  <2>1. found \in SUBSET (People \cup Applications)
    BY <1>2
  <2> QED
    BY <1>0, <1>1, <2>1 DEF CallRow
<1>4. \/ found = {} /\ doing' = [doing EXCEPT ![x] = Idle]
      \/ doing' = [doing EXCEPT ![x] = next]
  <2>1. CASE found = {}
    BY <1>0, <2>1 DEF DetectDuplicates, Ends
  <2>2. CASE found # {}
    <3>1. doing' = [doing EXCEPT ![x].todo = found, ![x].at = "flag"]
      BY <1>0, <2>2 DEF DetectDuplicates
    <3> QED
      BY <3>1 DEF Typed
  <2> QED
    BY <2>1, <2>2
<1> HIDE DEF next, found
<1>5. PICK row \in CallRow :
        /\ doing' = [doing EXCEPT ![x] = row] /\ row.does \in {"create", "none"}
        /\ Placed(row) /\ (row.does = "none" => found = {})
        /\ row.does = "create" => row.at = "flag" /\ row.c = c /\ row.todo = found
  BY <1>3, <1>4, IdleRow DEF Placed
<1>6. /\ doing' \in [Sessions -> CallRow] /\ doing'[x] = row
      /\ \A y \in Sessions \ {x} : doing'[y] = doing[y]
      /\ CallsApart' /\ Rested'
  <2>1. row.does \in {doing[x].does, "none"} /\ Placed(row)
    BY <1>1, <1>5 DEF Placed
  <2> QED
    BY <1>5, <2>1, CallGoesOn
<1>7. \A d \in People : Exists(d)' <=> Exists(d)
  BY <1>1 DEF Exists
<1>8. PeopleInv'
  <2>1. PersonFits(doing[x])'
    BY <1>1, <1>2, <1>5, <1>6, <1>7 DEF PersonFits, OnPeople, OpenFlags
  <2>2. ASSUME NEW y \in Sessions \ {x} PROVE PersonFits(doing[y])'
    <3>1. PersonFits(doing[y])
      BY DEF PeopleInv
    <3> QED
      BY <1>1, <1>6, <3>1 DEF PersonFits, Exists, OpenFlags
  <2>3. \A d \in People \ {c} : Exists(d) => Finding(c, d)'
    BY <1>2, <1>5, <1>6 DEF Finding
  <2>4. (Creating(c) \/ Parked(c))'
    <3>1. CASE row.does = "create"
      BY <1>5, <1>6, <3>1 DEF Creating
    <3>2. CASE row.does = "none"
      BY <1>1 DEF Parked, OpenFlags
    <3> QED
      BY <1>5, <3>1, <3>2
  <2>5. doing'[x].does = "create" => doing'[x].c = c /\ doing[x].does = "create"
    BY <1>1, <1>5, <1>6
  <2> QED
    BY <1>1, <1>6, <1>7, <2>1, <2>2, <2>3, <2>4, <2>5, <1>0, PersonMoves
<1>9. ApplicationsInv'
  BY <1>1, <1>5, <1>6, <1>7, PeopleStep DEF OnPeople
<1>10. Typed'
  BY <1>1, <1>6 DEF Typed
<1> QED
  BY <1>6, <1>8, <1>9, <1>10

LEMMA AddFlagStep ==
  ASSUME FunnelAssumption, FunnelInv, NEW x \in Sessions, AddFlag(x)
  PROVE  FunnelInv'
<1> USE DEF FunnelInv
<1>1. PICK c \in People : c = doing[x].c
  BY DEF AddFlag, At, PeopleInv, PersonFits, OnPeople
<1>2. /\ doing[x].does = "create" /\ doing[x].at = "flag"
      /\ UNCHANGED <<candidate, opportunity, application, thanks, cut>>
      /\ Exists(c) /\ candidate[c].stage \in {"NEW", "SCREENING_INVITED"}
      /\ (\A d \in People : flag[c][d] \in {"NONE", "OPEN"}) /\ doing[x].todo \subseteq People
      /\ doing[x] \in CallRow
  BY <1>1 DEF AddFlag, At, PeopleInv, PersonFits, OnPeople, Typed
<1>3. PICK d \in doing[x].todo :
        /\ flag' = [flag EXCEPT ![c][d] = "OPEN"]
        /\ doing' = [doing EXCEPT ![x].todo = @ \ {d},
                                  ![x].at = IF doing[x].todo = {d} THEN "hold" ELSE "flag"]
  BY <1>1 DEF AddFlag
<1> DEFINE at == IF doing[x].todo = {d} THEN "hold" ELSE "flag"
           row == [doing[x] EXCEPT !.todo = doing[x].todo \ {d}, !.at = at]
           marks == [flag[c] EXCEPT ![d] = "OPEN"]
<1>4. /\ row \in CallRow /\ row.does = "create" /\ row.at \in {"flag", "hold"} /\ row.c = c
      /\ row.todo = doing[x].todo \ {d} /\ (row.at = "hold" => doing[x].todo = {d})
  <2>1. doing[x].todo \ {d} \in SUBSET (People \cup Applications)
    BY <1>2
  <2>2. at \in {"flag", "hold"} /\ (at = "hold" => doing[x].todo = {d})
    OBVIOUS
  <2> HIDE DEF at
  <2> QED
    BY <1>1, <1>2, <2>1, <2>2 DEF CallRow
<1>5. doing' = [doing EXCEPT ![x] = row]
  BY <1>3 DEF Typed
<1>6. /\ flag' = [flag EXCEPT ![c] = marks] /\ marks \in [People -> FlagStatus]
      /\ marks[d] = "OPEN" /\ \A e \in People \ {d} : marks[e] = flag[c][e]
  BY <1>2, <1>3 DEF Typed, FlagStatus
<1> HIDE DEF row, marks, at
<1>7. /\ doing' \in [Sessions -> CallRow] /\ doing'[x] = row
      /\ \A y \in Sessions \ {x} : doing'[y] = doing[y]
      /\ CallsApart' /\ Rested'
  <2>1. row.does \in {doing[x].does, "none"} /\ Placed(row)
    BY <1>2, <1>4 DEF Placed
  <2> QED
    BY <1>4, <1>5, <2>1, CallGoesOn
<1>8. /\ flag' \in [People -> [People -> FlagStatus]] /\ flag'[c][d] = "OPEN"
      /\ \A e \in People \ {d} : flag'[c][e] = flag[c][e]
      /\ \A e \in People \ {c} : flag'[e] = flag[e]
  BY <1>6 DEF Typed
<1>9. \A e \in People : Exists(e)' <=> Exists(e)
  BY <1>2 DEF Exists
<1>10. PeopleInv'
  <2>1. PersonFits(doing[x])'
    <3>1. d \in OpenFlags(c)'
      BY <1>2, <1>8 DEF OpenFlags
    <3>2. \A e \in People : flag'[c][e] \in {"NONE", "OPEN"}
      BY <1>2, <1>8
    <3> QED
      BY <1>2, <1>4, <1>7, <1>9, <3>1, <3>2 DEF PersonFits, OnPeople
  <2>2. ASSUME NEW y \in Sessions \ {x}, doing[y].c = c PROVE PersonFits(doing[y])'
    <3>1. doing[y].does \notin OnPeople
      BY <1>1, <1>2, <2>2, OthersDo DEF PeopleInv, OneCreator, OnPeople
    <3> QED
      BY <1>7, <3>1 DEF PersonFits, OnPeople
  <2>3. ASSUME NEW e \in People \ {c}, Finding(c, e) PROVE Finding(c, e)' \/ flag'[c][e] # "NONE"
    <3>1. PICK y \in Sessions :
            /\ doing[y].does = "create" /\ doing[y].c = c
            /\ doing[y].at = "detect" \/ (doing[y].at = "flag" /\ e \in doing[y].todo)
      BY <2>3 DEF Finding
    <3>2. y = x
      BY <1>1, <1>2, <3>1 DEF PeopleInv, OneCreator
    <3>3. CASE e = d
      BY <1>8, <3>3
    <3>4. CASE e # d
      <4>1. e \in row.todo /\ row.at = "flag"
        BY <1>2, <1>4, <3>1, <3>2, <3>4
      <4> QED
        BY <1>4, <1>7, <4>1 DEF Finding
    <3> QED
      BY <3>3, <3>4
  <2>4. Creating(c)'
    BY <1>4, <1>7 DEF Creating
  <2>5. doing'[x].does = "create" => doing'[x].c = c /\ doing[x].does = "create"
    BY <1>2, <1>4, <1>7
  <2>6. \A e \in People : flag[c][e] # "NONE" => flag'[c][e] # "NONE"
    BY <1>8
  <2> QED
    BY <1>1, <1>2, <1>7, <1>8, <1>9, <2>1, <2>2, <2>3, <2>4, <2>5, <2>6, PersonMoves
<1>11. ApplicationsInv'
  BY <1>2, <1>4, <1>7, <1>9, PeopleStep DEF OnPeople
<1>12. Typed'
  BY <1>2, <1>7, <1>8 DEF Typed
<1> QED
  BY <1>7, <1>10, <1>11, <1>12

LEMMA HoldStep ==
  ASSUME FunnelAssumption, FunnelInv, NEW x \in Sessions, Hold(x)
  PROVE  FunnelInv'
<1> USE DEF FunnelInv
<1>1. PICK c \in People : c = doing[x].c
  BY DEF Hold, At, PeopleInv, PersonFits, OnPeople
<1> DEFINE held == [candidate[c] EXCEPT !.stage = "DUPLICATE_HOLD"]
<1>2. /\ doing[x].does = "create" /\ doing[x].at = "hold" /\ Ends(x)
      /\ UNCHANGED <<flag, opportunity, application, thanks, cut>>
      /\ candidate' = [candidate EXCEPT ![c] = held]
      /\ Exists(c) /\ OpenFlags(c) # {} /\ \A d \in People : flag[c][d] \in {"NONE", "OPEN"}
  BY <1>1 DEF Hold, At, PeopleInv, PersonFits, OnPeople, Typed
<1>3. held \in CandidateRow /\ held.stage = "DUPLICATE_HOLD" /\ held.optedOut = candidate[c].optedOut
  BY DEF Typed, CandidateRow, Stages
<1> HIDE DEF held
<1>4. /\ candidate' \in [People -> CandidateRow] /\ candidate'[c].stage = "DUPLICATE_HOLD"
      /\ \A d \in People \ {c} : candidate'[d] = candidate[d]
      /\ \A d \in People : candidate'[d].optedOut = candidate[d].optedOut
  BY <1>2, <1>3 DEF Typed
<1>5. /\ doing' \in [Sessions -> CallRow] /\ doing'[x] = Idle
      /\ \A y \in Sessions \ {x} : doing'[y] = doing[y]
      /\ CallsApart' /\ Rested'
  BY <1>2, CallEnds
<1>6. \A d \in People : Exists(d)' <=> Exists(d)
  BY <1>2, <1>4 DEF Exists
<1>7. PeopleInv'
  <2>1. PersonFits(doing[x])'
    BY <1>5, IdleRow DEF PersonFits, OnPeople
  <2>2. ASSUME NEW y \in Sessions \ {x}, doing[y].c = c PROVE PersonFits(doing[y])'
    <3>1. doing[y].does \notin OnPeople
      BY <1>1, <1>2, <2>2, OthersDo DEF PeopleInv, OneCreator, OnPeople
    <3> QED
      BY <1>5, <3>1 DEF PersonFits, OnPeople
  <2>3. ASSUME NEW e \in People \ {c}, Finding(c, e) PROVE FALSE
    BY <1>1, <1>2, <2>3 DEF Finding, PeopleInv, OneCreator
  <2>4. Parked(c)'
    BY <1>2, <1>4 DEF Parked, OpenFlags
  <2>5. doing'[x].does # "create"
    BY <1>5, IdleRow
  <2> QED
    BY <1>1, <1>2, <1>4, <1>5, <1>6, <2>1, <2>2, <2>3, <2>4, <2>5, PersonMoves
<1>8. ApplicationsInv'
  BY <1>2, <1>4, <1>5, <1>6, IdleRow, PeopleStep DEF OnPeople
<1>9. Typed'
  BY <1>2, <1>4, <1>5 DEF Typed
<1> QED
  BY <1>5, <1>7, <1>8, <1>9

LEMMA ResolveReadStep ==
  ASSUME FunnelAssumption, Overlapping \cap Conflicting = {}, FunnelInv,
         NEW x \in Sessions, NEW c \in People, NEW d \in People, NEW does \in Calls,
         ResolveRead(x, c, d, does)
  PROVE  FunnelInv'
<1> USE DEF FunnelInv
<1> DEFINE held == candidate[c].stage = "DUPLICATE_HOLD"
           first == [Idle EXCEPT !.at = "claim", !.c = c, !.todo = {d}, !.held = held]
<1>1. /\ does \in {"same", "different"} /\ flag[c][d] = "OPEN" /\ Arrives(x, does, first)
      /\ UNCHANGED <<candidate, flag, opportunity, application, thanks, cut>>
  BY DEF ResolveRead, rows
<1>2. held \in BOOLEAN /\ (held <=> candidate[c].stage = "DUPLICATE_HOLD")
  OBVIOUS
<1> HIDE DEF held
<1>3. first \in CallRow /\ first.at = "claim" /\ first.c = c /\ first.todo = {d} /\ first.held = held
      /\ first.at # "idle"
  <2>1. {d} \in SUBSET (People \cup Applications)
    OBVIOUS
  <2> QED
    BY <1>2, <2>1, IdleRow DEF Idle, CallRow
<1> HIDE DEF first
<1>11. first \in CallRow /\ first.at # "idle" /\ (first.at \notin {"claim", "settle"} \/ does \in {"same", "different"})
       /\ Arrives(x, does, first)
  BY <1>1, <1>3
<1>12. PICK row \in CallRow :
        /\ row.does = does /\ row.at = first.at /\ row.c = first.c /\ row.todo = first.todo /\ row.held = first.held
        /\ doing' \in [Sessions -> CallRow] /\ doing'[x] = row
        /\ \A y \in Sessions \ {x} : doing'[y] = doing[y] /\ {does, doing[y].does} \notin Conflicting
        /\ CallsApart' /\ Rested' /\ doing[x].does = "none"
  BY <1>11, CallBegins
<1>4. /\ row.does = does /\ row.at = "claim" /\ row.c = c /\ row.todo = {d} /\ row.held = held
      /\ doing' \in [Sessions -> CallRow] /\ doing'[x] = row
      /\ \A y \in Sessions \ {x} : doing'[y] = doing[y] /\ {does, doing[y].does} \notin Conflicting
      /\ CallsApart' /\ Rested' /\ doing[x].does = "none"
  BY <1>3, <1>12
<1>5. Exists(c) /\ \A e \in People : Exists(e)' <=> Exists(e)
  BY <1>1 DEF PeopleInv, Exists
<1>6. doing[x].does \notin OnPeople
  BY <1>4 DEF OnPeople
<1>7. (\A e \in People : Finding(c, e) => Finding(c, e)') /\ (Creating(c) => Creating(c)')
      /\ (Withdrawing(c) => Withdrawing(c)') /\ (Releasing(c) => Releasing(c)')
  BY <1>4, <1>6, OthersGoOn
<1>8. PeopleInv'
  <2>1. PersonFits(doing[x])'
    <3>1. \/ held /\ candidate[c].stage # "WITHDRAWN"
          \/ ~held /\ candidate[c].stage # "DUPLICATE_HOLD"
      BY <1>2
    <3>2. candidate[c].stage # IF held THEN "WITHDRAWN" ELSE "DUPLICATE_HOLD"
      BY <3>1
    <3> QED
      BY <1>1, <1>4, <1>5, <3>2 DEF PersonFits, OnPeople
  <2>2. ASSUME NEW y \in Sessions \ {x} PROVE PersonFits(doing[y])'
    <3>1. PersonFits(doing[y])
      BY DEF PeopleInv
    <3> QED
      BY <1>1, <1>4, <3>1 DEF PersonFits, Exists, OpenFlags
  <2>3. c \notin cut' => (Creating(c) \/ Parked(c))'
    <3>1. c \notin cut' => Creating(c) \/ Parked(c)
      BY <1>1 DEF PeopleInv
    <3> QED
      BY <1>1, <1>7, <3>1 DEF Parked, OpenFlags
  <2>4. doing'[x].does # "create"
    BY <1>1, <1>4
  <2>5. /\ \A e \in People \ {c} : candidate'[e].stage = candidate[e].stage /\ flag'[e] = flag[e]
        /\ Exists(c)' /\ (\A e \in People : flag[c][e] # "NONE" => flag'[c][e] # "NONE") /\ cut \subseteq cut'
    BY <1>1, <1>5
  <2>6. \A e \in People \ {c} : Exists(e) /\ (Finding(c, e) \/ ~Exists(c)) => Finding(c, e)' \/ flag'[c][e] # "NONE"
    BY <1>5, <1>7
  <2>7. \A y \in Sessions \ {x} : doing'[y] = doing[y]
    BY <1>4
  <2> QED
    BY <1>6, <2>1, <2>2, <2>3, <2>4, <2>5, <2>6, <2>7, PersonMoves
<1>9. ApplicationsInv'
  BY <1>1, <1>4, <1>5, PeopleStep DEF OnPeople
<1>10. Typed'
  BY <1>1, <1>4 DEF Typed
<1> QED
  BY <1>4, <1>8, <1>9, <1>10

\* A call that resolves a flag, and the record it is about.
LEMMA Resolving ==
  ASSUME FunnelInv, NEW x \in Sessions, doing[x].does \in {"same", "different"}
  PROVE  /\ doing[x].c \in People /\ Exists(doing[x].c) /\ doing[x].todo \subseteq People /\ doing[x] \in CallRow
         /\ \A y \in Sessions : doing[y].does # "create"
         /\ \A c : ~Creating(c)
         /\ doing[x].does = "same" => \A y \in Sessions : doing[y].does # "different"
         /\ doing[x].does = "different" => \A y \in Sessions : doing[y].does # "same"
<1>1. doing[x].c \in People /\ Exists(doing[x].c) /\ doing[x].todo \subseteq People /\ doing[x] \in CallRow
  BY DEF FunnelInv, Typed, PeopleInv, PersonFits, OnPeople
<1>2. /\ \A y \in Sessions : doing[y].does # "create"
      /\ doing[x].does = "same" => \A y \in Sessions : doing[y].does # "different"
      /\ doing[x].does = "different" => \A y \in Sessions : doing[y].does # "same"
  BY OthersDo DEF FunnelInv
<1> QED
  BY <1>1, <1>2 DEF Creating

LEMMA ResolveClaimStep ==
  ASSUME FunnelAssumption, FunnelInv, NEW x \in Sessions, ResolveClaim(x)
  PROVE  FunnelInv'
<1> USE DEF FunnelInv
<1>1. doing[x].at = "claim" /\ doing[x].does \in {"same", "different"}
  BY DEF ResolveClaim, Rested, Placed
<1>2. PICK c \in People : c = doing[x].c
  BY <1>1, Resolving
<1>3. /\ Exists(c) /\ doing[x].todo \subseteq People /\ doing[x] \in CallRow
      /\ UNCHANGED <<candidate, opportunity, application, thanks, cut>>
      /\ \A y \in Sessions : doing[y].does # "create"
      /\ doing[x].does = "same" => \A y \in Sessions : doing[y].does # "different"
      /\ doing[x].does = "different" => \A y \in Sessions : doing[y].does # "same"
      /\ PersonFits(doing[x])
  BY <1>1, <1>2, Resolving DEF ResolveClaim, PeopleInv
<1> DEFINE next == [doing[x] EXCEPT !.at = "settle"]
           to == IF doing[x].does = "same" THEN "CONFIRMED_SAME" ELSE "CONFIRMED_DIFFERENT"
<1>4. PICK d \in doing[x].todo :
        \/ /\ flag[c][d] = "OPEN" /\ flag' = [flag EXCEPT ![c][d] = to]
           /\ doing' = [doing EXCEPT ![x] = next]
        \/ flag[c][d] # "OPEN" /\ UNCHANGED flag /\ Ends(x)
  BY <1>2 DEF ResolveClaim, Goes, Typed
<1>5. /\ next \in CallRow /\ next.at = "settle" /\ next.does = doing[x].does /\ next.c = c
      /\ next.todo = doing[x].todo /\ next.held = doing[x].held
  BY <1>2, <1>3 DEF CallRow
<1>6. /\ to \in {"CONFIRMED_SAME", "CONFIRMED_DIFFERENT"}
      /\ to = "CONFIRMED_SAME" => doing[x].does = "same"
  OBVIOUS
<1> HIDE DEF next, to
<1>7. PICK row \in CallRow :
        /\ doing' = [doing EXCEPT ![x] = row] /\ Placed(row)
        /\ \/ row = next /\ flag[c][d] = "OPEN" /\ flag' = [flag EXCEPT ![c][d] = to]
           \/ row = Idle /\ UNCHANGED flag
  BY <1>1, <1>4, <1>5, IdleRow DEF Ends, Placed
<1>8. /\ doing' \in [Sessions -> CallRow] /\ doing'[x] = row
      /\ \A y \in Sessions \ {x} : doing'[y] = doing[y]
      /\ CallsApart' /\ Rested'
  BY <1>5, <1>7, IdleRow, CallGoesOn
<1>9. /\ flag' \in [People -> [People -> FlagStatus]]
      /\ \A e \in People \ {c} : flag'[e] = flag[e]
      /\ \A e \in People \ {d} : flag'[c][e] = flag[c][e]
      /\ flag'[c][d] = flag[c][d] \/ (flag[c][d] = "OPEN" /\ flag'[c][d] = to /\ row = next)
  <2> DEFINE marks == [flag[c] EXCEPT ![d] = to]
  <2>1. marks \in [People -> FlagStatus] /\ marks[d] = to /\ \A e \in People \ {d} : marks[e] = flag[c][e]
    BY <1>3, <1>6 DEF Typed, FlagStatus
  <2>2. CASE row = next /\ flag[c][d] = "OPEN" /\ flag' = [flag EXCEPT ![c][d] = to]
    <3>1. flag' = [flag EXCEPT ![c] = marks]
      BY <2>2
    <3> HIDE DEF marks
    <3> QED
      BY <1>3, <2>1, <2>2, <3>1 DEF Typed
  <2>3. CASE UNCHANGED flag
    BY <2>3 DEF Typed
  <2> QED
    BY <1>7, <2>2, <2>3
<1>10. \A e \in People : Exists(e)' <=> Exists(e)
  BY <1>3 DEF Exists
<1>11. row.does \in {doing[x].does, "none"}
  BY <1>5, <1>7, IdleRow
<1>12. PeopleInv'
  <2>1. PersonFits(doing[x])'
    BY <1>1, <1>2, <1>3, <1>5, <1>7, <1>8, <1>10, IdleRow DEF PersonFits, OnPeople
  <2>2. ASSUME NEW y \in Sessions \ {x} PROVE PersonFits(doing[y])'
    <3>1. PersonFits(doing[y]) /\ doing[y].does # "create"
      BY <1>3 DEF PeopleInv
    <3> QED
      BY <1>3, <1>8, <3>1 DEF PersonFits, Exists
  <2>3. \A e : ~Finding(c, e)
    BY <1>3 DEF Finding
  <2>4. c \notin cut' => Parked(c)'
    <3>1. SUFFICES ASSUME c \notin cut PROVE Parked(c)'
      BY <1>3
    <3>2. Parked(c)
      BY <1>3, <3>1 DEF PeopleInv, Creating
    <3>3. OpenFlags(c)' \subseteq OpenFlags(c)
      BY <1>6, <1>9 DEF OpenFlags
    <3>4. Withdrawing(c) => Withdrawing(c)'
      BY <1>1, <1>8 DEF Withdrawing
    <3>5. Releasing(c) => Releasing(c)'
      BY <1>1, <1>8 DEF Releasing
    <3>6. candidate[c].stage = "DUPLICATE_HOLD" => (OpenFlags(c) # {} \/ Withdrawing(c) \/ Releasing(c))'
      <4>1. CASE flag'[c][d] = flag[c][d]
        <5>1. OpenFlags(c)' = OpenFlags(c)
          BY <1>9, <4>1 DEF OpenFlags
        <5> QED
          BY <3>2, <3>4, <3>5, <5>1 DEF Parked
      <4>2. CASE row = next
        <5>1. doing[x].does = "same" => Withdrawing(c)'
          BY <1>5, <1>8, <4>2 DEF Withdrawing
        <5>2. doing[x].does = "different" /\ doing[x].held => Releasing(c)'
          BY <1>5, <1>8, <4>2 DEF Releasing
        <5>3. doing[x].does = "different" /\ ~doing[x].held => candidate[c].stage # "DUPLICATE_HOLD"
          BY <1>2, <1>3 DEF PersonFits
        <5> QED
          BY <1>1, <5>1, <5>2, <5>3
      <4> QED
        BY <1>9, <4>1, <4>2
    <3>7. ASSUME NEW e \in People, flag'[c][e] = "CONFIRMED_SAME"
          PROVE  candidate[c].stage = "WITHDRAWN" \/ Withdrawing(c)'
      <4>1. CASE flag[c][e] = "CONFIRMED_SAME"
        BY <3>2, <3>4, <4>1 DEF Parked
      <4>2. CASE flag[c][e] # "CONFIRMED_SAME"
        <5>1. row = next /\ doing[x].does = "same"
          BY <1>6, <1>9, <3>7, <4>2
        <5> QED
          BY <1>5, <1>8, <5>1 DEF Withdrawing
      <4> QED
        BY <4>1, <4>2
    <3>8. candidate' = candidate
      BY <1>3
    <3>9. OpenFlags(c)' # {} => candidate[c].stage \in {"DUPLICATE_HOLD", "WITHDRAWN"}
      BY <3>2, <3>3 DEF Parked
    <3> QED
      BY <3>6, <3>7, <3>8, <3>9 DEF Parked
  <2>5. doing'[x].does # "create"
    BY <1>1, <1>8, <1>11
  <2>6. /\ \A e \in People \ {c} : candidate'[e].stage = candidate[e].stage /\ flag'[e] = flag[e]
        /\ Exists(c)' /\ (\A e \in People : flag[c][e] # "NONE" => flag'[c][e] # "NONE") /\ cut \subseteq cut'
    BY <1>3, <1>6, <1>9, <1>10
  <2>7. \A e \in People \ {c} : Exists(e) /\ (Finding(c, e) \/ ~Exists(c)) => Finding(c, e)' \/ flag'[c][e] # "NONE"
    BY <1>3, <2>3
  <2>8. \A y \in Sessions \ {x} : doing'[y] = doing[y]
    BY <1>8
  <2> QED
    BY <1>2, <2>1, <2>2, <2>4, <2>5, <2>6, <2>7, <2>8, PersonMoves
<1>13. ApplicationsInv'
  BY <1>1, <1>3, <1>8, <1>10, <1>11, PeopleStep DEF OnPeople
<1>14. Typed'
  BY <1>3, <1>8, <1>9 DEF Typed
<1> QED
  BY <1>8, <1>12, <1>13, <1>14

LEMMA ConfirmSameStep ==
  ASSUME FunnelAssumption, FunnelInv, NEW x \in Sessions, ConfirmSame(x)
  PROVE  FunnelInv'
<1> USE DEF FunnelInv
<1>1. doing[x].at = "settle" /\ doing[x].does = "same" /\ Ends(x)
      /\ UNCHANGED <<flag, opportunity, application, thanks, cut>>
  BY DEF ConfirmSame, At
<1>2. PICK c \in People : c = doing[x].c
  BY <1>1, Resolving
<1> DEFINE new == [candidate[c] EXCEPT !.stage = "WITHDRAWN"]
<1>3. /\ Exists(c) /\ candidate' = [candidate EXCEPT ![c] = new]
      /\ \A y \in Sessions : doing[y].does \notin {"create", "different"}
  BY <1>1, <1>2, Resolving DEF ConfirmSame, Typed
<1>4. new \in CandidateRow /\ new.stage = "WITHDRAWN" /\ new.optedOut = candidate[c].optedOut
  BY DEF Typed, CandidateRow, Stages
<1> HIDE DEF new
<1>5. /\ candidate' \in [People -> CandidateRow] /\ candidate'[c].stage = "WITHDRAWN"
      /\ \A d \in People \ {c} : candidate'[d] = candidate[d]
      /\ \A d \in People : candidate'[d].optedOut = candidate[d].optedOut
  BY <1>3, <1>4 DEF Typed
<1>6. /\ doing' \in [Sessions -> CallRow] /\ doing'[x] = Idle
      /\ \A y \in Sessions \ {x} : doing'[y] = doing[y]
      /\ CallsApart' /\ Rested'
  BY <1>1, CallEnds
<1>7. \A d \in People : Exists(d)' <=> Exists(d)
  BY <1>3, <1>5 DEF Exists
<1>8. PeopleInv'
  <2>1. PersonFits(doing[x])'
    BY <1>6, IdleRow DEF PersonFits, OnPeople
  <2>2. ASSUME NEW y \in Sessions \ {x} PROVE PersonFits(doing[y])'
    <3>1. PersonFits(doing[y]) /\ doing[y].does \notin {"create", "different"}
      BY <1>3 DEF PeopleInv
    <3> QED
      BY <1>6, <1>7, <3>1 DEF PersonFits
  <2>3. \A e : ~Finding(c, e)
    BY <1>3 DEF Finding
  <2>4. Parked(c)'
    BY <1>5 DEF Parked
  <2>5. doing'[x].does # "create"
    BY <1>6, IdleRow
  <2>6. /\ \A e \in People \ {c} : candidate'[e].stage = candidate[e].stage /\ flag'[e] = flag[e]
        /\ Exists(c)' /\ (\A e \in People : flag[c][e] # "NONE" => flag'[c][e] # "NONE") /\ cut \subseteq cut'
    BY <1>1, <1>3, <1>5, <1>7
  <2> QED
    BY <1>2, <1>3, <1>6, <2>1, <2>2, <2>3, <2>4, <2>5, <2>6, PersonMoves
<1>9. ApplicationsInv'
  BY <1>1, <1>5, <1>6, <1>7, IdleRow, PeopleStep DEF OnPeople
<1>10. Typed'
  BY <1>1, <1>5, <1>6 DEF Typed
<1> QED
  BY <1>6, <1>8, <1>9, <1>10

LEMMA ConfirmDifferentStep ==
  ASSUME FunnelAssumption, FunnelInv, NEW x \in Sessions, ConfirmDifferent(x)
  PROVE  FunnelInv'
<1> USE DEF FunnelInv
<1>1. doing[x].at = "settle" /\ doing[x].does = "different" /\ Ends(x)
      /\ UNCHANGED <<flag, opportunity, application, thanks, cut>>
  BY DEF ConfirmDifferent, At
<1>2. PICK c \in People : c = doing[x].c
  BY <1>1, Resolving
<1> DEFINE new == [candidate[c] EXCEPT !.stage = "NEW"]
<1>3. /\ Exists(c) /\ PersonFits(doing[x])
      /\ \A y \in Sessions : doing[y].does \notin {"create", "same"}
      /\ \/ OpenFlags(c) = {} /\ doing[x].held /\ candidate' = [candidate EXCEPT ![c] = new]
         \/ (OpenFlags(c) # {} \/ ~doing[x].held) /\ candidate' = candidate
  BY <1>1, <1>2, Resolving DEF ConfirmDifferent, Released, Typed, PeopleInv
<1>4. new \in CandidateRow /\ new.stage = "NEW" /\ new.optedOut = candidate[c].optedOut
  BY DEF Typed, CandidateRow, Stages
<1> HIDE DEF new
<1>5. /\ candidate' \in [People -> CandidateRow]
      /\ \A d \in People \ {c} : candidate'[d] = candidate[d]
      /\ \A d \in People : candidate'[d].optedOut = candidate[d].optedOut
      /\ candidate'[c].stage \in {candidate[c].stage, "NEW"}
  BY <1>3, <1>4 DEF Typed
<1>6. /\ doing' \in [Sessions -> CallRow] /\ doing'[x] = Idle
      /\ \A y \in Sessions \ {x} : doing'[y] = doing[y]
      /\ CallsApart' /\ Rested'
  BY <1>1, CallEnds
<1>7. \A d \in People : Exists(d)' <=> Exists(d)
  BY <1>3, <1>5 DEF Exists
<1>8. PeopleInv'
  <2>1. PersonFits(doing[x])'
    BY <1>6, IdleRow DEF PersonFits, OnPeople
  <2>2. ASSUME NEW y \in Sessions \ {x}, doing[y].c = c PROVE PersonFits(doing[y])'
    <3>1. PersonFits(doing[y]) /\ doing[y].does \notin {"create", "same"} /\ doing'[y] = doing[y]
      BY <1>3, <1>6 DEF PeopleInv
    <3>2. candidate'[c].stage \in {candidate[c].stage, "NEW"}
      BY <1>5
    <3> QED
      BY <1>7, <2>2, <3>1, <3>2 DEF PersonFits
  <2>3. \A e : ~Finding(c, e)
    BY <1>3 DEF Finding
  <2>4. c \notin cut' => Parked(c)'
    <3>1. SUFFICES ASSUME c \notin cut PROVE Parked(c)'
      BY <1>1
    <3>2. Parked(c) /\ ~Withdrawing(c)
      BY <1>3, <3>1 DEF PeopleInv, Creating, Withdrawing
    <3>3. OpenFlags(c)' = OpenFlags(c) /\ flag' = flag
      BY <1>1 DEF OpenFlags
    <3>4. CASE OpenFlags(c) = {} /\ doing[x].held /\ candidate' = [candidate EXCEPT ![c] = new]
      <4>1. candidate'[c].stage = "NEW"
        BY <1>4, <3>4 DEF Typed
      <4>2. \A d \in People : flag[c][d] # "CONFIRMED_SAME"
        BY <1>1, <1>2, <1>3, <3>2, <3>4 DEF PersonFits, Parked
      <4> QED
        BY <3>3, <3>4, <4>1, <4>2 DEF Parked
    <3>5. CASE (OpenFlags(c) # {} \/ ~doing[x].held) /\ candidate' = candidate
      <4>1. ~doing[x].held => candidate[c].stage # "DUPLICATE_HOLD"
        BY <1>1, <1>2, <1>3 DEF PersonFits
      <4> QED
        BY <3>2, <3>3, <3>5, <4>1 DEF Parked
    <3> QED
      BY <1>3, <3>4, <3>5
  <2>5. doing'[x].does # "create"
    BY <1>6, IdleRow
  <2>6. /\ \A e \in People \ {c} : candidate'[e].stage = candidate[e].stage /\ flag'[e] = flag[e]
        /\ Exists(c)' /\ (\A e \in People : flag[c][e] # "NONE" => flag'[c][e] # "NONE") /\ cut \subseteq cut'
    BY <1>1, <1>3, <1>5, <1>7
  <2> QED
    BY <1>2, <1>3, <1>6, <2>1, <2>2, <2>3, <2>4, <2>5, <2>6, PersonMoves
<1>9. ApplicationsInv'
  BY <1>1, <1>5, <1>6, <1>7, IdleRow, PeopleStep DEF OnPeople
<1>10. Typed'
  BY <1>1, <1>5, <1>6 DEF Typed
<1> QED
  BY <1>6, <1>8, <1>9, <1>10

LEMMA OptOutStep ==
  ASSUME FunnelInv, NEW c \in People, OptOutCandidate(c)
  PROVE  FunnelInv'
<1> USE DEF FunnelInv
<1> DEFINE new == [candidate[c] EXCEPT !.optedOut = TRUE]
<1>1. candidate' = [candidate EXCEPT ![c] = new]
      /\ UNCHANGED <<flag, opportunity, application, thanks, doing, cut>>
  BY DEF OptOutCandidate
<1>2. new \in CandidateRow /\ new.stage = candidate[c].stage /\ new.optedOut
  BY DEF Typed, CandidateRow
<1> HIDE DEF new
<1>3. /\ candidate' \in [People -> CandidateRow]
      /\ \A d \in People : candidate'[d].stage = candidate[d].stage
      /\ \A d \in People : candidate[d].optedOut => candidate'[d].optedOut
  BY <1>1, <1>2 DEF Typed
<1>4. Typed' /\ CallsApart' /\ Rested'
  BY <1>1, <1>3 DEF Typed, CallsApart, Rested
<1>5. PeopleInv'
  BY <1>1, <1>3, PeopleKept
<1>6. ApplicationsInv'
  <2>1. \A y \in Sessions : doing[y].does = "register" => \A d \in People : ~Exists(d)'
    BY <1>3 DEF Exists, ApplicationsInv, ApplicantFits
  <2> QED
    BY <1>1, <1>3, <2>1, ApplicationsKept DEF Exists
<1> QED
  BY <1>4, <1>5, <1>6

\* publishOpportunity, closeOpportunity and the deadline.
LEMMA OpportunityStep ==
  ASSUME FunnelAssumption, Overlapping \cap Conflicting = {}, FunnelInv,
         \/ \E x \in Sessions : StatusWrite(x) \/ \E does \in Calls : StatusRead(x, does)
         \/ MoveDeadline
  PROVE  FunnelInv'
<1> USE DEF FunnelInv
<1>1. UNCHANGED <<candidate, flag, application, thanks, cut>>
  BY DEF StatusWrite, StatusRead, MoveDeadline, rows
<1>2. /\ doing' \in [Sessions -> CallRow] /\ CallsApart' /\ Rested'
      /\ \A y \in Sessions :
           doing[y].does \in OnPeople \cup OnApplications \/ doing'[y].does \in OnPeople \cup OnApplications
             => doing'[y] = doing[y]
  <2>1. ASSUME NEW x \in Sessions, StatusWrite(x)
        PROVE  /\ doing' \in [Sessions -> CallRow] /\ CallsApart' /\ Rested' /\ doing'[x] = Idle
               /\ \A y \in Sessions \ {x} : doing'[y] = doing[y]
               /\ doing[x].does \notin OnPeople \cup OnApplications
    <3>1. doing[x].at = "status" /\ Ends(x) /\ PersonFits(doing[x]) /\ ApplicantFits(doing[x])
      BY <2>1 DEF StatusWrite, PeopleInv, ApplicationsInv
    <3>2. doing[x].does \notin OnPeople \cup OnApplications
      BY <3>1 DEF PersonFits, ApplicantFits, OnPeople, OnApplications
    <3> QED
      BY <3>1, <3>2, CallEnds
  <2>2. ASSUME NEW x \in Sessions, NEW does \in Calls, StatusRead(x, does)
        PROVE  /\ doing' \in [Sessions -> CallRow] /\ CallsApart' /\ Rested'
               /\ \A y \in Sessions \ {x} : doing'[y] = doing[y]
               /\ doing[x].does = "none" /\ doing'[x].does \in {"publish", "close"}
    <3> DEFINE first == [Idle EXCEPT !.at = "status"]
    <3>1. Arrives(x, does, first) /\ does \in {"publish", "close"}
      BY <2>2 DEF StatusRead
    <3>2. first \in CallRow /\ first.at = "status"
      BY IdleRow DEF Idle, CallRow
    <3> HIDE DEF first
    <3>3. first.at # "idle" /\ (first.at \notin {"claim", "settle"} \/ does \in {"same", "different"})
      BY <3>2
    <3>4. PICK row \in CallRow :
            /\ row.does = does /\ row.at = first.at /\ row.c = first.c /\ row.a = first.a
            /\ row.todo = first.todo /\ row.held = first.held
            /\ doing' \in [Sessions -> CallRow] /\ doing'[x] = row
            /\ \A y \in Sessions \ {x} : doing'[y] = doing[y] /\ {does, doing[y].does} \notin Conflicting
            /\ CallsApart' /\ Rested' /\ doing[x].does = "none"
      BY <3>1, <3>2, <3>3, CallBegins
    <3> QED
      BY <3>1, <3>4
  <2>3. CASE MoveDeadline
    BY <2>3 DEF MoveDeadline, Typed, CallsApart, Rested
  <2>4. Idle.does \notin OnPeople \cup OnApplications /\ "none" \notin OnPeople \cup OnApplications
    BY IdleRow DEF OnPeople, OnApplications
  <2>5. {"publish", "close"} \cap (OnPeople \cup OnApplications) = {}
    BY DEF OnPeople, OnApplications
  <2> QED
    BY <2>1, <2>2, <2>3, <2>4, <2>5
<1>3. opportunity' \in [status : {"DRAFT", "PUBLISHED", "CLOSED"}, late : BOOLEAN]
  BY DEF StatusWrite, StatusRead, MoveDeadline, rows, Typed
<1>4. Typed'
  BY <1>1, <1>2, <1>3 DEF Typed
<1>5. PeopleInv'
  BY <1>1, <1>2, PeopleKept
<1>6. ApplicationsInv'
  <2>1. \A y \in Sessions : doing[y].does = "register" => \A d \in People : ~Exists(d)'
    BY <1>1 DEF Exists, ApplicationsInv, ApplicantFits
  <2> QED
    BY <1>1, <1>2, <2>1, ApplicationsKept DEF Exists
<1> QED
  BY <1>2, <1>4, <1>5, <1>6

LEMMA CrashStep ==
  ASSUME FunnelAssumption, FunnelInv, NEW x \in Sessions, Crash(x)
  PROVE  FunnelInv'
<1> USE DEF FunnelInv
<1>1. /\ Ends(x) /\ UNCHANGED <<candidate, flag, opportunity, application, thanks>>
      /\ cut' = cut \cup ({doing[x].c, doing[x].a} \ {None})
  BY DEF Crash, rows
<1>2. /\ doing' \in [Sessions -> CallRow] /\ doing'[x] = Idle
      /\ \A y \in Sessions \ {x} : doing'[y] = doing[y]
      /\ CallsApart' /\ Rested'
  BY <1>1, CallEnds
<1>3. doing[x].c \in People \cup {None} /\ doing[x].a \in Applications \cup {None}
  BY DEF Typed, CallRow
<1>4. Typed'
  BY <1>1, <1>2, <1>3 DEF Typed
<1>5. \A c \in People \ cut' : (Creating(c) => Creating(c)') /\ (Withdrawing(c) => Withdrawing(c)')
        /\ (Releasing(c) => Releasing(c)') /\ \A d : Finding(c, d) => Finding(c, d)'
  <2>1. \A c \in People \ cut' : doing[x].c # c
    BY <1>1 DEF FunnelAssumption
  <2> QED
    BY <1>2, <2>1, OthersGoOn
<1>6. PeopleInv'
  <2>1. ASSUME NEW y \in Sessions PROVE PersonFits(doing[y])'
    <3>1. CASE y = x
      BY <1>2, <3>1, IdleRow DEF PersonFits, OnPeople
    <3>2. CASE y # x
      BY <1>1, <1>2, <3>2 DEF PeopleInv, PersonFits, Exists, OpenFlags
    <3> QED
      BY <3>1, <3>2
  <2>2. OneCreator'
    BY <1>2, IdleRow DEF PeopleInv, OneCreator
  <2>3. cut \subseteq cut' /\ \A c \in People : (Exists(c)' <=> Exists(c)) /\ OpenFlags(c)' = OpenFlags(c)
    BY <1>1 DEF Exists, OpenFlags
  <2>4. Noticed'
    BY <1>1, <1>5, <2>3 DEF PeopleInv, Noticed
  <2>5. \A c \in People \ cut' : (Creating(c) \/ Parked(c))'
    BY <1>1, <1>5, <2>3 DEF PeopleInv, Parked
  <2> QED
    BY <1>1, <2>1, <2>2, <2>3, <2>4, <2>5 DEF PeopleInv
<1>7. ApplicationsInv'
  <2>1. ASSUME NEW y \in Sessions PROVE ApplicantFits(doing[y])'
    <3>1. CASE y = x
      BY <1>2, <3>1, IdleRow DEF ApplicantFits
    <3>2. CASE y # x
      BY <1>1, <1>2, <3>2 DEF ApplicationsInv, ApplicantFits, Exists
    <3> QED
      BY <3>1, <3>2
  <2>2. \A a \in Applications : Applied(application[a])'
    BY <1>1 DEF ApplicationsInv, Applied, Exists
  <2>3. \A a \in Applications \ cut' : Recording(a) => Recording(a)'
    <3>1. \A a \in Applications \ cut' : doing[x].a # a
      BY <1>1 DEF FunnelAssumption
    <3> QED
      BY <1>2, <3>1 DEF Recording
  <2>4. cut \subseteq cut'
    BY <1>1
  <2> QED
    BY <1>1, <2>1, <2>2, <2>3, <2>4 DEF ApplicationsInv
<1> QED
  BY <1>2, <1>4, <1>6, <1>7

-----------------------------------------------------------------------------
(***************************************************************************)
(* Applications.                                                           *)
(***************************************************************************)
Grown ==
  /\ \A a \in Applications : application[a].listed => application'[a].listed
  /\ \A a \in Applications : application[a].status # "NONE" => application'[a].status # "NONE"
  /\ \A c \in People : Exists(c) => Exists(c)'

LEMMA FitsKept ==
  ASSUME FunnelInv, Grown, NEW y \in Sessions, doing'[y] = doing[y],
         doing[y].does = "register" => \A c \in People : ~Exists(c)',
         doing[y].does = "mark" => \A a \in Applications : application'[a].withdrawn => application[a].withdrawn
  PROVE  ApplicantFits(doing[y])'
<1>1. ApplicantFits(doing[y])
  BY DEF FunnelInv, ApplicationsInv
<1> QED
  BY <1>1 DEF ApplicantFits, Grown

LEMMA RecordingStays ==
  ASSUME NEW x \in Sessions, \A y \in Sessions \ {x} : doing'[y] = doing[y]
  PROVE  \A a : Recording(a) /\ (doing[x].does # "record" \/ doing[x].a # a) => Recording(a)'
BY DEF Recording

\* A call reads what it is about, and writes nothing of applications.
LEMMA ApplicantReads ==
  ASSUME FunnelInv, NEW x \in Sessions, \A y \in Sessions \ {x} : doing'[y] = doing[y],
         doing[x].does # "record", UNCHANGED <<application, thanks, cut>>,
         \A c \in People : (Exists(c)' <=> Exists(c)) /\ candidate'[c].optedOut = candidate[c].optedOut,
         ApplicantFits(doing[x])'
  PROVE  ApplicationsInv'
<1>1. Grown
  BY DEF Grown
<1>2. ASSUME NEW y \in Sessions \ {x} PROVE ApplicantFits(doing[y])'
  <2>1. doing[y].does = "register" => \A c \in People : ~Exists(c)'
    BY DEF FunnelInv, ApplicationsInv, ApplicantFits
  <2> QED
    BY <1>1, <2>1, FitsKept
<1>3. \A a : Recording(a) => Recording(a)'
  BY RecordingStays
<1>4. \A a \in Applications : Applied(application[a])'
  BY DEF FunnelInv, ApplicationsInv, Applied
<1>5. ASSUME NEW a \in Applications \ cut', application'[a].status = "SUBMITTED", ~application'[a].listed
      PROVE  a \in thanks' \/ candidate'[application'[a].of].optedOut \/ Recording(a)'
  <2>1. a \in thanks \/ candidate[application[a].of].optedOut \/ Recording(a)
    BY <1>5 DEF FunnelInv, ApplicationsInv
  <2>2. application[a].of \in People
    BY <1>5 DEF FunnelInv, ApplicationsInv, Applied
  <2> QED
    BY <1>3, <2>1, <2>2
<1> QED
  BY <1>2, <1>4, <1>5 DEF FunnelInv, ApplicationsInv

\* A new row, for a record c; a listed one when c has none.
LEMMA Appended ==
  ASSUME FunnelInv, NEW c \in People, NEW a \in Unused, NEW row \in ApplicationRow,
         row.of = c, row.status = "SUBMITTED", ~row.withdrawn,
         application' = [application EXCEPT ![a] = row], Exists(c)',
         \A d \in People : Exists(d) => Exists(d)',
         row.listed => Listed(c) = {}
  PROVE  /\ application' \in [Applications -> ApplicationRow] /\ application'[a] = row
         /\ \A b \in Applications \ {a} : application'[b] = application[b]
         /\ a \in Applications
         /\ Grown /\ \A b \in Applications : application'[b].withdrawn => application[b].withdrawn
         /\ \A b \in Applications : Applied(application[b])'
         /\ \A b, d \in Applications :
              application'[b].listed /\ application'[d].listed /\ application'[b].of = application'[d].of => b = d
<1>1. a \in Applications /\ application[a].status = "NONE" /\ ~application[a].listed
  BY DEF Unused, FunnelInv, ApplicationsInv, Applied
<1>2. /\ application' \in [Applications -> ApplicationRow] /\ application'[a] = row
      /\ \A b \in Applications \ {a} : application'[b] = application[b]
  BY <1>1 DEF FunnelInv, Typed
<1>3. Grown /\ \A b \in Applications : application'[b].withdrawn => application[b].withdrawn
  BY <1>1, <1>2 DEF Grown
<1>4. \A b \in Applications : Applied(application[b])'
  BY <1>2 DEF FunnelInv, ApplicationsInv, Applied
<1>5. ASSUME NEW b \in Applications, NEW d \in Applications, application'[b].listed, application'[d].listed,
             application'[b].of = application'[d].of
      PROVE  b = d
  <2>1. \A e \in Applications \ {a} : application[e].listed /\ application[e].of = c => ~row.listed
    BY DEF Listed
  <2> QED
    BY <1>2, <1>5, <2>1 DEF FunnelInv, ApplicationsInv
<1> QED
  BY <1>1, <1>2, <1>3, <1>4, <1>5

LEMMA SubmittedRow ==
  ASSUME NEW c \in People
  PROVE  /\ Submitted(c) \in ApplicationRow /\ Submitted(c).of = c /\ Submitted(c).status = "SUBMITTED"
         /\ ~Submitted(c).withdrawn /\ Submitted(c).listed
BY DEF Submitted, ApplicationRow

\* A step that is about applications alone keeps the half about people.
LEMMA ApplicantStep ==
  ASSUME FunnelInv, NEW x \in Sessions, \A y \in Sessions \ {x} : doing'[y] = doing[y],
         doing[x].does \in OnApplications \cup {"none"}, doing'[x].does \in OnApplications \cup {"none"},
         UNCHANGED <<candidate, flag>>, cut \subseteq cut'
  PROVE  PeopleInv'
<1>1. \A y \in Sessions : doing[y].does \in OnPeople \/ doing'[y].does \in OnPeople => doing'[y] = doing[y]
  BY DEF OnApplications, OnPeople
<1> QED
  BY <1>1, PeopleKept DEF FunnelInv

LEMMA ApplyReadStep ==
  ASSUME FunnelAssumption, Overlapping \cap Conflicting = {}, FunnelInv, NEW x \in Sessions, ApplyRead(x)
  PROVE  FunnelInv'
<1> USE DEF FunnelInv
<1>1. UNCHANGED <<candidate, flag, opportunity, application, thanks, cut>>
  BY DEF ApplyRead, rows
<1>2. /\ doing' \in [Sessions -> CallRow] /\ CallsApart' /\ Rested'
      /\ \A y \in Sessions \ {x} : doing'[y] = doing[y]
      /\ doing[x].does = "none" /\ doing'[x].does \in {"register", "apply"} /\ doing'[x].at = "apply"
      /\ doing'[x].does = "register" => \A c \in People : ~Exists(c)
      /\ doing'[x].does = "apply" => /\ doing'[x].c \in People /\ Exists(doing'[x].c)
                                     /\ doing'[x].todo = Listed(doing'[x].c)
  <2>1. ASSUME \A c \in People : ~Exists(c), Arrives(x, "register", [Idle EXCEPT !.at = "apply"])
        PROVE  /\ doing' \in [Sessions -> CallRow] /\ CallsApart' /\ Rested'
               /\ \A y \in Sessions \ {x} : doing'[y] = doing[y]
               /\ doing[x].does = "none" /\ doing'[x].does = "register" /\ doing'[x].at = "apply"
    <3> DEFINE first == [Idle EXCEPT !.at = "apply"]
    <3>1. first \in CallRow /\ first.at = "apply" /\ Arrives(x, "register", first)
      BY <2>1, IdleRow DEF Idle, CallRow
    <3> HIDE DEF first
    <3>2. "register" \in Calls /\ first.at # "idle" /\ (first.at \notin {"claim", "settle"} \/ "register" \in {"same", "different"})
      BY <3>1 DEF Calls
    <3>3. PICK row \in CallRow :
            /\ row.does = "register" /\ row.at = first.at /\ row.c = first.c /\ row.a = first.a
            /\ row.todo = first.todo /\ row.held = first.held
            /\ doing' \in [Sessions -> CallRow] /\ doing'[x] = row
            /\ \A y \in Sessions \ {x} : doing'[y] = doing[y] /\ {"register", doing[y].does} \notin Conflicting
            /\ CallsApart' /\ Rested' /\ doing[x].does = "none"
      BY <3>1, <3>2, CallBegins
    <3> QED
      BY <3>1, <3>3
  <2>2. ASSUME NEW c \in People, Exists(c), Arrives(x, "apply", [Idle EXCEPT !.at = "apply", !.c = c, !.todo = Listed(c)])
        PROVE  /\ doing' \in [Sessions -> CallRow] /\ CallsApart' /\ Rested'
               /\ \A y \in Sessions \ {x} : doing'[y] = doing[y]
               /\ doing[x].does = "none" /\ doing'[x].does = "apply" /\ doing'[x].at = "apply"
               /\ doing'[x].c = c /\ doing'[x].todo = Listed(c)
    <3> DEFINE first == [Idle EXCEPT !.at = "apply", !.c = c, !.todo = Listed(c)]
    <3>1. first \in CallRow /\ first.at = "apply" /\ Arrives(x, "apply", first) /\ first.c = c /\ first.todo = Listed(c)
      <4>1. Listed(c) \in SUBSET (People \cup Applications)
        BY DEF Listed
      <4> QED
        BY <2>2, <4>1, IdleRow DEF Idle, CallRow
    <3> HIDE DEF first
    <3>2. "apply" \in Calls /\ first.at # "idle" /\ (first.at \notin {"claim", "settle"} \/ "apply" \in {"same", "different"})
      BY <3>1 DEF Calls
    <3>3. PICK row \in CallRow :
            /\ row.does = "apply" /\ row.at = first.at /\ row.c = first.c /\ row.a = first.a
            /\ row.todo = first.todo /\ row.held = first.held
            /\ doing' \in [Sessions -> CallRow] /\ doing'[x] = row
            /\ \A y \in Sessions \ {x} : doing'[y] = doing[y] /\ {"apply", doing[y].does} \notin Conflicting
            /\ CallsApart' /\ Rested' /\ doing[x].does = "none"
      BY <3>1, <3>2, CallBegins
    <3> QED
      BY <3>1, <3>3
  <2>3. CASE \A c \in People : ~Exists(c)
    BY <2>1, <2>3 DEF ApplyRead
  <2>4. CASE ~(\A c \in People : ~Exists(c))
    <3>1. PICK c \in People : Exists(c) /\ Arrives(x, "apply", [Idle EXCEPT !.at = "apply", !.c = c, !.todo = Listed(c)])
      BY <2>4 DEF ApplyRead
    <3> QED
      BY <2>2, <3>1
  <2> QED
    BY <2>3, <2>4
<1>3. ApplicantFits(doing[x])'
  BY <1>1, <1>2 DEF ApplicantFits, Exists, Listed
<1>4. ApplicationsInv'
  BY <1>1, <1>2, <1>3, ApplicantReads DEF Exists
<1>5. PeopleInv'
  BY <1>1, <1>2, ApplicantStep DEF OnApplications
<1>6. Typed'
  BY <1>1, <1>2 DEF Typed
<1> QED
  BY <1>2, <1>4, <1>5, <1>6

LEMMA ApplyNewStep ==
  ASSUME FunnelAssumption, FunnelInv, NEW x \in Sessions, ApplyNew(x)
  PROVE  FunnelInv'
<1> USE DEF FunnelInv
<1>1. doing[x].does = "register" /\ Ends(x) /\ UNCHANGED <<flag, opportunity, thanks, cut>>
      /\ \A d \in People : ~Exists(d)
  BY DEF ApplyNew, At, ApplicationsInv, ApplicantFits
<1>2. PICK c \in People, a \in Unused :
        /\ candidate' = [candidate EXCEPT ![c].stage = "NEW"]
        /\ application' = [application EXCEPT ![a] = Submitted(c)]
  BY DEF ApplyNew
<1> DEFINE new == [candidate[c] EXCEPT !.stage = "NEW"]
<1>3. new \in CandidateRow /\ new.stage = "NEW" /\ new.optedOut = candidate[c].optedOut
      /\ candidate' = [candidate EXCEPT ![c] = new]
  BY <1>2 DEF Typed, CandidateRow, Stages
<1> HIDE DEF new
<1>4. /\ candidate' \in [People -> CandidateRow] /\ candidate'[c].stage = "NEW"
      /\ \A d \in People \ {c} : candidate'[d] = candidate[d]
      /\ \A d \in People : candidate'[d].optedOut = candidate[d].optedOut
  BY <1>3 DEF Typed
<1>5. /\ doing' \in [Sessions -> CallRow] /\ doing'[x] = Idle
      /\ \A y \in Sessions \ {x} : doing'[y] = doing[y]
      /\ CallsApart' /\ Rested'
  BY <1>1, CallEnds
<1>6. \A y \in Sessions \ {x} : doing[y].does # "register"
  BY <1>1, OthersDo
<1>7. Exists(c)' /\ \A d \in People : Exists(d) => Exists(d)'
  BY <1>1, <1>4 DEF Exists
<1>8. \A b \in Applications : application[b].status = "NONE"
  BY <1>1 DEF ApplicationsInv, Applied
<1>9. Listed(c) = {}
  BY <1>8 DEF Listed, ApplicationsInv, Applied
<1>10. /\ application' \in [Applications -> ApplicationRow] /\ application'[a] = Submitted(c)
       /\ \A b \in Applications \ {a} : application'[b] = application[b]
       /\ a \in Applications
       /\ Grown /\ \A b \in Applications : application'[b].withdrawn => application[b].withdrawn
       /\ \A b \in Applications : Applied(application[b])'
       /\ \A b, d \in Applications :
            application'[b].listed /\ application'[d].listed /\ application'[b].of = application'[d].of => b = d
  BY <1>2, <1>7, <1>9, SubmittedRow, Appended
<1>11. ApplicationsInv'
  <2>1. ASSUME NEW y \in Sessions PROVE ApplicantFits(doing[y])'
    <3>1. CASE y = x
      BY <1>5, <3>1, IdleRow DEF ApplicantFits
    <3>2. CASE y # x
      BY <1>5, <1>6, <1>10, <3>2, FitsKept
    <3> QED
      BY <3>1, <3>2
  <2>2. \A b \in Applications : application'[b].status = "SUBMITTED" => application'[b].listed
    BY <1>8, <1>10, SubmittedRow
  <2>3. \A b \in thanks' : b \in Applications /\ application'[b].status # "NONE"
    BY <1>1, <1>8 DEF ApplicationsInv
  <2> QED
    BY <1>10, <2>1, <2>2, <2>3 DEF ApplicationsInv
<1>12. PeopleInv'
  <2>1. PersonFits(doing[x])'
    BY <1>5, IdleRow DEF PersonFits, OnPeople
  <2>2. ASSUME NEW y \in Sessions \ {x}, doing[y].c = c PROVE PersonFits(doing[y])'
    <3>1. doing[y].does \notin OnPeople
      BY <1>1, <2>2 DEF PeopleInv, PersonFits
    <3> QED
      BY <1>5, <3>1 DEF PersonFits, OnPeople
  <2>3. \A d \in People : flag[c][d] = "NONE"
    BY <1>1 DEF PeopleInv
  <2>4. Parked(c)'
    BY <1>1, <1>4, <2>3 DEF Parked, OpenFlags
  <2>5. doing'[x].does # "create" /\ doing[x].does \notin OnPeople
    BY <1>1, <1>5, IdleRow DEF OnPeople
  <2>6. /\ \A e \in People \ {c} : candidate'[e].stage = candidate[e].stage /\ flag'[e] = flag[e]
        /\ Exists(c)' /\ (\A e \in People : flag[c][e] # "NONE" => flag'[c][e] # "NONE") /\ cut \subseteq cut'
    BY <1>1, <1>4, <1>7
  <2> QED
    BY <1>1, <1>5, <2>1, <2>2, <2>4, <2>5, <2>6, PersonMoves
<1>13. Typed'
  BY <1>1, <1>4, <1>5, <1>10 DEF Typed
<1> QED
  BY <1>5, <1>11, <1>12, <1>13

LEMMA ApplyKnownStep ==
  ASSUME FunnelAssumption, FunnelInv, NEW x \in Sessions, ApplyKnown(x)
  PROVE  FunnelInv'
<1> USE DEF FunnelInv
<1>1. doing[x].does = "apply" /\ Ends(x) /\ UNCHANGED <<candidate, flag, opportunity, thanks, cut>>
      /\ ApplicantFits(doing[x])
  BY DEF ApplyKnown, At, ApplicationsInv
<1>2. PICK c \in People : c = doing[x].c /\ Exists(c)
  BY <1>1 DEF ApplicantFits
<1>3. /\ doing' \in [Sessions -> CallRow] /\ doing'[x] = Idle
      /\ \A y \in Sessions \ {x} : doing'[y] = doing[y]
      /\ CallsApart' /\ Rested'
  BY <1>1, CallEnds
<1>4. \A d \in People : Exists(d)' <=> Exists(d)
  BY <1>1 DEF Exists
<1>5. ApplicantFits(doing[x])'
  BY <1>3, IdleRow DEF ApplicantFits
<1>6. ApplicationsInv' /\ application' \in [Applications -> ApplicationRow]
  <2>1. CASE UNCHANGED application
    BY <1>1, <1>3, <1>4, <1>5, <2>1, ApplicantReads DEF Typed
  <2>2. CASE ~UNCHANGED application
    <3>1. PICK a \in Unused : application' = [application EXCEPT ![a] = Submitted(c)] /\ Listed(c) = {}
      BY <1>2, <2>2 DEF ApplyKnown
    <3>2. /\ application' \in [Applications -> ApplicationRow] /\ application'[a] = Submitted(c)
          /\ \A b \in Applications \ {a} : application'[b] = application[b]
          /\ a \in Applications
          /\ Grown /\ \A b \in Applications : application'[b].withdrawn => application[b].withdrawn
          /\ \A b \in Applications : Applied(application[b])'
          /\ \A b, d \in Applications :
               application'[b].listed /\ application'[d].listed /\ application'[b].of = application'[d].of => b = d
      BY <1>2, <1>4, <3>1, SubmittedRow, Appended
    <3>3. ASSUME NEW y \in Sessions PROVE ApplicantFits(doing[y])'
      <4>1. CASE y = x
        BY <1>5, <4>1
      <4>2. CASE y # x
        <5>1. doing[y].does = "register" => \A d \in People : ~Exists(d)'
          BY <1>2
            DEF ApplicationsInv, ApplicantFits
        <5> QED
          BY <1>3, <3>2, <4>2, <5>1, FitsKept
      <4> QED
        BY <4>1, <4>2
    <3>4. \A b \in thanks' : b \in Applications /\ application'[b].status # "NONE"
      BY <1>1, <3>2 DEF ApplicationsInv, Grown
    <3>5. \A b : Recording(b) => Recording(b)'
      BY <1>1, <1>3, RecordingStays
    <3>6. ASSUME NEW b \in Applications \ cut', application'[b].status = "SUBMITTED", ~application'[b].listed
          PROVE  b \in thanks' \/ candidate'[application'[b].of].optedOut \/ Recording(b)'
      <4>1. application'[b] = application[b]
        BY <3>2, <3>6, SubmittedRow
      <4> QED
        BY <1>1, <3>5, <3>6, <4>1 DEF ApplicationsInv
    <3> QED
      BY <3>2, <3>3, <3>4, <3>6 DEF ApplicationsInv
  <2> QED
    BY <2>1, <2>2
<1>7. PeopleInv'
  BY <1>1, <1>3, IdleRow, ApplicantStep DEF OnApplications
<1>8. Typed'
  BY <1>1, <1>3, <1>6 DEF Typed
<1> QED
  BY <1>3, <1>6, <1>7, <1>8

LEMMA RecordStep ==
  ASSUME FunnelAssumption, Overlapping \cap Conflicting = {}, FunnelInv,
         NEW x \in Sessions, NEW c \in People, Record(x, c)
  PROVE  FunnelInv'
<1> USE DEF FunnelInv
<1>1. Exists(c) /\ UNCHANGED <<candidate, flag, opportunity, thanks, cut>>
  BY DEF Record
<1> DEFINE new == [Submitted(c) EXCEPT !.listed = FALSE]
           First(a) == [Idle EXCEPT !.at = "enqueue", !.a = a]
<1>2. PICK a \in Unused : application' = [application EXCEPT ![a] = new] /\ Arrives(x, "record", First(a))
  BY DEF Record
<1>3. new \in ApplicationRow /\ new.of = c /\ new.status = "SUBMITTED" /\ ~new.withdrawn /\ ~new.listed
  BY SubmittedRow DEF ApplicationRow, Submitted
<1>4. a \in Applications
  BY DEF Unused
<1>5. PICK first \in CallRow : first.at = "enqueue" /\ first.a = a /\ Arrives(x, "record", first)
  <2>1. First(a) \in CallRow /\ First(a).at = "enqueue" /\ First(a).a = a
    BY <1>4, IdleRow DEF Idle, CallRow
  <2> QED
    BY <1>2, <2>1
<1> HIDE DEF new, First
<1>6. "record" \in Calls /\ first.at # "idle" /\ (first.at \notin {"claim", "settle"} \/ "record" \in {"same", "different"})
  BY <1>5 DEF Calls
<1>7. PICK row \in CallRow :
        /\ row.does = "record" /\ row.at = first.at /\ row.c = first.c /\ row.a = first.a
        /\ row.todo = first.todo /\ row.held = first.held
        /\ doing' \in [Sessions -> CallRow] /\ doing'[x] = row
        /\ \A y \in Sessions \ {x} : doing'[y] = doing[y] /\ {"record", doing[y].does} \notin Conflicting
        /\ CallsApart' /\ Rested' /\ doing[x].does = "none"
  BY <1>5, <1>6, CallBegins
<1>8. \A d \in People : Exists(d)' <=> Exists(d)
  BY <1>1 DEF Exists
<1>9. /\ application' \in [Applications -> ApplicationRow] /\ application'[a] = new
      /\ \A b \in Applications \ {a} : application'[b] = application[b]
      /\ a \in Applications
      /\ Grown /\ \A b \in Applications : application'[b].withdrawn => application[b].withdrawn
      /\ \A b \in Applications : Applied(application[b])'
      /\ \A b, d \in Applications :
           application'[b].listed /\ application'[d].listed /\ application'[b].of = application'[d].of => b = d
  BY <1>1, <1>2, <1>3, <1>8, Appended
<1>10. ApplicationsInv'
  <2>1. ASSUME NEW y \in Sessions PROVE ApplicantFits(doing[y])'
    <3>1. CASE y = x
      BY <1>3, <1>5, <1>7, <1>9, <3>1 DEF ApplicantFits
    <3>2. CASE y # x
      <4>1. doing[y].does # "register"
        BY <1>1 DEF ApplicationsInv, ApplicantFits
      <4> QED
        BY <1>7, <1>9, <3>2, <4>1, FitsKept
    <3> QED
      BY <3>1, <3>2
  <2>2. \A b \in thanks' : b \in Applications /\ application'[b].status # "NONE"
    BY <1>1, <1>9 DEF ApplicationsInv, Grown
  <2>3. \A b : Recording(b) => Recording(b)'
    BY <1>7, RecordingStays
  <2>4. Recording(a)'
    BY <1>4, <1>5, <1>7 DEF Recording
  <2>5. ASSUME NEW b \in Applications \ cut', application'[b].status = "SUBMITTED", ~application'[b].listed
        PROVE  b \in thanks' \/ candidate'[application'[b].of].optedOut \/ Recording(b)'
    <3>1. CASE b = a
      BY <2>4, <3>1
    <3>2. CASE b # a
      BY <1>1, <1>9, <2>3, <2>5, <3>2 DEF ApplicationsInv
    <3> QED
      BY <3>1, <3>2
  <2> QED
    BY <1>9, <2>1, <2>2, <2>5 DEF ApplicationsInv
<1>11. PeopleInv'
  BY <1>1, <1>7, ApplicantStep DEF OnApplications
<1>12. Typed'
  BY <1>1, <1>7, <1>9 DEF Typed
<1> QED
  BY <1>7, <1>10, <1>11, <1>12

LEMMA RecordEnqueueStep ==
  ASSUME FunnelAssumption, FunnelInv, NEW x \in Sessions, RecordEnqueue(x)
  PROVE  FunnelInv'
<1> USE DEF FunnelInv
<1>1. /\ doing[x].does = "record" /\ Ends(x) /\ thanks' = thanks \cup {doing[x].a}
      /\ UNCHANGED <<candidate, flag, opportunity, application, cut>>
      /\ doing[x].a \in Applications /\ application[doing[x].a].status # "NONE"
  BY DEF RecordEnqueue, At, ApplicationsInv, ApplicantFits
<1>2. /\ doing' \in [Sessions -> CallRow] /\ doing'[x] = Idle
      /\ \A y \in Sessions \ {x} : doing'[y] = doing[y]
      /\ CallsApart' /\ Rested'
  BY <1>1, CallEnds
<1>3. Grown /\ \A d \in People : Exists(d)' <=> Exists(d)
  BY <1>1 DEF Grown, Exists
<1>4. ApplicationsInv'
  <2>1. ASSUME NEW y \in Sessions PROVE ApplicantFits(doing[y])'
    <3>1. CASE y = x
      BY <1>2, <3>1, IdleRow DEF ApplicantFits
    <3>2. CASE y # x
      <4>1. doing[y].does = "register" => \A d \in People : ~Exists(d)'
        BY <1>3 DEF ApplicationsInv, ApplicantFits
      <4> QED
        BY <1>1, <1>2, <1>3, <3>2, <4>1, FitsKept
    <3> QED
      BY <3>1, <3>2
  <2>2. \A a \in Applications : Recording(a) => Recording(a)' \/ a \in thanks'
    BY <1>1, <1>2, RecordingStays
  <2>3. \A a \in Applications : Applied(application[a])'
    BY <1>1, <1>3 DEF ApplicationsInv, Applied
  <2>4. \A a \in thanks' : a \in Applications /\ application'[a].status # "NONE"
    BY <1>1 DEF ApplicationsInv
  <2> QED
    BY <1>1, <2>1, <2>2, <2>3, <2>4 DEF ApplicationsInv
<1>5. PeopleInv'
  BY <1>1, <1>2, IdleRow, ApplicantStep DEF OnApplications
<1>6. Typed'
  BY <1>1, <1>2 DEF Typed
<1> QED
  BY <1>2, <1>4, <1>5, <1>6

\* One application's row changes, its owner and whether it is listed do not.
LEMMA RowWritten ==
  ASSUME FunnelInv, NEW a \in Applications, NEW row \in ApplicationRow, application[a].status # "NONE",
         row.of = application[a].of, row.listed = application[a].listed, row.status # "NONE",
         row.withdrawn <=> row.status = "CLOSED_WITHDRAWN",
         application' = [application EXCEPT ![a] = row], UNCHANGED candidate
  PROVE  /\ application' \in [Applications -> ApplicationRow] /\ application'[a] = row
         /\ \A b \in Applications \ {a} : application'[b] = application[b]
         /\ Grown /\ \A b \in Applications : Applied(application[b])'
         /\ \A b, d \in Applications :
              application'[b].listed /\ application'[d].listed /\ application'[b].of = application'[d].of => b = d
<1>1. /\ application' \in [Applications -> ApplicationRow] /\ application'[a] = row
      /\ \A b \in Applications \ {a} : application'[b] = application[b]
  BY DEF FunnelInv, Typed
<1>2. \A d \in People : Exists(d)' <=> Exists(d)
  BY DEF Exists
<1>3. Grown
  BY <1>1, <1>2 DEF Grown
<1>4. \A b \in Applications : Applied(application[b])'
  <2>1. Applied(application[a])'
    BY <1>1, <1>2 DEF FunnelInv, ApplicationsInv, Applied
  <2>2. \A b \in Applications \ {a} : Applied(application[b])'
    BY <1>1, <1>2 DEF FunnelInv, ApplicationsInv, Applied
  <2> QED
    BY <2>1, <2>2
<1>5. \A b \in Applications : application'[b].listed = application[b].listed /\ application'[b].of = application[b].of
  BY <1>1
<1> QED
  BY <1>1, <1>3, <1>4, <1>5 DEF FunnelInv, ApplicationsInv

LEMMA AcknowledgeStep ==
  ASSUME FunnelInv, NEW a \in Applications, Acknowledge(a)
  PROVE  FunnelInv'
<1> USE DEF FunnelInv
<1>1. /\ thanks' = thanks \ {a} /\ UNCHANGED <<candidate, flag, opportunity, doing, cut>>
      /\ application[a].status # "NONE" /\ Applied(application[a]) /\ application[a] \in ApplicationRow
  BY DEF Acknowledge, ApplicationsInv, Typed
<1> DEFINE new == [application[a] EXCEPT !.status = "ACKNOWLEDGED"]
<1>2. \/ /\ application[a].status = "SUBMITTED" /\ ~candidate[application[a].of].optedOut
         /\ application' = [application EXCEPT ![a] = new]
      \/ /\ ~(application[a].status = "SUBMITTED" /\ ~candidate[application[a].of].optedOut)
         /\ application' = application
  BY <1>1 DEF Acknowledge, Typed
<1>3. /\ new \in ApplicationRow /\ new.of = application[a].of /\ new.listed = application[a].listed
      /\ new.status = "ACKNOWLEDGED" /\ new.withdrawn = application[a].withdrawn
  BY <1>1 DEF ApplicationRow
<1> HIDE DEF new
<1>4. \A d \in People : Exists(d)' <=> Exists(d)
  BY <1>1 DEF Exists
<1>5. /\ application' \in [Applications -> ApplicationRow]
      /\ \A b \in Applications \ {a} : application'[b] = application[b]
      /\ \A b \in Applications : application'[b].withdrawn = application[b].withdrawn
      /\ Grown /\ \A b \in Applications : Applied(application[b])'
      /\ \A b, d \in Applications :
           application'[b].listed /\ application'[d].listed /\ application'[b].of = application'[d].of => b = d
      /\ application'[a].status = "SUBMITTED" => candidate[application'[a].of].optedOut
  <2>1. CASE application' = application
    <3>1. Grown
      BY <1>4, <2>1 DEF Grown
    <3>2. \A b \in Applications : Applied(application[b])'
      BY <1>4, <2>1 DEF ApplicationsInv, Applied
    <3>3. application[a].status = "SUBMITTED" => candidate[application[a].of].optedOut
      <4>1. application' = [application EXCEPT ![a] = new] => application'[a] = new
        BY DEF Typed
      <4>2. application' = [application EXCEPT ![a] = new] => application[a].status # "SUBMITTED"
        BY <1>3, <2>1, <4>1
      <4> QED
        BY <1>2, <4>2
    <3> QED
      BY <2>1, <3>1, <3>2, <3>3 DEF ApplicationsInv, Typed
  <2>2. CASE application[a].status = "SUBMITTED" /\ application' = [application EXCEPT ![a] = new]
    <3>1. new.withdrawn <=> new.status = "CLOSED_WITHDRAWN"
      BY <1>1, <1>3, <2>2 DEF Applied
    <3>2. /\ application' \in [Applications -> ApplicationRow] /\ application'[a] = new
          /\ \A b \in Applications \ {a} : application'[b] = application[b]
          /\ Grown /\ \A b \in Applications : Applied(application[b])'
          /\ \A b, d \in Applications :
               application'[b].listed /\ application'[d].listed /\ application'[b].of = application'[d].of => b = d
      <4>1. new.status # "NONE" /\ UNCHANGED candidate
        BY <1>1, <1>3
      <4> QED
        BY <1>1, <1>3, <2>2, <3>1, <4>1, RowWritten
    <3>3. \A b \in Applications : application'[b].withdrawn = application[b].withdrawn
      BY <1>3, <3>2
    <3> QED
      BY <1>3, <3>2, <3>3
  <2> QED
    BY <1>2, <2>1, <2>2
<1>6. ApplicationsInv'
  <2>1. ASSUME NEW y \in Sessions PROVE ApplicantFits(doing[y])'
    <3>1. doing[y].does = "register" => \A d \in People : ~Exists(d)'
      BY <1>4 DEF ApplicationsInv, ApplicantFits
    <3> QED
      BY <1>1, <1>5, <3>1, FitsKept
  <2>2. \A b \in thanks' : b \in Applications /\ application'[b].status # "NONE"
    BY <1>1, <1>5 DEF ApplicationsInv, Grown
  <2>3. ASSUME NEW b \in Applications \ cut', application'[b].status = "SUBMITTED", ~application'[b].listed
        PROVE  b \in thanks' \/ candidate'[application'[b].of].optedOut \/ Recording(b)'
    <3>1. Recording(b)' <=> Recording(b)
      BY <1>1 DEF Recording
    <3>2. CASE b = a
      BY <1>1, <1>5, <2>3, <3>2
    <3>3. CASE b # a
      BY <1>1, <1>5, <2>3, <3>1, <3>3 DEF ApplicationsInv
    <3> QED
      BY <3>2, <3>3
  <2> QED
    BY <1>5, <2>1, <2>2, <2>3 DEF ApplicationsInv
<1>7. PeopleInv'
  BY <1>1, PeopleKept
<1>8. Typed' /\ CallsApart' /\ Rested'
  BY <1>1, <1>5 DEF Typed, CallsApart, Rested
<1> QED
  BY <1>6, <1>7, <1>8

LEMMA WithdrawReadStep ==
  ASSUME FunnelAssumption, Overlapping \cap Conflicting = {}, FunnelInv,
         NEW x \in Sessions, NEW a \in Applications, WithdrawRead(x, a)
  PROVE  FunnelInv'
<1> USE DEF FunnelInv
<1>1. application[a].status # "NONE" /\ UNCHANGED <<candidate, flag, opportunity, application, thanks, cut>>
  BY DEF WithdrawRead, rows
<1>2. PICK first \in CallRow : first.at = "withdraw" /\ first.a = a /\ Arrives(x, "withdraw", first)
  <2>1. [Idle EXCEPT !.at = "withdraw", !.a = a] \in CallRow
    BY IdleRow DEF Idle, CallRow
  <2> QED
    BY <2>1 DEF WithdrawRead, Idle
<1>3. "withdraw" \in Calls /\ first.at # "idle" /\ (first.at \notin {"claim", "settle"} \/ "withdraw" \in {"same", "different"})
  BY <1>2 DEF Calls
<1>4. PICK row \in CallRow :
        /\ row.does = "withdraw" /\ row.at = first.at /\ row.c = first.c /\ row.a = first.a
        /\ row.todo = first.todo /\ row.held = first.held
        /\ doing' \in [Sessions -> CallRow] /\ doing'[x] = row
        /\ \A y \in Sessions \ {x} : doing'[y] = doing[y] /\ {"withdraw", doing[y].does} \notin Conflicting
        /\ CallsApart' /\ Rested' /\ doing[x].does = "none"
  BY <1>2, <1>3, CallBegins
<1>5. ApplicantFits(doing[x])'
  BY <1>1, <1>2, <1>4 DEF ApplicantFits
<1>6. ApplicationsInv'
  BY <1>1, <1>4, <1>5, ApplicantReads DEF Exists
<1>7. PeopleInv'
  BY <1>1, <1>4, ApplicantStep DEF OnApplications
<1>8. Typed'
  BY <1>1, <1>4 DEF Typed
<1> QED
  BY <1>4, <1>6, <1>7, <1>8

LEMMA WithdrawWriteStep ==
  ASSUME FunnelAssumption, FunnelInv, NEW x \in Sessions, WithdrawWrite(x)
  PROVE  FunnelInv'
<1> USE DEF FunnelInv
<1>1. /\ doing[x].does = "withdraw" /\ Ends(x) /\ UNCHANGED <<candidate, flag, opportunity, thanks, cut>>
      /\ doing[x].a \in Applications /\ application[doing[x].a].status # "NONE"
  BY DEF WithdrawWrite, At, ApplicationsInv, ApplicantFits
<1>2. PICK a \in Applications : a = doing[x].a
  BY <1>1
<1> DEFINE new == [application[a] EXCEPT !.status = "CLOSED_WITHDRAWN", !.withdrawn = TRUE]
<1>3. application' = [application EXCEPT ![a] = new]
  BY <1>2 DEF WithdrawWrite, Typed
<1>4. /\ new \in ApplicationRow /\ new.of = application[a].of /\ new.listed = application[a].listed
      /\ new.status = "CLOSED_WITHDRAWN" /\ new.withdrawn
  BY DEF Typed, ApplicationRow
<1> HIDE DEF new
<1>5. /\ doing' \in [Sessions -> CallRow] /\ doing'[x] = Idle
      /\ \A y \in Sessions \ {x} : doing'[y] = doing[y]
      /\ CallsApart' /\ Rested'
  BY <1>1, CallEnds
<1>6. /\ application' \in [Applications -> ApplicationRow] /\ application'[a] = new
      /\ \A b \in Applications \ {a} : application'[b] = application[b]
      /\ Grown /\ \A b \in Applications : Applied(application[b])'
      /\ \A b, d \in Applications :
           application'[b].listed /\ application'[d].listed /\ application'[b].of = application'[d].of => b = d
  <2>1. new.status # "NONE" /\ UNCHANGED candidate /\ application[a].status # "NONE"
        /\ (new.withdrawn <=> new.status = "CLOSED_WITHDRAWN")
    BY <1>1, <1>2, <1>4
  <2> QED
    BY <1>3, <1>4, <2>1, RowWritten
<1>7. \A d \in People : Exists(d)' <=> Exists(d)
  BY <1>1 DEF Exists
<1>8. ApplicationsInv'
  <2>1. ASSUME NEW y \in Sessions PROVE ApplicantFits(doing[y])'
    <3>1. CASE y = x
      BY <1>5, <3>1, IdleRow DEF ApplicantFits
    <3>2. CASE y # x
      <4>1. doing[y].does = "register" => \A d \in People : ~Exists(d)'
        BY <1>7 DEF ApplicationsInv, ApplicantFits
      <4>2. doing[y].does # "mark"
        BY <1>1, <3>2, OthersDo
      <4> QED
        BY <1>5, <1>6, <3>2, <4>1, <4>2, FitsKept
    <3> QED
      BY <3>1, <3>2
  <2>2. \A b \in thanks' : b \in Applications /\ application'[b].status # "NONE"
    BY <1>1, <1>6 DEF ApplicationsInv, Grown
  <2>3. \A b : Recording(b) => Recording(b)'
    BY <1>1, <1>5, RecordingStays
  <2>4. ASSUME NEW b \in Applications \ cut', application'[b].status = "SUBMITTED", ~application'[b].listed
        PROVE  b \in thanks' \/ candidate'[application'[b].of].optedOut \/ Recording(b)'
    <3>1. application'[b] = application[b]
      BY <1>4, <1>6, <2>4
    <3> QED
      BY <1>1, <2>3, <2>4, <3>1 DEF ApplicationsInv
  <2> QED
    BY <1>6, <2>1, <2>2, <2>4 DEF ApplicationsInv
<1>9. PeopleInv'
  BY <1>1, <1>5, IdleRow, ApplicantStep DEF OnApplications
<1>10. Typed'
  BY <1>1, <1>5, <1>6 DEF Typed
<1> QED
  BY <1>5, <1>8, <1>9, <1>10

\* Several rows change at once, their owners and whether they are listed do not.
LEMMA RowsWritten ==
  ASSUME FunnelInv, NEW todo, UNCHANGED candidate,
         application' \in [Applications -> ApplicationRow],
         \A b \in Applications : b \notin todo => application'[b] = application[b],
         \A b \in Applications : b \in todo =>
           /\ application[b].status # "NONE"
           /\ application'[b].of = application[b].of /\ application'[b].listed = application[b].listed
           /\ application'[b].status # "NONE" /\ ~application'[b].withdrawn
           /\ application'[b].status # "CLOSED_WITHDRAWN"
  PROVE  /\ \A b \in Applications : application'[b].withdrawn => application[b].withdrawn
         /\ Grown /\ \A b \in Applications : Applied(application[b])'
         /\ \A b, d \in Applications :
              application'[b].listed /\ application'[d].listed /\ application'[b].of = application'[d].of => b = d
<1>1. \A d \in People : Exists(d)' <=> Exists(d)
  BY DEF Exists
<1>2. ASSUME NEW b \in Applications
      PROVE  /\ application'[b].listed = application[b].listed /\ application'[b].of = application[b].of
             /\ application'[b].withdrawn => application[b].withdrawn
             /\ application[b].status # "NONE" => application'[b].status # "NONE"
             /\ Applied(application[b])'
  <2>1. Applied(application[b])
    BY DEF FunnelInv, ApplicationsInv
  <2>2. CASE b \in todo
    BY <1>1, <2>1, <2>2 DEF Applied
  <2>3. CASE b \notin todo
    BY <1>1, <2>1, <2>3 DEF Applied
  <2> QED
    BY <2>2, <2>3
<1>3. Grown
  BY <1>1, <1>2 DEF Grown
<1>4. ASSUME NEW b \in Applications, NEW d \in Applications, application'[b].listed, application'[d].listed,
             application'[b].of = application'[d].of
      PROVE  b = d
  BY <1>2, <1>4 DEF FunnelInv, ApplicationsInv
<1> QED
  BY <1>2, <1>3, <1>4

LEMMA ApplyReopenStep ==
  ASSUME FunnelAssumption, FunnelInv, NEW x \in Sessions, ApplyReopen(x)
  PROVE  FunnelInv'
<1> USE DEF FunnelInv
<1>1. /\ doing[x].does = "apply" /\ Ends(x) /\ UNCHANGED <<candidate, flag, opportunity, thanks, cut>>
      /\ application' = [a \in Applications |->
           IF a \in doing[x].todo THEN Reopened(application[a]) ELSE application[a]]
      /\ ApplicantFits(doing[x])
  BY DEF ApplyReopen, At, ApplicationsInv
<1>2. \A a \in doing[x].todo : a \in Applications /\ application[a].listed
  BY <1>1 DEF ApplicantFits
<1> DEFINE Row(a) == Reopened(application[a])
<1>3. ASSUME NEW a \in doing[x].todo \cap Applications
      PROVE  /\ application[a].status # "NONE" /\ Row(a) \in ApplicationRow
             /\ Row(a).of = application[a].of /\ Row(a).listed = application[a].listed
             /\ Row(a).status # "NONE" /\ ~Row(a).withdrawn /\ Row(a).status # "CLOSED_WITHDRAWN"
  <2>1. application[a] \in ApplicationRow /\ application[a].status # "NONE"
    BY <1>2 DEF Typed, ApplicationsInv, Applied
  <2> QED
    BY <2>1 DEF Reopened, ApplicationRow
<1>4. application' = [a \in Applications |-> IF a \in doing[x].todo THEN Row(a) ELSE application[a]]
  BY <1>1
<1> HIDE DEF Row
<1>5. /\ application' \in [Applications -> ApplicationRow]
      /\ \A b \in Applications : application'[b] = IF b \in doing[x].todo THEN Row(b) ELSE application[b]
      /\ \A b \in Applications : application'[b].withdrawn => application[b].withdrawn
      /\ Grown /\ \A b \in Applications : Applied(application[b])'
      /\ \A b, d \in Applications :
           application'[b].listed /\ application'[d].listed /\ application'[b].of = application'[d].of => b = d
  <2>1. /\ application' \in [Applications -> ApplicationRow]
        /\ \A b \in Applications : application'[b] = IF b \in doing[x].todo THEN Row(b) ELSE application[b]
    BY <1>3, <1>4 DEF Typed
  <2>2. \A b \in Applications : b \notin doing[x].todo => application'[b] = application[b]
    BY <2>1
  <2>3. \A b \in Applications : b \in doing[x].todo =>
          /\ application[b].status # "NONE"
          /\ application'[b].of = application[b].of /\ application'[b].listed = application[b].listed
          /\ application'[b].status # "NONE" /\ ~application'[b].withdrawn
          /\ application'[b].status # "CLOSED_WITHDRAWN"
    BY <1>3, <2>1
  <2>4. UNCHANGED candidate
    BY <1>1
  <2> QED
    BY <2>1, <2>2, <2>3, <2>4, RowsWritten
<1>6. /\ doing' \in [Sessions -> CallRow] /\ doing'[x] = Idle
      /\ \A y \in Sessions \ {x} : doing'[y] = doing[y]
      /\ CallsApart' /\ Rested'
  BY <1>1, CallEnds
<1>7. \A d \in People : Exists(d)' <=> Exists(d)
  BY <1>1 DEF Exists
<1>8. ApplicationsInv'
  <2>1. ASSUME NEW y \in Sessions PROVE ApplicantFits(doing[y])'
    <3>1. CASE y = x
      BY <1>6, <3>1, IdleRow DEF ApplicantFits
    <3>2. CASE y # x
      <4>1. doing[y].does = "register" => \A d \in People : ~Exists(d)'
        BY <1>7 DEF ApplicationsInv, ApplicantFits
      <4> QED
        BY <1>5, <1>6, <3>2, <4>1, FitsKept
    <3> QED
      BY <3>1, <3>2
  <2>2. \A b \in thanks' : b \in Applications /\ application'[b].status # "NONE"
    BY <1>1, <1>5 DEF ApplicationsInv, Grown
  <2>3. \A b : Recording(b) => Recording(b)'
    BY <1>1, <1>6, RecordingStays
  <2>4. ASSUME NEW b \in Applications \ cut', application'[b].status = "SUBMITTED", ~application'[b].listed
        PROVE  b \in thanks' \/ candidate'[application'[b].of].optedOut \/ Recording(b)'
    <3>1. b \notin doing[x].todo
      BY <1>2, <1>3, <1>5, <2>4
    <3>2. application'[b] = application[b]
      BY <1>5, <3>1
    <3> QED
      BY <1>1, <2>3, <2>4, <3>2 DEF ApplicationsInv
  <2> QED
    BY <1>5, <2>1, <2>2, <2>4 DEF ApplicationsInv
<1>9. PeopleInv'
  BY <1>1, <1>6, IdleRow, ApplicantStep DEF OnApplications
<1>10. Typed'
  BY <1>1, <1>5, <1>6 DEF Typed
<1> QED
  BY <1>6, <1>8, <1>9, <1>10

LEMMA MarkBegins ==
  ASSUME Typed, CallsApart, Rested, Overlapping \cap Conflicting = {},
         NEW x \in Sessions, NEW s \in CallRow, s.at = "read", Arrives(x, "mark", s)
  PROVE  \E row \in CallRow :
           /\ row.does = "mark" /\ row.at = "read" /\ row.c = s.c
           /\ doing' \in [Sessions -> CallRow] /\ doing'[x] = row
           /\ \A y \in Sessions \ {x} : doing'[y] = doing[y] /\ {"mark", doing[y].does} \notin Conflicting
           /\ CallsApart' /\ Rested' /\ doing[x].does = "none"
<1>1. "mark" \in Calls /\ s.at # "idle" /\ (s.at \notin {"claim", "settle"} \/ "mark" \in {"same", "different"})
  BY DEF Calls
<1>2. PICK row \in CallRow :
        /\ row.does = "mark" /\ row.at = s.at /\ row.c = s.c /\ row.a = s.a /\ row.todo = s.todo
        /\ row.held = s.held
        /\ doing' \in [Sessions -> CallRow] /\ doing'[x] = row
        /\ \A y \in Sessions \ {x} : doing'[y] = doing[y] /\ {"mark", doing[y].does} \notin Conflicting
        /\ CallsApart' /\ Rested' /\ doing[x].does = "none"
  BY <1>1, CallBegins
<1> QED
  BY <1>2

LEMMA StartScreeningStep ==
  ASSUME FunnelAssumption, Overlapping \cap Conflicting = {}, FunnelInv,
         NEW x \in Sessions, NEW c \in People, StartScreening(x, c)
  PROVE  FunnelInv'
<1> USE DEF FunnelInv
<1> DEFINE new == [candidate[c] EXCEPT !.stage = "SCREENING_INVITED"]
<1>1. /\ candidate[c].stage = "NEW" /\ UNCHANGED <<flag, opportunity, application, thanks, cut>>
      /\ candidate' = [candidate EXCEPT ![c] = new]
  BY DEF StartScreening, Typed
<1>2. new \in CandidateRow /\ new.stage = "SCREENING_INVITED" /\ new.optedOut = candidate[c].optedOut
  BY DEF Typed, CandidateRow, Stages
<1> HIDE DEF new
<1>3. /\ candidate' \in [People -> CandidateRow] /\ candidate'[c].stage = "SCREENING_INVITED"
      /\ \A d \in People \ {c} : candidate'[d] = candidate[d]
      /\ \A d \in People : candidate'[d].optedOut = candidate[d].optedOut
  BY <1>1, <1>2 DEF Typed
<1> DEFINE first == [Idle EXCEPT !.at = "read", !.c = c]
<1>4. first \in CallRow /\ first.at = "read" /\ first.c = c /\ Arrives(x, "mark", first)
  <2>1. first \in CallRow /\ first.at = "read" /\ first.c = c
    BY IdleRow DEF Idle, CallRow
  <2> QED
    BY <2>1 DEF StartScreening
<1> HIDE DEF first
<1>5. Typed /\ CallsApart /\ Rested
  OBVIOUS
<1>6. PICK row \in CallRow :
        /\ row.does = "mark" /\ row.at = "read" /\ row.c = first.c
        /\ doing' \in [Sessions -> CallRow] /\ doing'[x] = row
        /\ \A y \in Sessions \ {x} : doing'[y] = doing[y] /\ {"mark", doing[y].does} \notin Conflicting
        /\ CallsApart' /\ Rested' /\ doing[x].does = "none"
  BY <1>4, <1>5, MarkBegins
<1>7. Exists(c) /\ \A d \in People : Exists(d)' <=> Exists(d)
  BY <1>1, <1>3 DEF Exists
<1>8. doing[x].does \notin OnPeople /\ doing'[x].does \notin OnPeople
  BY <1>6 DEF OnPeople
<1>9. (\A d : Finding(c, d) => Finding(c, d)') /\ (Creating(c) => Creating(c)') /\ (Withdrawing(c) => Withdrawing(c)')
  BY <1>6, <1>8, OthersGoOn
<1>10. PeopleInv'
  <2>1. PersonFits(doing[x])'
    BY <1>6 DEF PersonFits, OnPeople
  <2>2. ASSUME NEW y \in Sessions \ {x}, doing[y].c = c PROVE PersonFits(doing[y])'
    <3>1. PersonFits(doing[y]) /\ doing'[y] = doing[y] /\ OpenFlags(c)' = OpenFlags(c) /\ flag' = flag
      BY <1>1, <1>6 DEF PeopleInv, OpenFlags
    <3>2. candidate'[c].stage = "SCREENING_INVITED"
      BY <1>3
    <3> QED
      BY <1>7, <2>2, <3>1, <3>2 DEF PersonFits
  <2>3. c \notin cut' => (Creating(c) \/ Parked(c))'
    <3>1. c \notin cut' => Creating(c) \/ Parked(c)
      BY <1>1 DEF PeopleInv
    <3>2. OpenFlags(c)' = OpenFlags(c)
      BY <1>1 DEF OpenFlags
    <3> QED
      BY <1>1, <1>3, <1>9, <3>1, <3>2 DEF Parked
  <2>4. doing'[x].does # "create"
    BY <1>6
  <2>5. /\ \A e \in People \ {c} : candidate'[e].stage = candidate[e].stage /\ flag'[e] = flag[e]
        /\ Exists(c)' /\ (\A e \in People : flag[c][e] # "NONE" => flag'[c][e] # "NONE") /\ cut \subseteq cut'
    BY <1>1, <1>3, <1>7
  <2>6. \A e \in People \ {c} : Exists(e) /\ (Finding(c, e) \/ ~Exists(c)) => Finding(c, e)' \/ flag'[c][e] # "NONE"
    BY <1>7, <1>9
  <2>7. \A y \in Sessions \ {x} : doing'[y] = doing[y]
    BY <1>6
  <2> QED
    BY <1>8, <2>1, <2>2, <2>3, <2>4, <2>5, <2>6, <2>7, PersonMoves
<1>11. ApplicationsInv'
  <2>1. ApplicantFits(doing[x])'
    BY <1>4, <1>6 DEF ApplicantFits
  <2> QED
    BY <1>1, <1>3, <1>6, <1>7, <2>1, ApplicantReads
<1>12. Typed'
  BY <1>1, <1>3, <1>6 DEF Typed
<1> QED
  BY <1>6, <1>10, <1>11, <1>12

LEMMA MarkReadStep ==
  ASSUME FunnelAssumption, FunnelInv, NEW x \in Sessions, MarkRead(x)
  PROVE  FunnelInv'
<1> USE DEF FunnelInv
<1> DEFINE found == {a \in Applications : application[a].of = doing[x].c /\ application[a].status = "SUBMITTED"
                                            /\ ~application[a].withdrawn}
           next == [doing[x] EXCEPT !.at = "mark", !.todo = found]
<1>1. /\ doing[x].does = "mark" /\ doing[x].at = "read"
      /\ UNCHANGED <<candidate, flag, opportunity, application, thanks, cut>>
      /\ doing[x] \in CallRow /\ ApplicantFits(doing[x])
  BY DEF MarkRead, At, rows, Typed, ApplicationsInv
<1>2. doing' = [doing EXCEPT ![x] = next]
  BY DEF MarkRead, Typed
<1>3. next \in CallRow /\ next.does = "mark" /\ next.at = "mark" /\ next.c = doing[x].c /\ next.todo = found
  <2>1. found \in SUBSET (People \cup Applications)
    OBVIOUS
  <2> HIDE DEF found
  <2> QED
    BY <1>1, <2>1 DEF CallRow
<1>4. \A a \in found : a \in Applications /\ application[a].status # "NONE" /\ ~application[a].withdrawn
  OBVIOUS
<1> HIDE DEF next, found
<1>5. /\ doing' \in [Sessions -> CallRow] /\ doing'[x] = next
      /\ \A y \in Sessions \ {x} : doing'[y] = doing[y]
      /\ CallsApart' /\ Rested'
  <2>1. next.does \in {doing[x].does, "none"} /\ Placed(next)
    BY <1>1, <1>3 DEF Placed
  <2> QED
    BY <1>2, <1>3, <2>1, CallGoesOn
<1>6. ApplicantFits(doing[x])'
  BY <1>1, <1>3, <1>4, <1>5 DEF ApplicantFits
<1>7. ApplicationsInv'
  BY <1>1, <1>5, <1>6, ApplicantReads DEF Exists
<1>8. PeopleInv'
  BY <1>1, <1>3, <1>5, ApplicantStep DEF OnApplications
<1>9. Typed'
  BY <1>1, <1>5 DEF Typed
<1> QED
  BY <1>5, <1>7, <1>8, <1>9

LEMMA MarkWriteStep ==
  ASSUME FunnelAssumption, FunnelInv, NEW x \in Sessions, MarkWrite(x)
  PROVE  FunnelInv'
<1> USE DEF FunnelInv
<1> DEFINE Row(a) == [application[a] EXCEPT !.status = "SCREENING_STARTED"]
<1>1. /\ doing[x].does = "mark" /\ doing[x].at = "mark" /\ Ends(x)
      /\ UNCHANGED <<candidate, flag, opportunity, thanks, cut>>
      /\ application' = [a \in Applications |-> IF a \in doing[x].todo THEN Row(a) ELSE application[a]]
      /\ ApplicantFits(doing[x])
  BY DEF MarkWrite, At, ApplicationsInv
<1>2. ASSUME NEW a \in doing[x].todo \cap Applications
      PROVE  /\ application[a].status # "NONE" /\ Row(a) \in ApplicationRow
             /\ Row(a).of = application[a].of /\ Row(a).listed = application[a].listed
             /\ Row(a).status = "SCREENING_STARTED" /\ ~Row(a).withdrawn
  <2>1. application[a] \in ApplicationRow /\ application[a].status # "NONE" /\ ~application[a].withdrawn
    BY <1>1 DEF Typed, ApplicantFits
  <2> QED
    BY <2>1 DEF ApplicationRow
<1> HIDE DEF Row
<1>3. \A a \in doing[x].todo \cap Applications :
        /\ application[a].status # "NONE" /\ Row(a) \in ApplicationRow
        /\ Row(a).of = application[a].of /\ Row(a).listed = application[a].listed
        /\ Row(a).status # "NONE" /\ ~Row(a).withdrawn /\ Row(a).status # "CLOSED_WITHDRAWN"
  BY <1>2
<1>4. /\ application' \in [Applications -> ApplicationRow]
      /\ \A b \in Applications : application'[b] = IF b \in doing[x].todo THEN Row(b) ELSE application[b]
      /\ \A b \in Applications : application'[b].withdrawn => application[b].withdrawn
      /\ Grown /\ \A b \in Applications : Applied(application[b])'
      /\ \A b, d \in Applications :
           application'[b].listed /\ application'[d].listed /\ application'[b].of = application'[d].of => b = d
  <2>1. /\ application' \in [Applications -> ApplicationRow]
        /\ \A b \in Applications : application'[b] = IF b \in doing[x].todo THEN Row(b) ELSE application[b]
    BY <1>1, <1>3 DEF Typed
  <2>2. \A b \in Applications : b \notin doing[x].todo => application'[b] = application[b]
    BY <2>1
  <2>3. \A b \in Applications : b \in doing[x].todo =>
          /\ application[b].status # "NONE"
          /\ application'[b].of = application[b].of /\ application'[b].listed = application[b].listed
          /\ application'[b].status # "NONE" /\ ~application'[b].withdrawn
          /\ application'[b].status # "CLOSED_WITHDRAWN"
    BY <1>3, <2>1
  <2>4. UNCHANGED candidate
    BY <1>1
  <2> QED
    BY <2>1, <2>2, <2>3, <2>4, RowsWritten
<1>5. /\ doing' \in [Sessions -> CallRow] /\ doing'[x] = Idle
      /\ \A y \in Sessions \ {x} : doing'[y] = doing[y]
      /\ CallsApart' /\ Rested'
  BY <1>1, CallEnds
<1>6. \A d \in People : Exists(d)' <=> Exists(d)
  BY <1>1 DEF Exists
<1>7. ApplicationsInv'
  <2>1. ASSUME NEW y \in Sessions PROVE ApplicantFits(doing[y])'
    <3>1. CASE y = x
      BY <1>5, <3>1, IdleRow DEF ApplicantFits
    <3>2. CASE y # x
      <4>1. doing[y].does = "register" => \A d \in People : ~Exists(d)'
        BY <1>6 DEF ApplicationsInv, ApplicantFits
      <4> QED
        BY <1>4, <1>5, <3>2, <4>1, FitsKept
    <3> QED
      BY <3>1, <3>2
  <2>2. \A b \in thanks' : b \in Applications /\ application'[b].status # "NONE"
    BY <1>1, <1>4 DEF ApplicationsInv, Grown
  <2>3. \A b : Recording(b) => Recording(b)'
    BY <1>1, <1>5, RecordingStays
  <2>4. ASSUME NEW b \in Applications \ cut', application'[b].status = "SUBMITTED", ~application'[b].listed
        PROVE  b \in thanks' \/ candidate'[application'[b].of].optedOut \/ Recording(b)'
    <3>1. b \notin doing[x].todo
      BY <1>2, <1>4, <2>4
    <3>2. application'[b] = application[b]
      BY <1>4, <3>1
    <3> QED
      BY <1>1, <2>3, <2>4, <3>2 DEF ApplicationsInv
  <2> QED
    BY <1>4, <2>1, <2>2, <2>4 DEF ApplicationsInv
<1>8. PeopleInv'
  BY <1>1, <1>5, IdleRow, ApplicantStep DEF OnApplications
<1>9. Typed'
  BY <1>1, <1>4, <1>5 DEF Typed
<1> QED
  BY <1>5, <1>7, <1>8, <1>9

-----------------------------------------------------------------------------
LEMMA FunnelStep ==
  ASSUME FunnelAssumption, Overlapping \cap Conflicting = {}, FunnelInv, [Next]_vars
  PROVE  FunnelInv'
<1>1. ASSUME NEW x \in Sessions, NEW c \in People, CreateRow(x, c) \/ Record(x, c) \/ StartScreening(x, c)
      PROVE  FunnelInv'
  BY <1>1, CreateRowStep, RecordStep, StartScreeningStep
<1>2. ASSUME NEW x \in Sessions, NEW c \in People, NEW d \in People, NEW does \in Calls, ResolveRead(x, c, d, does)
      PROVE  FunnelInv'
  BY <1>2, ResolveReadStep
<1>3. ASSUME NEW x \in Sessions, StatusWrite(x) \/ \E does \in Calls : StatusRead(x, does)
      PROVE  FunnelInv'
  BY <1>3, OpportunityStep
<1>4. ASSUME NEW x \in Sessions, \E a \in Applications : WithdrawRead(x, a)
      PROVE  FunnelInv'
  BY <1>4, WithdrawReadStep
<1>5. ASSUME NEW x \in Sessions,
             \/ DetectDuplicates(x) \/ AddFlag(x) \/ Hold(x)
             \/ ResolveClaim(x) \/ ConfirmSame(x) \/ ConfirmDifferent(x) \/ Crash(x)
      PROVE  FunnelInv'
  BY <1>5, DetectStep, AddFlagStep, HoldStep, ResolveClaimStep, ConfirmSameStep, ConfirmDifferentStep, CrashStep
<1>6. ASSUME NEW x \in Sessions,
             \/ ApplyRead(x) \/ ApplyNew(x) \/ ApplyKnown(x) \/ ApplyReopen(x)
             \/ RecordEnqueue(x) \/ WithdrawWrite(x) \/ MarkRead(x) \/ MarkWrite(x)
      PROVE  FunnelInv'
  BY <1>6, ApplyReadStep, ApplyNewStep, ApplyKnownStep, ApplyReopenStep, RecordEnqueueStep, WithdrawWriteStep,
     MarkReadStep, MarkWriteStep
<1>7. CASE \E c \in People : OptOutCandidate(c)
  BY <1>7, OptOutStep
<1>8. CASE \E a \in Applications : Acknowledge(a)
  BY <1>8, AcknowledgeStep
<1>9. CASE MoveDeadline
  BY <1>9, OpportunityStep
<1>10. CASE UNCHANGED vars
  <2>1. UNCHANGED <<candidate, flag, opportunity, application, thanks, doing, cut>>
    BY <1>10 DEF vars, rows
  <2>2. PeopleInv'
    BY <2>1, PeopleKept DEF FunnelInv
  <2>3. \A y \in Sessions : doing[y].does = "register" => \A c \in People : ~Exists(c)'
    BY <2>1 DEF FunnelInv, ApplicationsInv, ApplicantFits, Exists
  <2>4. ApplicationsInv'
    BY <2>1, <2>3, ApplicationsKept DEF FunnelInv, Exists
  <2>5. Typed' /\ CallsApart' /\ Rested'
    BY <2>1 DEF FunnelInv, Typed, CallsApart, Rested
  <2> QED
    BY <2>2, <2>4, <2>5 DEF FunnelInv
<1> QED
  BY <1>1, <1>2, <1>3, <1>4, <1>5, <1>6, <1>7, <1>8, <1>9, <1>10 DEF Next, SessionStep

LEMMA FunnelKept == ASSUME FunnelInv PROVE FunnelHolds
<1> USE DEF FunnelInv
<1>1. PairsNoticed
  BY DEF PeopleInv, Noticed, PairsNoticed, Finding, AtWork
<1>2. HeldWhileOpen
  BY DEF PeopleInv, Parked, Creating, Withdrawing, Releasing, AtWork, HeldWhileOpen
<1>3. OnePerPerson
  <2>1. ASSUME NEW c \in People PROVE Cardinality(Listed(c)) <= 1
    <3>1. \A a, b \in Listed(c) : a = b
      BY DEF Listed, ApplicationsInv
    <3>2. CASE Listed(c) = {}
      BY <3>2, FS_EmptySet
    <3>3. CASE Listed(c) # {}
      <4>1. PICK a \in Listed(c) : TRUE
        BY <3>3
      <4>2. Listed(c) = {a}
        BY <3>1, <4>1
      <4>3. Cardinality({a}) = 1
        BY FS_Singleton
      <4> QED
        BY <4>2, <4>3
    <3> QED
      BY <3>2, <3>3
  <2> QED
    BY <2>1 DEF OnePerPerson, ApplicationsInv, Applied
<1>4. Acknowledged
  BY DEF ApplicationsInv, Acknowledged, Recording
<1> QED
  BY <1>1, <1>2, <1>3, <1>4 DEF FunnelHolds

\* createCandidate, resolveDuplicate, applyToOpportunity, submitApplication,
\* withdrawApplication, markScreeningStartedForCandidate: two records of one
\* person are never both in unnoticed, an open question keeps a record parked,
\* one person has one application, and what an operator records is acknowledged,
\* however the calls overlap that do not conflict and wherever one dies.
THEOREM FunnelKeeps ==
  ASSUME FunnelAssumption, Overlapping \cap Conflicting = {}
  PROVE  Spec => []FunnelHolds
<1>1. Init => FunnelInv
  BY FunnelInit
<1>2. FunnelInv /\ [Next]_vars => FunnelInv'
  BY FunnelStep
<1>3. FunnelInv => FunnelHolds
  BY FunnelKept
<1> QED
  BY <1>1, <1>2, <1>3, PTL DEF Spec
=============================================================================
