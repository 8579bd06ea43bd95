------------------------------- MODULE Funnel -------------------------------
(***************************************************************************)
(* How a person enters the pipeline: candidate records and suspected       *)
(* duplicates (candidates.ts), an opportunity (opportunities.ts) and the   *)
(* applications to it (applications.ts).                                   *)
(*                                                                         *)
(* The candidate records of the model carry one address, so each matches   *)
(* the others.  Applications to the opportunity, withdrawals and the       *)
(* opportunity itself change in transactions that read and then write by   *)
(* id; candidates, duplicates and applications an operator records change  *)
(* statement by statement.                                                 *)
(***************************************************************************)
EXTENDS Integers, FiniteSets

CONSTANTS
  People,       \* candidate records
  Applications, \* application records
  Sessions,
  Overlapping,  \* {c, d} is in it if a call of c may overlap with one of d
  MaxCut,       \* bound: how much deaths of sessions may touch
  None

\* register and apply are applyToOpportunity for a stranger and somebody known.
Calls == {"create", "same", "different", "register", "apply", "record", "withdraw", "mark",
          "publish", "close"}

\* What the constants must be; the runs assume it.
FunnelAssumption ==
  /\ IsFiniteSet(People) /\ IsFiniteSet(Applications)
  /\ Overlapping \subseteq SUBSET Calls
  /\ MaxCut \in Nat
  /\ None \notin People \cup Applications

VARIABLES
  candidate,   \* the Candidate rows: stage and contactOptOutAt
  flag,        \* DuplicateFlag.status, by candidate and matched candidate
  opportunity, \* its status and whether its deadline has passed
  application, \* the Application rows
  thanks,      \* applications with a job to acknowledge them
  doing,       \* what each session is doing
  cut          \* history: candidates and applications a call was cut short about

rows == <<candidate, flag, opportunity, application, thanks>>
vars == <<rows, doing, cut>>

Absent == [stage |-> "ABSENT", optedOut |-> FALSE]
NoApplication == [of |-> None, listed |-> FALSE, status |-> "NONE", withdrawn |-> FALSE]
Idle == [at |-> "idle", does |-> "none", c |-> None, a |-> None, todo |-> {}, held |-> FALSE]

TypeOK ==
  /\ candidate \in [People -> [stage : {"ABSENT", "NEW", "DUPLICATE_HOLD", "SCREENING_INVITED",
                                        "WITHDRAWN"}, optedOut : BOOLEAN]]
  /\ flag \in [People -> [People -> {"NONE", "OPEN", "CONFIRMED_SAME", "CONFIRMED_DIFFERENT"}]]
  /\ opportunity \in [status : {"DRAFT", "PUBLISHED", "CLOSED"}, late : BOOLEAN]
  /\ application \in [Applications -> [of : People \cup {None}, listed : BOOLEAN,
       status : {"NONE", "SUBMITTED", "ACKNOWLEDGED", "SCREENING_STARTED", "CLOSED_WITHDRAWN"},
       withdrawn : BOOLEAN]]
  /\ thanks \subseteq Applications
  /\ cut \subseteq People \cup Applications
  /\ \A x \in Sessions : doing[x].does \in Calls \cup {"none"}

Init ==
  /\ candidate = [c \in People |-> Absent]
  /\ flag = [c \in People |-> [d \in People |-> "NONE"]]
  /\ opportunity = [status |-> "DRAFT", late |-> FALSE]
  /\ application = [a \in Applications |-> NoApplication]
  /\ thanks = {} /\ cut = {}
  /\ doing = [x \in Sessions |-> Idle]

-----------------------------------------------------------------------------
Busy(x) == doing[x].at # "idle"

\* A call begins when those under way may overlap with it.
Arrives(x, does, s) ==
  /\ ~Busy(x)
  /\ \A y \in Sessions \ {x} : Busy(y) => {does, doing[y].does} \in Overlapping
  /\ doing' = [doing EXCEPT ![x] = [s EXCEPT !.does = does]]

At(x, does, at) == doing[x].does = does /\ doing[x].at = at
Goes(x, at) == doing' = [doing EXCEPT ![x].at = at]
Ends(x) == doing' = [doing EXCEPT ![x] = Idle]

\* The session dies; what a transaction had not committed is gone.
Crash(x) ==
  /\ Busy(x) /\ Cardinality(cut) < MaxCut
  /\ Ends(x)
  /\ cut' = cut \cup ({doing[x].c, doing[x].a} \ {None})
  /\ UNCHANGED rows

Exists(c) == candidate[c].stage # "ABSENT"
OpenFlags(c) == {d \in People : flag[c][d] = "OPEN"}

-----------------------------------------------------------------------------
(***************************************************************************)
(* Candidates.                                                             *)
(***************************************************************************)

\* createCandidate: the row first ...
CreateRow(x, c) ==
  /\ ~Exists(c)
  /\ candidate' = [candidate EXCEPT ![c].stage = "NEW"]
  /\ Arrives(x, "create", [Idle EXCEPT !.at = "detect", !.c = c])
  /\ UNCHANGED <<flag, opportunity, application, thanks, cut>>

\* Mutant of Matches: only candidates nobody has worked with yet.
MatchesNew(c) == {d \in People \ {c} : candidate[d].stage = "NEW"}

\* Everybody with the address, withdrawn or not.
Matches(c) == {d \in People \ {c} : Exists(d)}

\* ... then detectDuplicates finds who matches, and flags one after the other,
DetectDuplicates(x) ==
  /\ At(x, "create", "detect")
  /\ LET found == Matches(doing[x].c)
     IN IF found = {} THEN Ends(x)
        ELSE doing' = [doing EXCEPT ![x].todo = found, ![x].at = "flag"]
  /\ UNCHANGED <<rows, cut>>

AddFlag(x) ==
  /\ At(x, "create", "flag")
  /\ \E d \in doing[x].todo :
       /\ flag' = [flag EXCEPT ![doing[x].c][d] = "OPEN"]
       /\ doing' = [doing EXCEPT ![x].todo = @ \ {d},
                                 ![x].at = IF doing[x].todo = {d} THEN "hold" ELSE "flag"]
  /\ UNCHANGED <<candidate, opportunity, application, thanks, cut>>

\* Mutant of Hold: the candidate is only flagged.
HoldNobody(x) ==
  /\ At(x, "create", "hold")
  /\ Ends(x)
  /\ UNCHANGED <<rows, cut>>

\* ... and a flagged candidate is held, by id.
Hold(x) ==
  /\ At(x, "create", "hold")
  /\ candidate' = [candidate EXCEPT ![doing[x].c].stage = "DUPLICATE_HOLD"]
  /\ Ends(x)
  /\ UNCHANGED <<flag, opportunity, application, thanks, cut>>

\* resolveDuplicate: the flag and the candidate are read,
ResolveRead(x, c, d, does) ==
  /\ does \in {"same", "different"} /\ flag[c][d] = "OPEN"
  /\ Arrives(x, does, [Idle EXCEPT !.at = "claim", !.c = c, !.todo = {d},
                         !.held = candidate[c].stage = "DUPLICATE_HOLD"])
  /\ UNCHANGED <<rows, cut>>

\* the flag is claimed while OPEN,
ResolveClaim(x) ==
  /\ doing[x].at = "claim"
  /\ \E d \in doing[x].todo :
       IF flag[doing[x].c][d] = "OPEN"
       THEN /\ flag' = [flag EXCEPT ![doing[x].c][d] =
                  IF doing[x].does = "same" THEN "CONFIRMED_SAME" ELSE "CONFIRMED_DIFFERENT"]
            /\ Goes(x, "settle")
       ELSE Ends(x) /\ UNCHANGED flag
  /\ UNCHANGED <<candidate, opportunity, application, thanks, cut>>

\* the same person is withdrawn,
ConfirmSame(x) ==
  /\ At(x, "same", "settle")
  /\ candidate' = [candidate EXCEPT ![doing[x].c].stage = "WITHDRAWN"]
  /\ Ends(x)
  /\ UNCHANGED <<flag, opportunity, application, thanks, cut>>

\* Mutant of Released: the first answer lets the candidate go.
ReleasedByAny(x) == doing[x].held

\* No flag is left open and the candidate, as read, is held.
Released(x) == OpenFlags(doing[x].c) = {} /\ doing[x].held

\* a different one released with the last flag.
ConfirmDifferent(x) ==
  /\ At(x, "different", "settle")
  /\ candidate' = IF Released(x) THEN [candidate EXCEPT ![doing[x].c].stage = "NEW"] ELSE candidate
  /\ Ends(x)
  /\ UNCHANGED <<flag, opportunity, application, thanks, cut>>

\* optOutCandidate.
OptOutCandidate(c) ==
  /\ Exists(c) /\ ~candidate[c].optedOut
  /\ candidate' = [candidate EXCEPT ![c].optedOut = TRUE]
  /\ UNCHANGED <<flag, opportunity, application, thanks, doing, cut>>

-----------------------------------------------------------------------------
(***************************************************************************)
(* The opportunity.                                                        *)
(***************************************************************************)

\* publishOpportunity, of a draft whose deadline is ahead, and closeOpportunity,
\* of one that is not closed.
StatusRead(x, does) ==
  /\ \/ does = "publish" /\ opportunity.status = "DRAFT" /\ ~opportunity.late
     \/ does = "close" /\ opportunity.status # "CLOSED"
  /\ Arrives(x, does, [Idle EXCEPT !.at = "status"])
  /\ UNCHANGED <<rows, cut>>

StatusWrite(x) ==
  /\ doing[x].at = "status"
  /\ opportunity' = [opportunity EXCEPT !.status =
       IF doing[x].does = "publish" THEN "PUBLISHED" ELSE "CLOSED"]
  /\ Ends(x)
  /\ UNCHANGED <<candidate, flag, application, thanks, cut>>

\* The deadline passes, or updateOpportunity moves it.
MoveDeadline ==
  /\ opportunity.status # "CLOSED"
  /\ opportunity' = [opportunity EXCEPT !.late = ~@]
  /\ UNCHANGED <<candidate, flag, application, thanks, doing, cut>>

\* acceptanceState.
Accepting == opportunity.status = "PUBLISHED" /\ ~opportunity.late

-----------------------------------------------------------------------------
(***************************************************************************)
(* Applications.                                                           *)
(***************************************************************************)

Listed(c) == {a \in Applications : application[a].of = c /\ application[a].listed}
Unused == {a \in Applications : application[a].status = "NONE"}

\* applyToOpportunity: open, and the applicant, when known, may be contacted and
\* has not applied, or has withdrawn.
ApplyRead(x) ==
  /\ Accepting
  /\ IF \A c \in People : ~Exists(c)
     THEN Arrives(x, "register", [Idle EXCEPT !.at = "apply"])
     ELSE \E c \in People :
            /\ Exists(c) /\ ~candidate[c].optedOut
            /\ \A a \in Listed(c) : application[a].withdrawn
            /\ Arrives(x, "apply", [Idle EXCEPT !.at = "apply", !.c = c, !.todo = Listed(c)])
  /\ UNCHANGED <<rows, cut>>

Submitted(c) == [of |-> c, listed |-> TRUE, status |-> "SUBMITTED", withdrawn |-> FALSE]

\* A stranger becomes a candidate, whom no duplicate is looked for.
ApplyNew(x) ==
  /\ At(x, "register", "apply")
  /\ \E c \in People, a \in Unused :
       /\ ~Exists(c)
       /\ candidate' = [candidate EXCEPT ![c].stage = "NEW"]
       /\ application' = [application EXCEPT ![a] = Submitted(c)]
  /\ Ends(x)
  /\ UNCHANGED <<flag, opportunity, thanks, cut>>

\* Mutant of ApplyKnown: no unique index on opportunity and candidate.
ApplyKnownAgain(x) ==
  /\ At(x, "apply", "apply") /\ doing[x].todo = {}
  /\ \E a \in Unused : application' = [application EXCEPT ![a] = Submitted(doing[x].c)]
  /\ Ends(x)
  /\ UNCHANGED <<candidate, flag, opportunity, thanks, cut>>

\* Somebody known gets an application, unless one was committed meanwhile (the
\* unique index aborts the transaction).
ApplyKnown(x) ==
  /\ At(x, "apply", "apply") /\ doing[x].todo = {}
  /\ IF Listed(doing[x].c) = {}
     THEN \E a \in Unused : application' = [application EXCEPT ![a] = Submitted(doing[x].c)]
     ELSE UNCHANGED application
  /\ Ends(x)
  /\ UNCHANGED <<candidate, flag, opportunity, thanks, cut>>

\* Mutant of Reopened: the row's closing is forgotten.
ReopenedClosed(row) == [row EXCEPT !.status = "SUBMITTED"]

Reopened(row) == [row EXCEPT !.status = "SUBMITTED", !.withdrawn = FALSE]

\* A withdrawn application is reopened, by id.
ApplyReopen(x) ==
  /\ At(x, "apply", "apply") /\ doing[x].todo # {}
  /\ application' = [a \in Applications |->
       IF a \in doing[x].todo THEN Reopened(application[a]) ELSE application[a]]
  /\ Ends(x)
  /\ UNCHANGED <<candidate, flag, opportunity, thanks, cut>>

\* submitApplication, by an operator: the row, then the job.
Record(x, c) ==
  /\ Exists(c) /\ ~candidate[c].optedOut
  /\ \E a \in Unused :
       /\ application' = [application EXCEPT ![a] = [Submitted(c) EXCEPT !.listed = FALSE]]
       /\ Arrives(x, "record", [Idle EXCEPT !.at = "enqueue", !.a = a])
  /\ UNCHANGED <<candidate, flag, opportunity, thanks, cut>>

RecordEnqueue(x) ==
  /\ At(x, "record", "enqueue")
  /\ thanks' = thanks \cup {doing[x].a}
  /\ Ends(x)
  /\ UNCHANGED <<candidate, flag, opportunity, application, cut>>

\* application.acknowledge, which claims the application while SUBMITTED.
Acknowledge(a) ==
  /\ a \in thanks
  /\ thanks' = thanks \ {a}
  /\ application' = IF application[a].status = "SUBMITTED" /\ ~candidate[application[a].of].optedOut
                    THEN [application EXCEPT ![a].status = "ACKNOWLEDGED"] ELSE application
  /\ UNCHANGED <<candidate, flag, opportunity, doing, cut>>

\* withdrawApplication, by the candidate.
WithdrawRead(x, a) ==
  /\ application[a].status # "NONE" /\ ~application[a].withdrawn
  /\ Arrives(x, "withdraw", [Idle EXCEPT !.at = "withdraw", !.a = a])
  /\ UNCHANGED <<rows, cut>>

WithdrawWrite(x) ==
  /\ At(x, "withdraw", "withdraw")
  /\ application' = [application EXCEPT ![doing[x].a].status = "CLOSED_WITHDRAWN",
                                        ![doing[x].a].withdrawn = TRUE]
  /\ Ends(x)
  /\ UNCHANGED <<candidate, flag, opportunity, thanks, cut>>

\* The route starts a screening (Screening) ...
StartScreening(x, c) ==
  /\ candidate[c].stage = "NEW" /\ ~candidate[c].optedOut
  /\ candidate' = [candidate EXCEPT ![c].stage = "SCREENING_INVITED"]
  /\ Arrives(x, "mark", [Idle EXCEPT !.at = "read", !.c = c])
  /\ UNCHANGED <<flag, opportunity, application, thanks, cut>>

\* ... and markScreeningStartedForCandidate marks what is submitted, by id.
MarkRead(x) ==
  /\ At(x, "mark", "read")
  /\ doing' = [doing EXCEPT ![x].at = "mark", ![x].todo =
       {a \in Applications : application[a].of = doing[x].c /\ application[a].status = "SUBMITTED"
                              /\ ~application[a].withdrawn}]
  /\ UNCHANGED <<rows, cut>>

MarkWrite(x) ==
  /\ At(x, "mark", "mark")
  /\ application' = [a \in Applications |->
       IF a \in doing[x].todo THEN [application[a] EXCEPT !.status = "SCREENING_STARTED"]
       ELSE application[a]]
  /\ Ends(x)
  /\ UNCHANGED <<candidate, flag, opportunity, thanks, cut>>

-----------------------------------------------------------------------------
SessionStep(x) ==
  \/ \E c \in People : CreateRow(x, c) \/ Record(x, c) \/ StartScreening(x, c)
  \/ \E c, d \in People, does \in Calls : ResolveRead(x, c, d, does)
  \/ \E does \in Calls : StatusRead(x, does)
  \/ \E a \in Applications : WithdrawRead(x, a)
  \/ DetectDuplicates(x) \/ AddFlag(x) \/ Hold(x)
  \/ ResolveClaim(x) \/ ConfirmSame(x) \/ ConfirmDifferent(x)
  \/ StatusWrite(x)
  \/ ApplyRead(x) \/ ApplyNew(x) \/ ApplyKnown(x) \/ ApplyReopen(x)
  \/ RecordEnqueue(x) \/ WithdrawWrite(x) \/ MarkRead(x) \/ MarkWrite(x)

Next ==
  \/ \E x \in Sessions : SessionStep(x) \/ Crash(x)
  \/ \E c \in People : OptOutCandidate(c)
  \/ \E a \in Applications : Acknowledge(a)
  \/ MoveDeadline

Spec == Init /\ [][Next]_vars

-----------------------------------------------------------------------------
(***************************************************************************)
(* What must hold.                                                         *)
(***************************************************************************)

\* Calls that do not go together: the second would write by id over what the
\* first decided, or, for a stranger, make a second record of the person.
Conflicting ==
  {{"register"}, {"register", "create"}, {"same", "create"}, {"different", "create"},
   {"same", "different"}, {"withdraw", "mark"}}

AtWork(c) == \E x \in Sessions : doing[x].c = c

\* Two records of one person never both enter unnoticed: one of them carries a
\* flag about the other, whichever came first (createCandidate writes the row
\* before it looks for others).
PairsNoticed ==
  \A c, d \in {p \in People \ cut : Exists(p) /\ ~AtWork(p)} :
    c # d => flag[c][d] # "NONE" \/ flag[d][c] # "NONE"

\* An open question keeps a candidate parked, and nobody is parked without one
\* (createCandidate, resolveDuplicate).
HeldWhileOpen ==
  \A c \in {p \in People \ cut : ~AtWork(p)} :
    /\ OpenFlags(c) # {} => candidate[c].stage \in {"DUPLICATE_HOLD", "WITHDRAWN"}
    /\ candidate[c].stage = "DUPLICATE_HOLD" => OpenFlags(c) # {}
    /\ (\E d \in People : flag[c][d] = "CONFIRMED_SAME") => candidate[c].stage = "WITHDRAWN"

\* "One person, one application per opportunity" (Application's unique index),
\* and what is withdrawn is shown as withdrawn.
OnePerPerson ==
  /\ \A c \in People : Cardinality(Listed(c)) <= 1
  /\ \A a \in Applications :
       application[a].withdrawn <=> application[a].status = "CLOSED_WITHDRAWN"

\* An application an operator records is acknowledged, unless the person opted
\* out, or the call that recorded it was cut short: there is a job as long as it
\* is not (submitApplication).
Acknowledged ==
  \A a \in Applications \ cut :
    application[a].status = "SUBMITTED" /\ ~application[a].listed =>
      \/ a \in thanks \/ candidate[application[a].of].optedOut
      \/ \E x \in Sessions : doing[x].a = a

FunnelHolds == PairsNoticed /\ HeldWhileOpen /\ OnePerPerson /\ Acknowledged
=============================================================================
