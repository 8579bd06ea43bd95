------------------------------ MODULE Rubrics ------------------------------
(***************************************************************************)
(* The versions of one screening rubric (screening.ts), the bar projects   *)
(* set with them and the qualifications one expert holds against them      *)
(* (qualifications.ts).  Requests commit statement by statement and keep   *)
(* what they read.  A version is granted at most once to an expert         *)
(* (Qualification's unique index), so a qualification is known by its      *)
(* version.                                                                *)
(***************************************************************************)
EXTENDS Integers, FiniteSets

CONSTANTS
  Editors,      \* sessions
  Alongside,    \* {c, d} is in it if a call of c may overlap with one of d
  Projects,
  MaxVersion,   \* bound: versions of the rubric
  MaxEditions,  \* bound: times criteria are written
  EditorsMayDie

Tasks == {"draft", "edit", "publish", "require", "revoke", "rereview"}

\* What the constants must be; the runs assume it.
RubricsAssumption ==
  /\ Alongside \subseteq SUBSET Tasks
  /\ {MaxVersion, MaxEditions} \subseteq Nat
  /\ EditorsMayDie \in BOOLEAN

Versions == 1 .. MaxVersion

VARIABLES
  rubric,        \* the ScreeningRubricVersion rows; criteria: which edition, 0 for none
  bar,           \* the version each project requires, 0 for none
  qualification, \* Qualification.status, by version
  editor,        \* what each session is doing
  editions,      \* times criteria were written
  excused,       \* history: granted or upheld since a bar above them was set
  lost           \* history: a call that set a bar was cut short

books == <<rubric, bar, qualification>>
vars == <<books, editor, editions, excused, lost>>

Free == [at |-> "idle", does |-> "none", v |-> 0, p |-> 0, todo |-> {}]

TypeOK ==
  /\ rubric \in [Versions -> [status : {"NONE", "DRAFT", "PUBLISHED"}, criteria : 0 .. MaxEditions]]
  /\ bar \in [Projects -> 0 .. MaxVersion]
  /\ qualification \in [Versions -> {"NONE", "ACTIVE", "NEEDS_REREVIEW", "SUPERSEDED", "REVOKED"}]
  /\ editions \in 0 .. MaxEditions
  /\ excused \subseteq Versions /\ lost \in BOOLEAN
  /\ \A x \in Editors : editor[x].does \in Tasks \cup {"none"}

Init ==
  /\ rubric = [v \in Versions |-> [status |-> "NONE", criteria |-> 0]]
  /\ bar = [p \in Projects |-> 0]
  /\ qualification = [v \in Versions |-> "NONE"]
  /\ editor = [x \in Editors |-> Free]
  /\ editions = 0 /\ excused = {} /\ lost = FALSE

-----------------------------------------------------------------------------
Engaged(x) == editor[x].at # "idle"

TakesUp(x, does, s) ==
  /\ ~Engaged(x)
  /\ \A y \in Editors \ {x} : Engaged(y) => {does, editor[y].does} \in Alongside
  /\ editor' = [editor EXCEPT ![x] = [s EXCEPT !.does = does]]

On(x, does, at) == editor[x].does = does /\ editor[x].at = at
GoesOn(x, at) == editor' = [editor EXCEPT ![x].at = at]
Leaves(x) == editor' = [editor EXCEPT ![x] = Free]

EditorDies(x) ==
  /\ EditorsMayDie /\ Engaged(x)
  /\ lost' = (lost \/ editor[x].does = "require")
  /\ Leaves(x)
  /\ UNCHANGED <<books, editions, excused>>

Status(v) == rubric[v].status
Used == {v \in Versions : Status(v) # "NONE"}
LatestVersion == Cardinality(Used)

-----------------------------------------------------------------------------
(***************************************************************************)
(* Versions.                                                               *)
(***************************************************************************)

\* createDraftVersion: the latest version is no draft ...
DraftRead(x) ==
  /\ LatestVersion < MaxVersion
  /\ \A v \in Used : v = LatestVersion => Status(v) # "DRAFT"
  /\ TakesUp(x, "draft", [Free EXCEPT !.at = "create", !.v = LatestVersion + 1])
  /\ UNCHANGED <<books, editions, excused, lost>>

\* Mutant of NextVersion: numbered when written, not when read.
NextVersionNow(x) == LatestVersion + 1

NextVersion(x) == editor[x].v

\* ... and the next one is created with its criteria, unless it exists (the
\* template and the version are unique).
DraftWrite(x) ==
  /\ On(x, "draft", "create")
  /\ LET v == NextVersion(x)
     IN IF v \in Versions /\ v \notin Used /\ editions < MaxEditions
        THEN /\ rubric' = [rubric EXCEPT ![v] = [status |-> "DRAFT", criteria |-> editions + 1]]
             /\ editions' = editions + 1
        ELSE UNCHANGED <<rubric, editions>>
  /\ Leaves(x)
  /\ UNCHANGED <<bar, qualification, excused, lost>>

\* updateDraftVersion: a draft; its criteria are deleted ...
EditRead(x, v) ==
  /\ Status(v) = "DRAFT" /\ editions < MaxEditions
  /\ TakesUp(x, "edit", [Free EXCEPT !.at = "delete", !.v = v])
  /\ UNCHANGED <<books, editions, excused, lost>>

EditDelete(x) ==
  /\ On(x, "edit", "delete")
  /\ rubric' = [rubric EXCEPT ![editor[x].v].criteria = 0]
  /\ GoesOn(x, "create")
  /\ UNCHANGED <<bar, qualification, editions, excused, lost>>

\* ... and written anew.
EditCreate(x) ==
  /\ On(x, "edit", "create")
  /\ IF editions < MaxEditions
     THEN /\ rubric' = [rubric EXCEPT ![editor[x].v].criteria = editions + 1]
          /\ editions' = editions + 1
     ELSE UNCHANGED <<rubric, editions>>
  /\ Leaves(x)
  /\ UNCHANGED <<bar, qualification, excused, lost>>

\* Mutant of Publishable: the criteria are not looked at.
PublishableEmpty(v) == Status(v) = "DRAFT"

\* publishVersion: a draft with criteria ...
Publishable(v) == Status(v) = "DRAFT" /\ rubric[v].criteria # 0

PublishRead(x, v) ==
  /\ Publishable(v)
  /\ TakesUp(x, "publish", [Free EXCEPT !.at = "claim", !.v = v])
  /\ UNCHANGED <<books, editions, excused, lost>>

\* ... is claimed while it is one.
PublishClaim(x) ==
  /\ On(x, "publish", "claim")
  /\ rubric' = IF Status(editor[x].v) = "DRAFT"
               THEN [rubric EXCEPT ![editor[x].v].status = "PUBLISHED"] ELSE rubric
  /\ Leaves(x)
  /\ UNCHANGED <<bar, qualification, editions, excused, lost>>

-----------------------------------------------------------------------------
(***************************************************************************)
(* Qualifications and the bar.                                             *)
(***************************************************************************)

\* grantQualification, against the published version the screening used.
Grant(v) ==
  /\ Status(v) = "PUBLISHED" /\ qualification[v] = "NONE"
  /\ qualification' = [qualification EXCEPT ![v] = "ACTIVE"]
  /\ excused' = excused \cup {v}
  /\ UNCHANGED <<rubric, bar, editor, editions, lost>>

\* setProjectQualificationRequirement, with a published version: the bar,
RequireWrite(x, p, v) ==
  /\ Status(v) = "PUBLISHED"
  /\ bar' = [bar EXCEPT ![p] = v]
  /\ excused' = excused \ 1 .. (v - 1)
  /\ TakesUp(x, "require", [Free EXCEPT !.at = "find", !.v = v, !.p = p])
  /\ UNCHANGED <<rubric, qualification, editions, lost>>

\* Mutant of BelowBar: only the version just below.
BelowBarNext(v) == {u \in Versions : u = v - 1 /\ qualification[u] = "ACTIVE"}

\* whoever is qualified below it,
BelowBar(v) == {u \in Versions : u < v /\ qualification[u] = "ACTIVE"}

RequireFind(x) ==
  /\ On(x, "require", "find")
  /\ LET found == BelowBar(editor[x].v)
     IN IF found = {} THEN Leaves(x)
        ELSE editor' = [editor EXCEPT ![x].todo = found, ![x].at = "flag"]
  /\ UNCHANGED <<books, editions, excused, lost>>

\* is flagged for a human, one by one and by id.
RequireFlag(x) ==
  /\ On(x, "require", "flag")
  /\ \E v \in editor[x].todo :
       /\ qualification' = [qualification EXCEPT ![v] = "NEEDS_REREVIEW"]
       /\ IF editor[x].todo = {v} THEN Leaves(x)
          ELSE editor' = [editor EXCEPT ![x].todo = @ \ {v}]
  /\ UNCHANGED <<rubric, bar, editions, excused, lost>>

\* Mutant of Rereviewable: any qualification may be looked at again.
RereviewableAny(v) == qualification[v] # "NONE"

Rereviewable(v) == qualification[v] = "NEEDS_REREVIEW"

\* resolveRereview, of what awaits it ...
RereviewRead(x, v) ==
  /\ Rereviewable(v)
  /\ TakesUp(x, "rereview", [Free EXCEPT !.at = "write", !.v = v])
  /\ UNCHANGED <<books, editions, excused, lost>>

\* ... by id: upheld or superseded.
RereviewWrite(x) ==
  /\ On(x, "rereview", "write")
  /\ \E to \in {"ACTIVE", "SUPERSEDED"} : qualification' = [qualification EXCEPT ![editor[x].v] = to]
  /\ excused' = excused \cup {editor[x].v}
  /\ Leaves(x)
  /\ UNCHANGED <<rubric, bar, editions, lost>>

\* revokeQualification, of what is not revoked, by id.
RevokeRead(x, v) ==
  /\ qualification[v] \notin {"NONE", "REVOKED"}
  /\ TakesUp(x, "revoke", [Free EXCEPT !.at = "write", !.v = v])
  /\ UNCHANGED <<books, editions, excused, lost>>

RevokeWrite(x) ==
  /\ On(x, "revoke", "write")
  /\ qualification' = [qualification EXCEPT ![editor[x].v] = "REVOKED"]
  /\ Leaves(x)
  /\ UNCHANGED <<rubric, bar, editions, excused, lost>>

\* checkQualificationEligibility, for a mandatory requirement.
Eligible(p) ==
  bar[p] = 0 \/ \E v \in Versions : v >= bar[p] /\ qualification[v] = "ACTIVE"

-----------------------------------------------------------------------------
EditorStep(x) ==
  \/ \E v \in Versions : EditRead(x, v) \/ PublishRead(x, v) \/ RereviewRead(x, v) \/ RevokeRead(x, v)
  \/ \E p \in Projects, v \in Versions : RequireWrite(x, p, v)
  \/ DraftRead(x) \/ DraftWrite(x) \/ EditDelete(x) \/ EditCreate(x) \/ PublishClaim(x)
  \/ RequireFind(x) \/ RequireFlag(x) \/ RereviewWrite(x) \/ RevokeWrite(x)

Next ==
  \/ \E x \in Editors : EditorStep(x) \/ EditorDies(x)
  \/ \E v \in Versions : Grant(v)

Spec == Init /\ [][Next]_vars

-----------------------------------------------------------------------------
(***************************************************************************)
(* What must hold.                                                         *)
(***************************************************************************)

\* Versions are numbered without gaps, at most the last is a draft, and what is
\* published says what it asks for, though an edit deletes the criteria before
\* it writes them (createDraftVersion, updateDraftVersion, publishVersion).
VersionsSound ==
  /\ Used = 1 .. LatestVersion
  /\ \A v \in Used : Status(v) = "DRAFT" => v = LatestVersion
  /\ \A v \in Used : Status(v) = "PUBLISHED" => rubric[v].criteria # 0

\* "Raising the bar surfaces re-review work": nobody stays qualified below a
\* project's bar without having been flagged, unless granted or upheld by a
\* human since, or the call was cut short; so an expert the project no longer
\* accepts has lost standing visibly (setProjectQualificationRequirement).
BarSurfaces ==
  \A p \in Projects :
    ~lost /\ (\A x \in Editors : editor[x].does # "require") /\ ~Eligible(p) =>
      \A v \in 1 .. (bar[p] - 1) : qualification[v] = "ACTIVE" => v \in excused

\* "Once PUBLISHED, criteria and thresholds never change".
PublishedFixed ==
  [][\A v \in Versions : Status(v) = "PUBLISHED" => rubric'[v] = rubric[v]]_vars

\* What was revoked or superseded is never in force again (revokeQualification,
\* resolveRereview), though every later call writes by id.
RevokedStays ==
  [][\A v \in Versions :
       qualification[v] \in {"REVOKED", "SUPERSEDED"} => qualification'[v] \notin {"ACTIVE", "NEEDS_REREVIEW"}]_vars

RubricsHold == [](VersionsSound /\ BarSurfaces) /\ PublishedFixed /\ RevokedStays
=============================================================================
