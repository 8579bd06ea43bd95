---------------------------- MODULE Invitations ----------------------------
(***************************************************************************)
(* The invitations of one project and the messages about them:             *)
(* invitations.ts, contact-preferences.ts and outbox.ts's queueMessage.    *)
(*                                                                         *)
(* Requests of operators and experts commit statement by statement, and    *)
(* one that dies leaves what it wrote so far.  The worker's jobs (send,    *)
(* remind, expire) run in one transaction each, which ends with the job's  *)
(* own completion: what they write is invisible until then, the rows they  *)
(* updated stay locked until then, and a worker that dies leaves nothing   *)
(* behind and the job to be run again.  What a job or a request read is    *)
(* kept while others write; what others commit, its next read sees.        *)
(*                                                                         *)
(* The project stays open; when it is not, Staffing and Outreach say what  *)
(* happens.  The clock counts the units the policy of reminders uses.      *)
(***************************************************************************)
EXTENDS Integers, FiniteSets

CONSTANTS
  Experts,
  Workers,
  Sessions,
  TtlHours,           \* response window
  RemindAfterHours,   \* age at which an invitation is chased
  MinHoursRemaining,  \* nearness of the deadline that forbids it
  MaxTime,            \* bound: the clock
  MaxOpenings,        \* bound: openings of one invitation
  MaxCrashes,         \* bound: deaths of workers and of requests
  NoExpert

InvitationStatus == {"NONE", "DRAFT", "SENT", "ACCEPTED", "DECLINED", "EXPIRED", "WITHDRAWN"}
ContactPreference == {"UNKNOWN", "EMAIL_ALL", "EMAIL_ESSENTIAL", "NO_CONTACT"}
Template == {"sent", "reminder", "expired"}

\* What the constants must be; the runs assume it.
InvitationsAssumption ==
  /\ IsFiniteSet(Experts) /\ IsFiniteSet(Workers)
  /\ {TtlHours, RemindAfterHours, MinHoursRemaining, MaxTime, MaxOpenings, MaxCrashes} \subseteq Nat
  /\ NoExpert \notin Experts

VARIABLES
  now,
  preference,  \* Expert.contactPreference
  invitation,  \* the invitation row of each expert
  sendJobs,    \* invitation.send jobs not completed, by expert
  worker,      \* the job each worker is running
  session,     \* the request each session is serving
  mail,        \* outbox rows, by expert and template
  opened,      \* history: times the invitation was created or reopened
  sends,       \* history: times it was marked SENT
  ended,       \* history: times it was answered, withdrawn or expired
  late,        \* history: workers whose addressee answered anew after they asked
  against,     \* history: experts written to against what they had said
  stranded,    \* history: experts whose draft was left without a job
  crashes

rows == <<preference, invitation, sendJobs>>
history == <<mail, opened, sends, ended, late, against, stranded>>
vars == <<now, rows, worker, session, history, crashes>>

INVITATION_TRANSITIONS ==
  [NONE      |-> {},
   DRAFT     |-> {"SENT", "WITHDRAWN"},
   SENT      |-> {"ACCEPTED", "DECLINED", "EXPIRED", "WITHDRAWN"},
   ACCEPTED  |-> {},
   DECLINED  |-> {"DRAFT"},
   EXPIRED   |-> {"DRAFT"},
   WITHDRAWN |-> {"DRAFT"}]

Blocking == {"DRAFT", "SENT", "ACCEPTED"}

NoRow == [status |-> "NONE", sentAt |-> 0, expiresAt |-> 0, reminded |-> FALSE]
IdleWorker == [at |-> "idle", todo |-> {}, claimed |-> {}, allowed |-> {},
               due |-> {}, may |-> {}, out |-> {}]
IdleSession == [at |-> "idle", e |-> NoExpert, seen |-> "NONE"]

TypeOK ==
  /\ now \in 0 .. MaxTime
  /\ preference \in [Experts -> ContactPreference]
  /\ invitation \in [Experts -> [status : InvitationStatus, sentAt : Nat,
                                 expiresAt : Nat, reminded : BOOLEAN]]
  \* A draft carries nothing over from an earlier opening.
  /\ \A e \in Experts : invitation[e].status = "DRAFT" =>
       ~invitation[e].reminded /\ invitation[e].sentAt = 0
  /\ sendJobs \in [Experts -> Nat]
  /\ worker \in [Workers -> [at : {"idle", "send", "remind", "expire"},
       todo : SUBSET Experts, claimed : SUBSET Experts, allowed : SUBSET Experts,
       due : SUBSET Experts, may : SUBSET Experts, out : SUBSET Experts]]
  /\ session \in [Sessions -> [at : {"idle", "create", "queue", "answer"},
       e : Experts \cup {NoExpert}, seen : InvitationStatus]]
  /\ mail \in [Experts -> [Template -> Nat]]
  /\ {opened, sends, ended} \subseteq [Experts -> Nat]
  /\ late \subseteq Workers /\ {against, stranded} \subseteq SUBSET Experts
  /\ crashes \in 0 .. MaxCrashes

Init ==
  /\ now = 0
  /\ preference \in [Experts -> {"UNKNOWN", "EMAIL_ALL"}]
  /\ invitation = [e \in Experts |-> NoRow]
  /\ sendJobs = [e \in Experts |-> 0]
  /\ worker = [w \in Workers |-> IdleWorker]
  /\ session = [s \in Sessions |-> IdleSession]
  /\ mail = [e \in Experts |-> [t \in Template |-> 0]]
  /\ opened = [e \in Experts |-> 0]
  /\ sends = [e \in Experts |-> 0]
  /\ ended = [e \in Experts |-> 0]
  /\ late = {} /\ against = {} /\ stranded = {}
  /\ crashes = 0

-----------------------------------------------------------------------------
\* A row is locked by the job that updated it and has not committed.
Unlocked(e) == \A w \in Workers : e \notin worker[w].claimed

Serves(s, r) == session' = [session EXCEPT ![s] = r]
Runs(w, r)   == worker' = [worker EXCEPT ![w] = r]

\* mayContact.
MayContact(p, kind) ==
  CASE p = "NO_CONTACT" -> FALSE
    [] kind = "OPERATIONAL" -> TRUE
    [] OTHER -> p = "EMAIL_ALL"

\* Experts to whom a message of this kind may be written at this moment.
Reachable(kind) == {e \in Experts : MayContact(preference[e], kind)}

-----------------------------------------------------------------------------
(***************************************************************************)
(* Requests.                                                               *)
(***************************************************************************)

\* createInvitation reads the row: an open or accepted one blocks it ...
CreateRead(s, e) ==
  /\ session[s].at = "idle"
  /\ invitation[e].status \notin Blocking
  /\ opened[e] < MaxOpenings
  /\ Serves(s, [at |-> "create", e |-> e, seen |-> invitation[e].status])
  /\ UNCHANGED <<now, rows, worker, history, crashes>>

\* Mutant of Reopened: only the status and the deadline are set.
ReopenedAsIs(row) == [row EXCEPT !.status = "DRAFT", !.expiresAt = now + TtlHours]

\* The row as it is created, and as an old one is reopened.
Reopened(row) == [NoRow EXCEPT !.status = "DRAFT", !.expiresAt = now + TtlHours]

\* ... creates it, unless the unique index objects, or reopens it by id ...
CreateWrite(s) ==
  /\ session[s].at = "create"
  /\ LET e == session[s].e
         conflict == session[s].seen = "NONE" /\ invitation[e].status # "NONE"
     IN /\ Unlocked(e)
        /\ IF conflict \/ opened[e] = MaxOpenings
           THEN UNCHANGED <<invitation, opened, stranded>> /\ Serves(s, IdleSession)
           ELSE /\ invitation' = [invitation EXCEPT ![e] = Reopened(@)]
                /\ opened' = [opened EXCEPT ![e] = @ + 1]
                /\ stranded' = stranded \ {e}
                /\ Serves(s, [at |-> "queue", e |-> e, seen |-> "NONE"])
  /\ UNCHANGED <<now, preference, sendJobs, worker, mail, sends, ended, late, against, crashes>>

\* ... and queues its sending, under a key of its own ...
ScheduleSend(s) ==
  /\ session[s].at = "queue"
  /\ sendJobs' = [sendJobs EXCEPT ![session[s].e] = @ + 1]
  /\ Serves(s, IdleSession)
  /\ UNCHANGED <<now, preference, invitation, worker, history, crashes>>

\* ... or dies before (a request that dies earlier leaves nothing): the draft stays
\* as it is, and blocks another invitation of the same expert until it is withdrawn.
CreateDies(s) ==
  /\ session[s].at = "queue" /\ crashes < MaxCrashes
  /\ crashes' = crashes + 1
  /\ stranded' = stranded \cup {session[s].e}
  /\ Serves(s, IdleSession)
  /\ UNCHANGED <<now, rows, worker, mail, opened, sends, ended, late, against>>

\* The invitation ends; it is read before and claimed by its status.
Ends(e, to) ==
  /\ invitation' = [invitation EXCEPT ![e].status = to]
  /\ ended' = [ended EXCEPT ![e] = @ + 1]

\* respondToInvitation: SENT, before the deadline ...
AnswerRead(s, e) ==
  /\ session[s].at = "idle"
  /\ invitation[e].status = "SENT" /\ now < invitation[e].expiresAt
  /\ \E to \in {"ACCEPTED", "DECLINED"} : Serves(s, [at |-> "answer", e |-> e, seen |-> to])
  /\ UNCHANGED <<now, rows, worker, history, crashes>>

\* Mutant of AnswerWrite: the answer is written by id.
AnswerById(s) ==
  /\ session[s].at = "answer" /\ Unlocked(session[s].e)
  /\ Ends(session[s].e, session[s].seen)
  /\ Serves(s, IdleSession)
  /\ UNCHANGED <<now, preference, sendJobs, worker, mail, opened, sends, late, against, stranded, crashes>>

\* ... and claimed: an error when it is no longer SENT.
AnswerWrite(s) ==
  /\ session[s].at = "answer" /\ Unlocked(session[s].e)
  /\ LET e == session[s].e IN
       IF invitation[e].status = "SENT" THEN Ends(e, session[s].seen)
       ELSE UNCHANGED <<invitation, ended>>
  /\ Serves(s, IdleSession)
  /\ UNCHANGED <<now, preference, sendJobs, worker, mail, opened, sends, late, against, stranded, crashes>>

\* withdrawInvitation.
WithdrawInvitation(e) ==
  /\ invitation[e].status \in {"DRAFT", "SENT"} /\ Unlocked(e)
  /\ Ends(e, "WITHDRAWN")
  /\ UNCHANGED <<now, preference, sendJobs, worker, session, mail, opened, sends, late, against, stranded, crashes>>

\* setContactPreference: any but "not asked yet".
SetContactPreference(e, p) ==
  /\ p # "UNKNOWN" /\ preference[e] # p
  /\ preference' = [preference EXCEPT ![e] = p]
  /\ late' = late \cup {w \in Workers : e \in worker[w].may}
  /\ UNCHANGED <<now, invitation, sendJobs, worker, session, mail, opened, sends, ended,
                 against, stranded, crashes>>

-----------------------------------------------------------------------------
(***************************************************************************)
(* Jobs.                                                                   *)
(***************************************************************************)

\* What a job writes, by the policy of contacts, is a reminder or operational.
Kind(w) == IF worker[w].at = "remind" THEN "REMINDER" ELSE "OPERATIONAL"

\* Mutant of Permitted: the preference as the job loaded it.
PermittedAsLoaded(w, e) == e \in worker[w].allowed

\* queueExpertMessage's own reading of the preference.
Permitted(w, e) == e \in Reachable(Kind(w))

\* queueExpertMessage: the preference is read again for every message ...
AskPreference(w) ==
  /\ \E e \in worker[w].due :
       Runs(w, [worker[w] EXCEPT !.due = {}, !.may = IF Permitted(w, e) THEN {e} ELSE {}])
  /\ UNCHANGED <<now, rows, session, history, crashes>>

\* ... and the message written in a later statement, whatever was said since.
QueueMessage(w) ==
  /\ worker[w].may # {}
  /\ Runs(w, [worker[w] EXCEPT !.may = {}, !.out = @ \cup worker[w].may])
  /\ against' = IF w \in late THEN against
                ELSE against \cup (worker[w].may \ Reachable(Kind(w)))
  /\ late' = late \ {w}
  /\ UNCHANGED <<now, rows, session, mail, opened, sends, ended, stranded, crashes>>

\* No message of this job waits to be written.
Written(w) == worker[w].due = {} /\ worker[w].may = {}

\* The messages of a job become visible with its commit.
Posts(w, template) ==
  mail' = [e \in Experts |-> IF e \in worker[w].out
                             THEN [mail[e] EXCEPT ![template] = @ + 1] ELSE mail[e]]

\* Mutant of SendRead: nothing is marked for somebody who may not be written to.
SendReadReachable(w, e) ==
  /\ worker[w].at = "idle"
  /\ Cardinality({x \in Workers : worker[x].at = "send" /\ worker[x].todo = {e}}) < sendJobs[e]
  /\ IF invitation[e].status = "DRAFT" /\ e \in Reachable("OPERATIONAL")
     THEN /\ Runs(w, [IdleWorker EXCEPT !.at = "send", !.todo = {e}, !.due = {e}])
          /\ UNCHANGED sendJobs
     ELSE /\ sendJobs' = [sendJobs EXCEPT ![e] = @ - 1]
          /\ UNCHANGED worker
  /\ UNCHANGED <<now, preference, invitation, session, history, crashes>>

\* sendInvitation: a DRAFT is read, and its letter written before it is claimed.
SendRead(w, e) ==
  /\ worker[w].at = "idle"
  /\ Cardinality({x \in Workers : worker[x].at = "send" /\ worker[x].todo = {e}}) < sendJobs[e]
  /\ IF invitation[e].status = "DRAFT"
     THEN /\ Runs(w, [IdleWorker EXCEPT !.at = "send", !.todo = {e}, !.due = {e}])
          /\ UNCHANGED sendJobs
     ELSE /\ sendJobs' = [sendJobs EXCEPT ![e] = @ - 1]
          /\ UNCHANGED worker
  /\ UNCHANGED <<now, preference, invitation, session, history, crashes>>

\* Mutant of SendCommit: the row is marked by id.
SendById(w) ==
  /\ worker[w].at = "send" /\ Written(w)
  /\ \E e \in worker[w].todo :
       /\ Unlocked(e)
       /\ invitation' = [invitation EXCEPT ![e].status = "SENT", ![e].sentAt = now]
       /\ sends' = [sends EXCEPT ![e] = @ + 1]
       /\ sendJobs' = [sendJobs EXCEPT ![e] = @ - 1]
  /\ Posts(w, "sent")
  /\ Runs(w, IdleWorker)
  /\ UNCHANGED <<now, preference, session, opened, ended, late, against, stranded, crashes>>

\* The claim and the commit; a claim that fails keeps the letter.
SendCommit(w) ==
  /\ worker[w].at = "send" /\ Written(w)
  /\ \E e \in worker[w].todo :
       /\ Unlocked(e)
       /\ IF invitation[e].status = "DRAFT"
          THEN /\ invitation' = [invitation EXCEPT ![e].status = "SENT", ![e].sentAt = now]
               /\ sends' = [sends EXCEPT ![e] = @ + 1]
          ELSE UNCHANGED <<invitation, sends>>
       /\ sendJobs' = [sendJobs EXCEPT ![e] = @ - 1]
  /\ Posts(w, "sent")
  /\ Runs(w, IdleWorker)
  /\ UNCHANGED <<now, preference, session, opened, ended, late, against, stranded, crashes>>

\* remindPendingInvitations: who may be chased, as first read ...
Chasable(e) ==
  /\ invitation[e].status = "SENT" /\ ~invitation[e].reminded
  /\ now >= invitation[e].sentAt + RemindAfterHours
  /\ invitation[e].expiresAt > now + MinHoursRemaining

RemindRead(w) ==
  /\ worker[w].at = "idle"
  /\ \E e \in Experts : Chasable(e)
  /\ Runs(w, [IdleWorker EXCEPT !.at = "remind", !.todo = {e \in Experts : Chasable(e)},
                                !.allowed = Reachable("REMINDER")])
  /\ UNCHANGED <<now, rows, session, history, crashes>>

\* Mutant of ClaimsReminder: the claim does not look at remindedAt.
ClaimsAnyReminder(e) == invitation[e].status = "SENT"

ClaimsReminder(e) == invitation[e].status = "SENT" /\ ~invitation[e].reminded

\* ... and one by one: suppressed as loaded, claimed by someone else, or
\* claimed, and his message is due.
RemindOne(w) ==
  /\ worker[w].at = "remind" /\ Written(w)
  /\ \E e \in worker[w].todo :
       /\ Unlocked(e)
       /\ IF e \in worker[w].allowed /\ ClaimsReminder(e)
          THEN Runs(w, [worker[w] EXCEPT !.todo = @ \ {e}, !.claimed = @ \cup {e}, !.due = {e}])
          ELSE Runs(w, [worker[w] EXCEPT !.todo = @ \ {e}])
  /\ UNCHANGED <<now, rows, session, history, crashes>>

RemindCommit(w) ==
  /\ worker[w].at = "remind" /\ worker[w].todo = {} /\ Written(w)
  /\ invitation' = [e \in Experts |-> IF e \in worker[w].claimed
                      THEN [invitation[e] EXCEPT !.reminded = TRUE] ELSE invitation[e]]
  /\ Posts(w, "reminder")
  /\ Runs(w, IdleWorker)
  /\ UNCHANGED <<now, preference, sendJobs, session, opened, sends, ended, late, against, stranded, crashes>>

\* Whether the sweep looks at this invitation now.
Overdue(e) == invitation[e].status = "SENT" /\ invitation[e].expiresAt <= now

\* Mutant of ExpireRead: it skips an invitation that was chased.
ExpireReadUnchased(w) ==
  /\ worker[w].at = "idle"
  /\ \E e \in Experts : Overdue(e) /\ ~invitation[e].reminded
  /\ Runs(w, [IdleWorker EXCEPT !.at = "expire",
                !.todo = {e \in Experts : Overdue(e) /\ ~invitation[e].reminded}])
  /\ UNCHANGED <<now, rows, session, history, crashes>>

\* expireOverdueInvitations: overdue when first read ...
ExpireRead(w) ==
  /\ worker[w].at = "idle"
  /\ \E e \in Experts : Overdue(e)
  /\ Runs(w, [IdleWorker EXCEPT !.at = "expire", !.todo = {e \in Experts : Overdue(e)}])
  /\ UNCHANGED <<now, rows, session, history, crashes>>

ClaimsExpiry(e) == invitation[e].status = "SENT"

\* Mutant of ExpireOne: the letter is written whether or not the claim won.
ExpireOneTold(w) ==
  /\ worker[w].at = "expire" /\ Written(w)
  /\ \E e \in worker[w].todo :
       /\ Unlocked(e)
       /\ Runs(w, [worker[w] EXCEPT !.todo = @ \ {e},
                    !.claimed = IF ClaimsExpiry(e) THEN @ \cup {e} ELSE @, !.due = {e}])
  /\ UNCHANGED <<now, rows, session, history, crashes>>

\* ... and claimed one by one while still SENT.
ExpireOne(w) ==
  /\ worker[w].at = "expire" /\ Written(w)
  /\ \E e \in worker[w].todo :
       /\ Unlocked(e)
       /\ IF ClaimsExpiry(e)
          THEN Runs(w, [worker[w] EXCEPT !.todo = @ \ {e}, !.claimed = @ \cup {e}, !.due = {e}])
          ELSE Runs(w, [worker[w] EXCEPT !.todo = @ \ {e}])
  /\ UNCHANGED <<now, rows, session, history, crashes>>

ExpireCommit(w) ==
  /\ worker[w].at = "expire" /\ worker[w].todo = {} /\ Written(w)
  /\ LET done == worker[w].claimed IN
       /\ invitation' = [e \in Experts |-> IF e \in done
                           THEN [invitation[e] EXCEPT !.status = "EXPIRED"] ELSE invitation[e]]
       /\ ended' = [e \in Experts |-> IF e \in done THEN ended[e] + 1 ELSE ended[e]]
  /\ Posts(w, "expired")
  /\ Runs(w, IdleWorker)
  /\ UNCHANGED <<now, preference, sendJobs, session, opened, sends, late, against, stranded, crashes>>

\* A worker dies: its transaction rolls back and the job waits to be run again.
Crash(w) ==
  /\ worker[w].at # "idle" /\ crashes < MaxCrashes
  /\ crashes' = crashes + 1
  /\ Runs(w, IdleWorker)
  /\ late' = late \ {w}
  /\ UNCHANGED <<now, rows, session, mail, opened, sends, ended, against, stranded>>

Tick == now < MaxTime /\ now' = now + 1 /\ UNCHANGED <<rows, worker, session, history, crashes>>

-----------------------------------------------------------------------------
Job(w) ==
  \/ \E e \in Experts : SendRead(w, e)
  \/ AskPreference(w) \/ QueueMessage(w)
  \/ SendCommit(w)
  \/ RemindRead(w) \/ RemindOne(w) \/ RemindCommit(w)
  \/ ExpireRead(w) \/ ExpireOne(w) \/ ExpireCommit(w)

Request(s) ==
  \/ \E e \in Experts : CreateRead(s, e) \/ AnswerRead(s, e)
  \/ CreateWrite(s) \/ ScheduleSend(s) \/ AnswerWrite(s)

Next ==
  \/ \E w \in Workers : Job(w) \/ Crash(w)
  \/ \E s \in Sessions : Request(s) \/ CreateDies(s)
  \/ \E e \in Experts : \/ WithdrawInvitation(e)
                        \/ \E p \in ContactPreference : SetContactPreference(e, p)
  \/ Tick

Spec == Init /\ [][Next]_vars

\* Time passes, some worker is alive, the schedules keep queueing the jobs, and
\* a request that wrote its row goes on to queue the sending unless it dies.
Fairness ==
  /\ WF_vars(Tick)
  /\ \A w \in Workers : WF_vars(Job(w))
  /\ \A s \in Sessions : WF_vars(ScheduleSend(s))

FairSpec == Spec /\ Fairness

-----------------------------------------------------------------------------
(***************************************************************************)
(* What must hold.                                                         *)
(***************************************************************************)

\* Every opening of an invitation is ended once at most, by the expert, the
\* operator or the deadline, whoever is first (the claims by status of
\* respondToInvitation, withdrawInvitation and expireOverdueInvitations).
EndsOnce == \A e \in Experts : ended[e] <= opened[e]

\* An invitation is chased at most once for each time it was sent, however
\* many workers chase (remindedAt is set by the claiming update).
RemindedOnce == \A e \in Experts : mail[e]["reminder"] <= sends[e]

\* An expert is told of an expiry only for an invitation that did expire, once.
ExpiryTold == \A e \in Experts : mail[e]["expired"] <= ended[e]

\* One end for each opening, one reminder for each sending, one notice for each
\* expiry: the claims by status, taken together.
OnceEach == EndsOnce /\ RemindedOnce /\ ExpiryTold

\* Nobody is written to who had refused before his own message's turn came: what
\* a job loaded, or waited for since, does not matter, and only an answer given
\* between queueExpertMessage's reading and its writing is missed.
PreferenceHonoured == against = {}

\* Whatever a job or a request had read, an invitation moves as the table says
\* or is opened by createInvitation, which writes by id (the status guards of sendInvitation and of the answers).
TransitionsKept ==
  [][\A e \in Experts :
       \/ invitation'[e].status = invitation[e].status
       \/ invitation'[e].status \in INVITATION_TRANSITIONS[invitation[e].status]
       \/ opened'[e] > opened[e]]_vars

\* sendInvitation "safe to call twice": a letter for each time an invitation
\* was sent, and none besides.
OneLetter == \A e \in Experts : mail[e]["sent"] <= sends[e]

\* An accepted invitation stays accepted (INVITATION_TRANSITIONS).
AcceptedStays ==
  [][\A e \in Experts : invitation[e].status = "ACCEPTED" => invitation'[e].status = "ACCEPTED"]_vars

\* An invitation whose deadline has passed does not stay open.
OverdueEnds == \A e \in Experts : Overdue(e) ~> ~Overdue(e)

\* A draft is sent, or withdrawn first, unless the request that was to queue its
\* sending died.
DraftLeaves ==
  \A e \in Experts :
    (invitation[e].status = "DRAFT") ~> (invitation[e].status # "DRAFT" \/ e \in stranded)

\* No invitation lies around, unsent or overdue.
InvitationsSettle == OverdueEnds /\ DraftLeaves
=============================================================================
