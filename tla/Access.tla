------------------------------- MODULE Access -------------------------------
(***************************************************************************)
(* Who gets in: the sign-in of operators with its throttle (auth.ts,       *)
(* login-protection.ts) and the single-use links of the two portals        *)
(* (portal-access.ts, candidate-portal.ts).                                *)
(*                                                                         *)
(* Every request runs statement by statement; other requests and the       *)
(* maintenance sweep come in between, and a request may die.  The window   *)
(* of the throttle is the sequence of the attempts still inside it, and    *)
(* time passes by dropping the oldest one.  All clients share one address. *)
(***************************************************************************)
EXTENDS Integers, FiniteSets, Sequences

CONSTANTS
  Accounts,            \* operators
  Logins,              \* sign-in requests at the same time
  Links,               \* magic links, one owner each
  CandidateLinks,      \* those of the candidate portal
  Redeemers,           \* requests that open a link at the same time
  EMAIL_ATTEMPT_LIMIT,
  IP_ATTEMPT_LIMIT,
  MaxAttempts,         \* bound on the attempts in the window
  MaxRotations         \* bound on the passwords of an account

\* What the constants must be; the runs assume it.
AccessAssumption ==
  /\ IsFiniteSet(Accounts) /\ IsFiniteSet(Logins)
  /\ IsFiniteSet(Links) /\ CandidateLinks \subseteq Links /\ IsFiniteSet(Redeemers)
  /\ {EMAIL_ATTEMPT_LIMIT, IP_ATTEMPT_LIMIT} \subseteq Nat \ {0}
  /\ {MaxAttempts, MaxRotations} \subseteq Nat

VARIABLES
  account,        \* isActive and which password is the right one
  attempts,       \* LoginAttempt rows inside the window, oldest first
  login,          \* what each sign-in request is doing
  operatorSessions, \* Session rows
  link,           \* portal token rows
  owner,          \* the owner of each link may still come in
  redeem,         \* what each redeeming request is doing
  portalSessions  \* history: sessions each link has opened

loginVars == <<account, attempts, login, operatorSessions>>
portalVars == <<link, owner, redeem, portalSessions>>
vars == <<loginVars, portalVars>>

Passwords == 0 .. MaxRotations + 1
Away == [at |-> "idle", email |-> {}, typed |-> 0, ok |-> FALSE]
Absent == [at |-> "idle", link |-> {}]
Attempt == [email : Accounts, ok : BOOLEAN, compared : BOOLEAN]

TypeOK ==
  /\ account \in [Accounts -> [active : BOOLEAN, password : Passwords]]
  /\ attempts \in Seq(Attempt) /\ Len(attempts) <= MaxAttempts
  /\ login \in [Logins -> [at : {"idle", "checked", "compared", "recorded"},
                           email : SUBSET Accounts, typed : Passwords, ok : BOOLEAN]]
  /\ operatorSessions \subseteq
       [user : Accounts, opened : Logins, expired : BOOLEAN]
  /\ link \in [Links -> [used : BOOLEAN, revoked : BOOLEAN, expired : BOOLEAN, gone : BOOLEAN]]
  /\ owner \in [Links -> {"IN", "CLOSED", "OUT"}]
  /\ redeem \in [Redeemers -> [at : {"idle", "read", "claimed"}, link : SUBSET Links]]
  /\ portalSessions \in [Links -> Nat]

Init ==
  /\ account = [u \in Accounts |-> [active |-> TRUE, password |-> 1]]
  /\ attempts = <<>>
  /\ login = [l \in Logins |-> Away]
  /\ operatorSessions = {}
  /\ link = [k \in Links |-> [used |-> FALSE, revoked |-> FALSE, expired |-> FALSE, gone |-> FALSE]]
  /\ owner = [k \in Links |-> "IN"]
  /\ redeem = [r \in Redeemers |-> Absent]
  /\ portalSessions = [k \in Links |-> 0]

-----------------------------------------------------------------------------
(***************************************************************************)
(* Signing in.                                                             *)
(***************************************************************************)

Failures(u) == {i \in DOMAIN attempts : attempts[i].email = u /\ ~attempts[i].ok}
Successes(u) == {i \in DOMAIN attempts : attempts[i].email = u /\ attempts[i].ok}

\* Failures of an address since it last signed in.
EmailFailures(u) ==
  Cardinality({i \in Failures(u) : \A j \in Successes(u) : j < i})

\* Failures of the client, which a success does not clear.
IpFailures == Cardinality({i \in DOMAIN attempts : ~attempts[i].ok})

\* Mutant of Locked: one failure too many is let through.
LockedLate(u) == EmailFailures(u) > EMAIL_ATTEMPT_LIMIT \/ IpFailures >= IP_ATTEMPT_LIMIT

\* lockoutState.
Locked(u) == EmailFailures(u) >= EMAIL_ATTEMPT_LIMIT \/ IpFailures >= IP_ATTEMPT_LIMIT

\* recordAttempt; the bound is on the attempts of one window.
Records(u, succeeded, compares) ==
  /\ Len(attempts) < MaxAttempts
  /\ attempts' = Append(attempts, [email |-> u, ok |-> succeeded, compared |-> compares])

\* login: a caller who failed too often is refused before anything is compared,
\* and the refusal counts as a failure too.
LoginCheck(l, u, typed) ==
  /\ login[l].at = "idle"
  /\ IF Locked(u)
     THEN Records(u, FALSE, FALSE) /\ UNCHANGED login
     ELSE /\ login' = [login EXCEPT ![l] = [Away EXCEPT !.at = "checked", !.email = {u}, !.typed = typed]]
          /\ UNCHANGED attempts
  /\ UNCHANGED <<account, operatorSessions, portalVars>>

\* The account is read and its password compared.
LoginCompare(l) ==
  /\ login[l].at = "checked"
  /\ \E u \in login[l].email :
       login' = [login EXCEPT ![l].at = "compared",
                              ![l].ok = account[u].active /\ account[u].password = login[l].typed]
  /\ UNCHANGED <<account, attempts, operatorSessions, portalVars>>

\* The outcome is recorded, whatever it is ...
LoginRecord(l) ==
  /\ login[l].at = "compared"
  /\ \E u \in login[l].email : Records(u, login[l].ok, TRUE)
  /\ login' = [login EXCEPT ![l] = IF @.ok THEN [@ EXCEPT !.at = "recorded"] ELSE Away]
  /\ UNCHANGED <<account, operatorSessions, portalVars>>

\* ... and the session created.
LoginSession(l) ==
  /\ login[l].at = "recorded"
  /\ \E u \in login[l].email :
       operatorSessions' = operatorSessions \cup
         {[user |-> u, opened |-> l, expired |-> FALSE]}
  /\ login' = [login EXCEPT ![l] = Away]
  /\ UNCHANGED <<account, attempts, portalVars>>

\* The oldest attempt leaves the window.
WindowPasses ==
  /\ attempts # <<>>
  /\ attempts' = Tail(attempts)
  /\ UNCHANGED <<account, login, operatorSessions, portalVars>>

\* logout.
Logout(s) ==
  /\ operatorSessions' = operatorSessions \ {s}
  /\ UNCHANGED <<account, attempts, login, portalVars>>

\* revokeSessionsFor.
SessionsWithout(u) == {s \in operatorSessions : s.user # u}

RevokeSessionsFor(u) ==
  /\ operatorSessions' = SessionsWithout(u)
  /\ UNCHANGED <<account, attempts, login, portalVars>>

\* rotateOperatorPassword, one transaction.
RotateOperatorPassword(u) ==
  /\ account[u].password <= MaxRotations
  /\ account' = [account EXCEPT ![u].password = @ + 1]
  /\ operatorSessions' = SessionsWithout(u)
  /\ UNCHANGED <<attempts, login, portalVars>>

\* deactivateOperator: the flag, then RevokeSessionsFor in a step of its own.
DeactivateOperator(u) ==
  /\ account[u].active
  /\ account' = [account EXCEPT ![u].active = FALSE]
  /\ UNCHANGED <<attempts, login, operatorSessions, portalVars>>

SessionExpires(s) ==
  /\ ~s.expired
  /\ operatorSessions' = (operatorSessions \ {s}) \cup {[s EXCEPT !.expired = TRUE]}
  /\ UNCHANGED <<account, attempts, login, portalVars>>

\* resolveSession deletes the expired session it meets, purgeExpiredSessions
\* every one.
PurgeExpiredSessions ==
  /\ \E s \in operatorSessions : s.expired
  /\ operatorSessions' = {s \in operatorSessions : ~s.expired}
  /\ UNCHANGED <<account, attempts, login, portalVars>>

\* resolveSession: whom a session lets in.
Resolves(s) == ~s.expired /\ account[s.user].active

-----------------------------------------------------------------------------
(***************************************************************************)
(* The portals.                                                            *)
(***************************************************************************)

\* redeemPortalToken, redeemCandidateToken: the checks.  A candidate whose
\* application is CLOSED is refused, an expert has no such state.
Redeemable(k) ==
  /\ ~link[k].gone /\ ~link[k].revoked /\ ~link[k].used /\ ~link[k].expired
  /\ IF k \in CandidateLinks THEN owner[k] = "IN" ELSE owner[k] # "OUT"

RedeemRead(r, k) ==
  /\ redeem[r].at = "idle" /\ Redeemable(k)
  /\ redeem' = [redeem EXCEPT ![r] = [at |-> "read", link |-> {k}]]
  /\ UNCHANGED <<loginVars, link, owner, portalSessions>>

\* Mutant of ClaimsLink: what was read is good enough.
ClaimsReadLink(k) == ~link[k].gone

\* Mutant of ClaimsLink: the claim forgets that a link may be revoked.
ClaimsUnusedLink(k) == ~link[k].gone /\ ~link[k].used

\* Whether the claim finds the row; it does not look at the expiry again.
ClaimsLink(k) == ~link[k].gone /\ ~link[k].used /\ ~link[k].revoked

RedeemClaim(r) ==
  /\ redeem[r].at = "read"
  /\ \E k \in redeem[r].link :
       IF ClaimsLink(k)
       THEN /\ link' = [link EXCEPT ![k].used = TRUE]
            /\ redeem' = [redeem EXCEPT ![r].at = "claimed"]
       ELSE redeem' = [redeem EXCEPT ![r] = Absent] /\ UNCHANGED link
  /\ UNCHANGED <<loginVars, owner, portalSessions>>

\* The session is created in a statement of its own.
RedeemSession(r) ==
  /\ redeem[r].at = "claimed"
  /\ \E k \in redeem[r].link : portalSessions' = [portalSessions EXCEPT ![k] = @ + 1]
  /\ redeem' = [redeem EXCEPT ![r] = Absent]
  /\ UNCHANGED <<loginVars, link, owner>>

\* The request dies; a link it claimed is burnt.
RedeemDies(r) ==
  /\ redeem[r].at # "idle"
  /\ redeem' = [redeem EXCEPT ![r] = Absent]
  /\ UNCHANGED <<loginVars, link, owner, portalSessions>>

LinkExpires(k) ==
  /\ ~link[k].expired
  /\ link' = [link EXCEPT ![k].expired = TRUE]
  /\ UNCHANGED <<loginVars, owner, redeem, portalSessions>>

\* revokePortalTokens; nothing revokes the links of candidates.
RevokePortalTokens(k) ==
  /\ k \notin CandidateLinks
  /\ ~link[k].gone /\ ~link[k].used /\ ~link[k].revoked
  /\ link' = [link EXCEPT ![k].revoked = TRUE]
  /\ UNCHANGED <<loginVars, owner, redeem, portalSessions>>

\* maintenance.sweep drops the expired links nobody used.
PurgeTokens ==
  /\ \E k \in Links : link[k].expired /\ ~link[k].used /\ ~link[k].gone
  /\ link' = [k \in Links |-> IF link[k].expired /\ ~link[k].used
                              THEN [link[k] EXCEPT !.gone = TRUE] ELSE link[k]]
  /\ UNCHANGED <<loginVars, owner, redeem, portalSessions>>

\* The owner's application is closed, or the owner is archived or opts out.
OwnerLeaves(k) ==
  /\ owner[k] # "OUT"
  /\ \/ k \in CandidateLinks /\ owner[k] = "IN" /\ owner' = [owner EXCEPT ![k] = "CLOSED"]
     \/ owner' = [owner EXCEPT ![k] = "OUT"]
  /\ UNCHANGED <<loginVars, link, redeem, portalSessions>>

SignInNext ==
  \/ \E l \in Logins :
       \/ \E u \in Accounts, typed \in Passwords : LoginCheck(l, u, typed)
       \/ LoginCompare(l) \/ LoginRecord(l) \/ LoginSession(l)
  \/ \E u \in Accounts : RotateOperatorPassword(u) \/ DeactivateOperator(u) \/ RevokeSessionsFor(u)
  \/ \E s \in operatorSessions : Logout(s) \/ SessionExpires(s)
  \/ WindowPasses \/ PurgeExpiredSessions

PortalNext ==
  \/ \E r \in Redeemers :
       RedeemClaim(r) \/ RedeemSession(r) \/ RedeemDies(r) \/ \E k \in Links : RedeemRead(r, k)
  \/ \E k \in Links : LinkExpires(k) \/ RevokePortalTokens(k) \/ OwnerLeaves(k)
  \/ PurgeTokens

\* The two halves share no state.
Next == SignInNext \/ PortalNext

Spec == Init /\ [][Next]_vars

-----------------------------------------------------------------------------
(***************************************************************************)
(* What must hold.                                                         *)
(***************************************************************************)

\* The limit holds against requests that race each other: within a window, and
\* between two successes, passwords of one address are compared in vain at most
\* as often as the limit allows, plus once for each other request under way.
Throttled ==
  \A u \in Accounts :
    Cardinality({i \in Failures(u) : attempts[i].compared /\ \A j \in Successes(u) : j < i})
      <= EMAIL_ATTEMPT_LIMIT + Cardinality(Logins) - 1

\* A link opens one session, however many requests open it at once.
OneSessionPerLink == \A k \in Links : portalSessions[k] <= 1

\* A link is revoked or used, never both: nobody comes in by a link that was
\* revoked while they were opening it.
RevokedStaysShut == \A k \in Links : ~(link[k].used /\ link[k].revoked)

\* A portal link lets in one session, and none once it is revoked.
LinksHold == OneSessionPerLink /\ RevokedStaysShut
=============================================================================
