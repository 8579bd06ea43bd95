--------------------------- MODULE JobQueueProofs ---------------------------
(***************************************************************************)
(* Proofs about JobQueue, for any number of jobs, workers and operators    *)
(* and any lease, grace and attempt limit.                                 *)
(*                                                                         *)
(* Three inductive invariants, each resting on the one before:             *)
(*   Typed     what the variables hold, and that a running row has used an *)
(*             attempt and a running handler has a claim;                  *)
(*   Fenced    tokens are never shared: the claims workers remember are    *)
(*             pairwise different, older than the next token, and agree    *)
(*             with the row they still own on the attempt they are;        *)
(*   Swept     a row the sweep has read and may still write is at the      *)
(*             attempt the sweep read.                                     *)
(***************************************************************************)
EXTENDS JobQueue, TLAPS

\* A running row has counted its attempt.
Counted == \A j \in Jobs : job[j].status = "RUNNING" => job[j].attempts >= 1

\* A worker whose handler runs, or has thrown, remembers the claim.
HandlerHasClaim ==
  \A w \in Workers : phase[w] \in {"run", "fail"} => current[w] # NoClaim

Typed == TypeOK /\ Counted /\ HandlerHasClaim

LEMMA TypedInit == Init => Typed
<1> SUFFICES ASSUME Init PROVE Typed
  OBVIOUS
<1>1. TypeOK
  BY QueueAssumption DEF Init, TypeOK, Row, NoRow, Status, Open, Phases
<1>2. Counted /\ HandlerHasClaim
  BY DEF Init, Counted, HandlerHasClaim, NoRow
<1> QED
  BY <1>1, <1>2 DEF Typed

\* What clearing a claim does to a row.
LEMMA ReleasedRow ==
  ASSUME NEW r \in Row, NEW s \in Status
  PROVE  /\ Released(r, s) \in Row
         /\ Released(r, s).status = s
         /\ Released(r, s).claim = 0
         /\ Released(r, s).attempts = r.attempts
  BY DEF Released, Row

LEMMA RequeuedRow ==
  ASSUME NEW r \in Row, NEW d \in Int
  PROVE  /\ Requeued(r, d) \in Row
         /\ Requeued(r, d).status = "FAILED"
         /\ Requeued(r, d).claim = 0
         /\ Requeued(r, d).attempts = r.attempts
<1>1. Released(r, "FAILED") \in Row
  BY ReleasedRow DEF Status, Open
<1> QED
  BY <1>1 DEF Requeued, Released, Row, Status, Open

\* What a claim does to a runnable row.
LEMMA ClaimedRows ==
  ASSUME Typed, NEW j \in Jobs, NEW l \in Nat, Runnable(j, l)
  PROVE  /\ ClaimedRow(j, l) \in Row
         /\ ClaimedRow(j, l).status = "RUNNING"
         /\ ClaimedRow(j, l).attempts = job[j].attempts + 1
         /\ ClaimedRow(j, l).claim = minted[j] + 1
         /\ ClaimedRow(j, l).lease = Lease - l
         /\ job[j].attempts + 1 \in 1 .. MaxAttempts
<1>1. job[j] \in Row /\ minted[j] \in Nat /\ Lease \in Nat /\ MaxAttempts \in Nat
  BY QueueAssumption DEF Typed, TypeOK
<1>2. job[j].attempts \in 0 .. MaxAttempts /\ job[j].attempts < MaxAttempts
  BY <1>1 DEF Runnable, Row
<1>3. /\ job[j].attempts + 1 \in 0 .. MaxAttempts
      /\ job[j].attempts + 1 \in 1 .. MaxAttempts
      /\ minted[j] + 1 \in Nat /\ Lease - l \in Int /\ "RUNNING" \in Status
  BY <1>1, <1>2 DEF Status, Open
<1> QED
  BY <1>1, <1>3 DEF ClaimedRow, Row

\* What a failure, a sweep and an operator leave of a row.
LEMMA WrittenRows ==
  ASSUME Typed
  PROVE  /\ NoRow \in Row
         /\ \A c \in Claims, l \in Nat :
              /\ FailedRow(c, l) \in Row
              /\ FailedRow(c, l).status = IF c.attempts >= MaxAttempts THEN "DEAD" ELSE "FAILED"
              /\ FailedRow(c, l).claim = 0
              /\ FailedRow(c, l).attempts = job[c.job].attempts
         /\ \A a \in Candidates, l \in Nat :
              /\ SweptRow(a, l) \in Row
              /\ SweptRow(a, l).status = IF a.attempts >= MaxAttempts THEN "DEAD" ELSE "FAILED"
              /\ SweptRow(a, l).claim = 0
              /\ SweptRow(a, l).attempts = job[a.job].attempts
         /\ \A r \in Requests :
              /\ RequestedRow(r) \in Row
              /\ RequestedRow(r).status = IF r.kind = "retry" THEN "PENDING" ELSE "CANCELLED"
              /\ RequestedRow(r).claim = 0
              /\ r.kind = "retry" => RequestedRow(r).attempts = 0
<1>1. /\ \A j \in Jobs : job[j] \in Row
      /\ MaxAttempts \in Nat \ {0}
      /\ \A n \in 1 .. MaxAttempts, l \in Nat : BackoffSeconds[n] - l \in Int
      /\ "DEAD" \in Status /\ "CANCELLED" \in Status
  BY QueueAssumption DEF Typed, TypeOK, Status, Retryable
<1>2. NoRow \in Row
  BY <1>1 DEF NoRow, Row, Status
<1>3. ASSUME NEW c \in Claims, NEW l \in Nat
      PROVE  /\ FailedRow(c, l) \in Row
             /\ FailedRow(c, l).status = IF c.attempts >= MaxAttempts THEN "DEAD" ELSE "FAILED"
             /\ FailedRow(c, l).claim = 0
             /\ FailedRow(c, l).attempts = job[c.job].attempts
  <2>1. job[c.job] \in Row /\ BackoffSeconds[c.attempts] - l \in Int
    BY <1>1 DEF Claims
  <2>2. CASE c.attempts >= MaxAttempts
    <3>1. FailedRow(c, l) = Released(job[c.job], "DEAD")
      BY <2>2 DEF FailedRow
    <3> QED
      BY <3>1, <2>1, <2>2, <1>1, ReleasedRow
  <2>3. CASE ~(c.attempts >= MaxAttempts)
    <3>1. FailedRow(c, l) = Requeued(job[c.job], BackoffSeconds[c.attempts] - l)
      BY <2>3 DEF FailedRow
    <3> QED
      BY <3>1, <2>1, <2>3, RequeuedRow
  <2> QED
    BY <2>2, <2>3
<1>4. ASSUME NEW a \in Candidates, NEW l \in Nat
      PROVE  /\ SweptRow(a, l) \in Row
             /\ SweptRow(a, l).status = IF a.attempts >= MaxAttempts THEN "DEAD" ELSE "FAILED"
             /\ SweptRow(a, l).claim = 0
             /\ SweptRow(a, l).attempts = job[a.job].attempts
  <2>1. job[a.job] \in Row /\ BackoffSeconds[a.attempts] - l \in Int
    BY <1>1 DEF Candidates
  <2>2. CASE a.attempts >= MaxAttempts
    <3>1. SweptRow(a, l) = Released(job[a.job], "DEAD")
      BY <2>2 DEF SweptRow
    <3> QED
      BY <3>1, <2>1, <2>2, <1>1, ReleasedRow
  <2>3. CASE ~(a.attempts >= MaxAttempts)
    <3>1. SweptRow(a, l) = Requeued(job[a.job], BackoffSeconds[a.attempts] - l)
      BY <2>3 DEF SweptRow
    <3> QED
      BY <3>1, <2>1, <2>3, RequeuedRow
  <2> QED
    BY <2>2, <2>3
<1>5. ASSUME NEW r \in Requests
      PROVE  /\ RequestedRow(r) \in Row
             /\ RequestedRow(r).status = IF r.kind = "retry" THEN "PENDING" ELSE "CANCELLED"
             /\ RequestedRow(r).claim = 0
             /\ r.kind = "retry" => RequestedRow(r).attempts = 0
  <2>1. CASE r.kind = "retry"
    BY <2>1, <1>1 DEF RequestedRow, NoRow, Row, Status, Open
  <2>2. CASE r.kind # "retry"
    BY <2>2, <1>1, ReleasedRow DEF RequestedRow, Requests
  <2> QED
    BY <2>1, <2>2
<1> QED
  BY <1>2, <1>3, <1>4, <1>5

\* Time changes the instants of a row and nothing else.
LEMMA AgedRow ==
  ASSUME NEW r \in Row
  PROVE  /\ Aged(r) \in Row
         /\ Aged(r).status = r.status
         /\ Aged(r).attempts = r.attempts
         /\ Aged(r).claim = r.claim
         /\ Aged(r).lease = IF r.status = "RUNNING" THEN Older(r.lease, LeaseFloor) ELSE r.lease
<1> DEFINE x == IF r.status = "RUNNING" THEN Older(r.lease, LeaseFloor) ELSE r.lease
           d == Older(r.due, -ClaimLag)
<1>1. x \in Int /\ d \in Int
  BY QueueAssumption DEF Older, LeaseFloor, Row
<1>2. Aged(r) = [r EXCEPT !.lease = x, !.due = d]
  BY DEF Aged
<1> HIDE DEF x, d
<1>3. /\ Aged(r) \in Row
      /\ Aged(r).status = r.status
      /\ Aged(r).attempts = r.attempts
      /\ Aged(r).claim = r.claim
      /\ Aged(r).lease = x
  BY <1>1, <1>2 DEF Row
<1> QED
  BY <1>3 DEF x

LEMMA TypedStep == Typed /\ [Next]_vars => Typed'
<1> SUFFICES ASSUME Typed, [Next]_vars
             PROVE  Typed'
  OBVIOUS
<1> USE DEF Typed, TypeOK, Counted, HandlerHasClaim
<1>0. /\ \A j \in Jobs : job[j] \in Row
      /\ \A j \in Jobs : job[j].attempts \in 0 .. MaxAttempts /\ job[j].lease \in Int
      /\ NoClaim \notin Claims /\ NoRequest \notin Requests
      /\ \A w \in Workers : lag[w] \in Nat
      /\ MaxLag \in Nat /\ ClaimLag \in 0 .. MaxLag /\ Lease \in Nat /\ Grace \in Nat
      /\ MaxAbandons \in Nat
  BY QueueAssumption DEF Row
<1>1. ASSUME NEW j \in Jobs, Enqueue(j)
      PROVE  Typed'
  <2>1. [NoRow EXCEPT !.status = "PENDING"] \in Row
    BY WrittenRows DEF NoRow, Row, Status, Open
  <2>2. [NoRow EXCEPT !.status = "PENDING"].status = "PENDING"
    BY DEF NoRow
  <2> QED
    BY <1>1, <2>1, <2>2 DEF Enqueue, workerVars
<1>2. ASSUME NEW j \in Jobs, Prune(j)
      PROVE  Typed'
  <2>1. NoRow \in Row /\ NoRow.status # "RUNNING"
    BY WrittenRows DEF NoRow
  <2> QED
    BY <1>2, <2>1 DEF Prune, workerVars, historyVars
<1>3. ASSUME NEW w \in Workers, Claim(w)
      PROVE  Typed'
  <2>1. PICK l \in 0 .. ClaimLag, S \in SUBSET Jobs :
          /\ \A j \in S : Runnable(j, l)
          /\ job' = [j \in Jobs |-> IF j \in S THEN ClaimedRow(j, l) ELSE job[j]]
          /\ minted' = [j \in Jobs |-> IF j \in S THEN minted[j] + 1 ELSE minted[j]]
          /\ batch' = [batch EXCEPT ![w] =
               {[job |-> j, id |-> minted[j] + 1, attempts |-> job[j].attempts + 1] : j \in S}]
          /\ lag' = [lag EXCEPT ![w] = l]
    BY <1>3 DEF Claim
  <2>2. l \in 0 .. MaxLag /\ l \in Nat
    BY <1>0
  <2>3. \A j \in S : /\ ClaimedRow(j, l) \in Row
                     /\ ClaimedRow(j, l).attempts >= 1
                     /\ job[j].attempts + 1 \in 1 .. MaxAttempts
    BY <2>1, <2>2, <1>0, ClaimedRows
  <2>4. job' \in [Jobs -> Row] /\ minted' \in [Jobs -> Nat] /\ Counted'
    BY <2>1, <2>3
  <2>5. \A j \in S : [job |-> j, id |-> minted[j] + 1, attempts |-> job[j].attempts + 1] \in Claims
    BY <2>3 DEF Claims
  <2>6. batch' \in [Workers -> SUBSET Claims]
    BY <2>1, <2>5
  <2>7. lag' \in [Workers -> 0 .. MaxLag]
    BY <2>1, <2>2
  <2>8. phase' \in [Workers -> Phases] /\ HandlerHasClaim'
    BY <1>3 DEF Claim, Phases
  <2> QED
    BY <1>3, <2>4, <2>6, <2>7, <2>8 DEF Claim, historyVars
<1>4. ASSUME NEW w \in Workers, ClaimNothing(w)
      PROVE  Typed'
  BY <1>4, <1>0 DEF ClaimNothing, historyVars, Phases
<1>5. ASSUME NEW w \in Workers, NEW c \in batch[w], StartJob(w, c)
      PROVE  Typed'
  <2>1. c \in Claims /\ c.job \in Jobs
    BY DEF Claims
  <2>2. /\ [job[c.job] EXCEPT !.lease = Lease] \in Row
        /\ [job[c.job] EXCEPT !.lease = Lease].status = job[c.job].status
        /\ [job[c.job] EXCEPT !.lease = Lease].attempts = job[c.job].attempts
    BY <2>1, <1>0 DEF Row
  <2>3. job' \in [Jobs -> Row] /\ Counted'
    BY <1>5, <2>1, <2>2 DEF StartJob, Renewed
  <2> QED
    BY <1>5, <2>1, <2>3, <1>0 DEF StartJob, historyVars, Phases
<1>6. ASSUME NEW w \in Workers, NEW c \in batch[w], LoseBeforeStart(w, c)
      PROVE  Typed'
  BY <1>6 DEF LoseBeforeStart, historyVars
<1>7. ASSUME NEW w \in Workers, NEW c \in Claims, FailJob(w, c)
      PROVE  job' \in [Jobs -> Row] /\ Counted'
  <2>1. /\ c.job \in Jobs /\ FailedRow(c, lag[w]) \in Row
        /\ FailedRow(c, lag[w]).status # "RUNNING"
    BY <1>0, WrittenRows DEF Claims
  <2> QED
    BY <1>7, <2>1 DEF FailJob
<1>8. ASSUME NEW w \in Workers, NEW c \in batch[w], FailUnhandled(w, c)
      PROVE  Typed'
  <2>1. c \in Claims
    OBVIOUS
  <2> QED
    BY <1>8, <2>1, <1>7 DEF FailUnhandled, historyVars
<1>9. ASSUME NEW w \in Workers, Heartbeat(w)
      PROVE  Typed'
  <2>1. current[w] \in Claims /\ current[w].job \in Jobs
    BY <1>9 DEF Heartbeat, Claims
  <2>2. /\ [job[current[w].job] EXCEPT !.lease = Lease] \in Row
        /\ [job[current[w].job] EXCEPT !.lease = Lease].status = job[current[w].job].status
        /\ [job[current[w].job] EXCEPT !.lease = Lease].attempts = job[current[w].job].attempts
    BY <2>1, <1>0 DEF Row
  <2>3. job' \in [Jobs -> Row] /\ Counted'
    BY <1>9, <2>1, <2>2 DEF Heartbeat, Renewed
  <2> QED
    BY <1>9, <2>3 DEF Heartbeat, workerVars, historyVars
<1>10. ASSUME NEW w \in Workers, Commit(w)
      PROVE  Typed'
  <2>1. current[w] \in Claims /\ current[w].job \in Jobs
    BY <1>10 DEF Commit, Claims
  <2>2. /\ Released(job[current[w].job], "SUCCEEDED") \in Row
        /\ Released(job[current[w].job], "SUCCEEDED").status # "RUNNING"
    BY <2>1, <1>0, ReleasedRow DEF Status
  <2>3. job' \in [Jobs -> Row] /\ Counted'
    BY <1>10, <2>1, <2>2 DEF Commit
  <2>4. effects' \in [Jobs -> Nat]
    BY <1>10, <2>1 DEF Commit
  <2> QED
    BY <1>10, <2>3, <2>4 DEF Commit, NextInBatch, Phases
<1>11. ASSUME NEW w \in Workers, LoseAtCommit(w)
      PROVE  Typed'
  BY <1>11 DEF LoseAtCommit, NextInBatch, historyVars, Phases
<1>12. ASSUME NEW w \in Workers, Throw(w)
      PROVE  Typed'
  BY <1>12 DEF Throw, historyVars, Phases
<1>13. ASSUME NEW w \in Workers, FailCurrent(w)
      PROVE  Typed'
  <2>1. current[w] \in Claims
    BY <1>13 DEF FailCurrent
  <2> QED
    BY <1>13, <2>1, <1>7 DEF FailCurrent, NextInBatch, historyVars, Phases
<1>14. ASSUME NEW w \in Workers, SweepRead(w)
      PROVE  Typed'
  <2>1. {[job |-> j, attempts |-> job[j].attempts] : j \in {i \in Jobs : PastCutoff(i, w)}}
          \in SUBSET Candidates
    BY <1>0 DEF PastCutoff, Candidates
  <2> QED
    BY <1>14, <2>1 DEF SweepRead, historyVars, Phases
<1>15. ASSUME NEW w \in Workers, NEW a \in abandoned[w], SweepWrite(w, a)
      PROVE  Typed'
  <2>1. a \in Candidates
    OBVIOUS
  <2>2. /\ a.job \in Jobs /\ SweptRow(a, lag[w]) \in Row
        /\ SweptRow(a, lag[w]).status # "RUNNING"
    BY <2>1, <1>0, WrittenRows DEF Candidates
  <2>3. job' \in [Jobs -> Row] /\ Counted'
    BY <1>15, <2>2 DEF SweepWrite
  <2> QED
    BY <1>15, <2>3 DEF SweepWrite, historyVars
<1>16. ASSUME NEW w \in Workers, ForgetTick(w)
      PROVE  /\ phase' \in [Workers -> Phases] /\ batch' \in [Workers -> SUBSET Claims]
             /\ current' \in [Workers -> Claims \cup {NoClaim}]
             /\ abandoned' \in [Workers -> SUBSET Candidates]
             /\ lag' \in [Workers -> 0 .. MaxLag] /\ HandlerHasClaim'
  BY <1>16, <1>0 DEF ForgetTick, Phases
<1>17. ASSUME NEW w \in Workers, EndTick(w)
      PROVE  Typed'
  BY <1>17, <1>16 DEF EndTick, historyVars
<1>18. ASSUME NEW w \in Workers, AbandonTick(w)
      PROVE  Typed'
  BY <1>18, <1>16, <1>0 DEF AbandonTick
<1>19. ASSUME NEW o \in Operators, NEW r \in Requests, RequestRead(o, r)
      PROVE  Typed'
  BY <1>19 DEF RequestRead, workerVars, historyVars
<1>20. ASSUME NEW o \in Operators, RequestWrite(o)
      PROVE  Typed'
  <2>1. /\ request[o] \in Requests /\ request[o].job \in Jobs
        /\ request' \in [Operators -> Requests \cup {NoRequest}]
    BY <1>20 DEF RequestWrite, Requests
  <2>2. RequestedRow(request[o]) \in Row /\ RequestedRow(request[o]).status # "RUNNING"
    BY <2>1, WrittenRows
  <2>3. job' \in [Jobs -> Row] /\ Counted' /\ retries' \in [Jobs -> Nat]
    BY <1>20, <2>1, <2>2 DEF RequestWrite
  <2> QED
    BY <1>20, <2>1, <2>3 DEF RequestWrite, workerVars
<1>21. CASE Elapse
  <2>3. \A j \in Jobs : /\ Aged(job[j]) \in Row
                        /\ Aged(job[j]).status = job[j].status
                        /\ Aged(job[j]).attempts = job[j].attempts
    BY <1>0, AgedRow
  <2>4. job' \in [Jobs -> Row] /\ Counted'
    BY <1>21, <2>3 DEF Elapse
  <2>5. \A w \in Workers : phase[w] # "idle" => lag[w] + 1 \in 0 .. MaxLag
    <3>1. ASSUME NEW w \in Workers, phase[w] # "idle"
          PROVE  lag[w] \in 0 .. MaxLag /\ lag[w] < MaxLag
      BY <1>21, <3>1 DEF Elapse
    <3> QED
      BY <3>1, <1>0
  <2>6. lag' \in [Workers -> 0 .. MaxLag]
    BY <1>21, <2>5 DEF Elapse
  <2> QED
    BY <1>21, <2>4, <2>6 DEF Elapse, historyVars
<1>22. CASE UNCHANGED vars
  BY <1>22 DEF vars, workerVars, historyVars
<1> QED
  BY <1>1, <1>2, <1>3, <1>4, <1>5, <1>6, <1>8, <1>9, <1>10, <1>11, <1>12, <1>13, <1>14,
     <1>15, <1>17, <1>18, <1>19, <1>20, <1>21, <1>22
     DEF Next, WorkerStep

\* Type correctness of the queue: the rows, the claims, the sweep's candidates
\* and the clocks stay in their sets, so no attempt is ever counted past
\* maxAttempts (the WHERE clause of claimJobs).
THEOREM TypeCorrect == Spec => []TypeOK
<1>1. Typed => TypeOK
  BY DEF Typed
<1> QED
  BY TypedInit, TypedStep, <1>1, PTL DEF Spec

-----------------------------------------------------------------------------
(***************************************************************************)
(* Fencing.                                                                *)
(***************************************************************************)

HeldIsOld == \A w \in Workers : \A c \in Held(w) : c.id <= minted[c.job]

HeldApart ==
  \A w1, w2 \in Workers : \A c1 \in Held(w1), c2 \in Held(w2) :
    (c1.job = c2.job /\ c1.id = c2.id) => (w1 = w2 /\ c1 = c2)

\* The attempt a worker counts, for failJob, is the attempt of the row.
AttemptAgrees ==
  \A w \in Workers : \A c \in Held(w) :
    job[c.job].claim = c.id => job[c.job].attempts = c.attempts

TokenMeansRunning == \A j \in Jobs : job[j].claim # 0 => job[j].status = "RUNNING"

RunsNoWaiting == \A w \in Workers : current[w] \notin batch[w]

Fenced == HeldIsOld /\ HeldApart /\ AttemptAgrees /\ TokenMeansRunning /\ RunsNoWaiting

\* What every step but a claim does: no token is minted, claims are only
\* forgotten, and a row keeps its token with its status and attempts, or has
\* none.
Forgets(w) ==
  /\ Held(w)' \subseteq Held(w)
  /\ current[w] \notin batch[w] => current'[w] \notin batch'[w]

KeepsOrClears(j) ==
  \/ job'[j].claim = 0
  \/ /\ job'[j].claim = job[j].claim
     /\ job'[j].status = job[j].status
     /\ job'[j].attempts = job[j].attempts

Quiet ==
  /\ minted' = minted
  /\ \A w \in Workers : Forgets(w)
  /\ \A j \in Jobs : KeepsOrClears(j)

LEMMA QuietStep ==
  ASSUME Typed, [Next]_vars, \A w \in Workers : ~Claim(w)
  PROVE  Quiet
<1> USE DEF Typed, TypeOK, HandlerHasClaim
<1>0. /\ NoClaim \notin Claims /\ NoRequest \notin Requests
      /\ \A w \in Workers : lag[w] \in Nat
      /\ \A j \in Jobs : job[j] \in Row
  BY QueueAssumption
<1>a. UNCHANGED <<batch, current>> => \A w \in Workers : Forgets(w)
  BY DEF Forgets, Held
<1>b. ASSUME NEW w \in Workers, NEW c \in batch[w],
             batch' = [batch EXCEPT ![w] = @ \ {c}],
             current' = current \/ current' = [current EXCEPT ![w] = c]
      PROVE  \A v \in Workers : Forgets(v)
  BY <1>0, <1>b DEF Forgets, Held
<1>c. ASSUME NEW w \in Workers, NextInBatch(w), batch' = batch
      PROVE  \A v \in Workers : Forgets(v)
  <2>1. NoClaim \notin batch[w]
    BY <1>0
  <2> QED
    BY <1>c, <2>1 DEF NextInBatch, Forgets, Held
<1>d. ASSUME NEW w \in Workers, ForgetTick(w)
      PROVE  \A v \in Workers : Forgets(v)
  BY <1>d DEF ForgetTick, Forgets, Held
<1>e. job' = job => \A j \in Jobs : KeepsOrClears(j)
  BY DEF KeepsOrClears
<1>f. ASSUME NEW c \in Claims, job' = Renewed(c)
      PROVE  \A j \in Jobs : KeepsOrClears(j)
  BY <1>0, <1>f DEF Renewed, KeepsOrClears, Row
<1>g. ASSUME NEW w \in Workers, NEW c \in Claims, FailJob(w, c)
      PROVE  \A j \in Jobs : KeepsOrClears(j)
  <2>1. c.job \in Jobs /\ FailedRow(c, lag[w]).claim = 0
    BY <1>0, WrittenRows DEF Claims
  <2> QED
    BY <1>g, <2>1 DEF FailJob, KeepsOrClears
<1>1. ASSUME NEW j \in Jobs, Enqueue(j) \/ Prune(j)
      PROVE  Quiet
  <2>1. NoRow.claim = 0 /\ [NoRow EXCEPT !.status = "PENDING"].claim = 0
    BY DEF NoRow
  <2>2. \A i \in Jobs : KeepsOrClears(i)
    BY <1>1, <2>1 DEF Enqueue, Prune, KeepsOrClears
  <2> QED
    BY <1>1, <2>2, <1>a DEF Enqueue, Prune, workerVars, Quiet
<1>2. ASSUME NEW w \in Workers, ClaimNothing(w) \/ Throw(w) \/ SweepRead(w)
      PROVE  Quiet
  BY <1>2, <1>a, <1>e DEF ClaimNothing, Throw, SweepRead, Quiet
<1>3. ASSUME NEW w \in Workers, NEW c \in batch[w],
             StartJob(w, c) \/ LoseBeforeStart(w, c) \/ FailUnhandled(w, c)
      PROVE  Quiet
  <2>1. c \in Claims
    OBVIOUS
  <2> QED
    BY <1>3, <2>1, <1>b, <1>e, <1>f, <1>g DEF StartJob, LoseBeforeStart, FailUnhandled, Quiet
<1>4. ASSUME NEW w \in Workers, Heartbeat(w)
      PROVE  Quiet
  <2>1. current[w] \in Claims
    BY <1>4 DEF Heartbeat
  <2> QED
    BY <1>4, <2>1, <1>a, <1>f DEF Heartbeat, workerVars, Quiet
<1>5. ASSUME NEW w \in Workers, Commit(w)
      PROVE  Quiet
  <2>1. current[w] \in Claims /\ current[w].job \in Jobs
    BY <1>5 DEF Commit, Claims
  <2>2. Released(job[current[w].job], "SUCCEEDED").claim = 0
    BY <1>0, <2>1, ReleasedRow DEF Status
  <2>3. \A j \in Jobs : KeepsOrClears(j)
    BY <1>5, <2>1, <2>2 DEF Commit, KeepsOrClears
  <2> QED
    BY <1>5, <2>3, <1>c DEF Commit, Quiet
<1>6. ASSUME NEW w \in Workers, LoseAtCommit(w)
      PROVE  Quiet
  BY <1>6, <1>c, <1>e DEF LoseAtCommit, Quiet
<1>7. ASSUME NEW w \in Workers, FailCurrent(w)
      PROVE  Quiet
  <2>1. current[w] \in Claims
    BY <1>7 DEF FailCurrent
  <2> QED
    BY <1>7, <2>1, <1>c, <1>g DEF FailCurrent, Quiet
<1>8. ASSUME NEW w \in Workers, NEW a \in abandoned[w], SweepWrite(w, a)
      PROVE  Quiet
  <2>1. a \in Candidates /\ a.job \in Jobs
    BY DEF Candidates
  <2>2. SweptRow(a, lag[w]).claim = 0
    BY <1>0, <2>1, WrittenRows
  <2>3. \A j \in Jobs : KeepsOrClears(j)
    BY <1>8, <2>1, <2>2 DEF SweepWrite, KeepsOrClears
  <2> QED
    BY <1>8, <2>3, <1>a DEF SweepWrite, Quiet
<1>9. ASSUME NEW w \in Workers, EndTick(w) \/ AbandonTick(w)
      PROVE  Quiet
  BY <1>9, <1>d, <1>e DEF EndTick, AbandonTick, Quiet
<1>10. ASSUME NEW o \in Operators, NEW r \in Requests, RequestRead(o, r)
       PROVE  Quiet
  BY <1>10, <1>a, <1>e DEF RequestRead, workerVars, Quiet
<1>11. ASSUME NEW o \in Operators, RequestWrite(o)
       PROVE  Quiet
  <2>1. request[o] \in Requests /\ request[o].job \in Jobs
    BY <1>11 DEF RequestWrite, Requests
  <2>2. RequestedRow(request[o]).claim = 0
    BY <2>1, WrittenRows
  <2>3. \A j \in Jobs : KeepsOrClears(j)
    BY <1>11, <2>1, <2>2 DEF RequestWrite, KeepsOrClears
  <2> QED
    BY <1>11, <2>3, <1>a DEF RequestWrite, workerVars, Quiet
<1>12. CASE Elapse
  <2>1. \A j \in Jobs : KeepsOrClears(j)
    BY <1>12, <1>0, AgedRow DEF Elapse, KeepsOrClears
  <2> QED
    BY <1>12, <2>1, <1>a DEF Elapse, Quiet
<1>13. CASE UNCHANGED vars
  BY <1>13, <1>a, <1>e DEF vars, workerVars, Quiet
<1> QED
  BY <1>1, <1>2, <1>3, <1>4, <1>5, <1>6, <1>7, <1>8, <1>9, <1>10, <1>11, <1>12, <1>13
     DEF Next, WorkerStep

LEMMA FencedInit == Init => Fenced
  BY DEF Init, Fenced, HeldIsOld, HeldApart, AttemptAgrees, TokenMeansRunning,
         RunsNoWaiting, Held, NoRow

LEMMA FencedStep == Typed /\ Fenced /\ [Next]_vars => Fenced'
<1> SUFFICES ASSUME Typed, Fenced, [Next]_vars
             PROVE  Fenced'
  OBVIOUS
<1> USE DEF Fenced
<1>0. /\ \A j \in Jobs : job[j] \in Row /\ minted[j] \in Nat /\ job[j].claim \in Nat
      /\ \A w \in Workers : Held(w) \subseteq Claims
      /\ \A c \in Claims : c.job \in Jobs /\ c.id \in Nat \ {0}
  BY DEF Typed, TypeOK, Held, Claims, Row
<1>1. CASE \A w \in Workers : ~Claim(w)
  <2>1. Quiet
    BY <1>1, QuietStep
  <2>2. HeldIsOld' /\ HeldApart'
    BY <2>1 DEF Quiet, Forgets, HeldIsOld, HeldApart
  <2>3. AttemptAgrees'
    BY <2>1, <1>0 DEF Quiet, Forgets, KeepsOrClears, AttemptAgrees
  <2>4. TokenMeansRunning' /\ RunsNoWaiting'
    BY <2>1 DEF Quiet, Forgets, KeepsOrClears, TokenMeansRunning, RunsNoWaiting
  <2> QED
    BY <2>2, <2>3, <2>4
<1>2. ASSUME NEW w \in Workers, Claim(w)
      PROVE  Fenced'
  <2>1. PICK l \in 0 .. ClaimLag, S \in SUBSET Jobs :
          /\ \A j \in S : Runnable(j, l)
          /\ job' = [j \in Jobs |-> IF j \in S THEN ClaimedRow(j, l) ELSE job[j]]
          /\ minted' = [j \in Jobs |-> IF j \in S THEN minted[j] + 1 ELSE minted[j]]
          /\ batch' = [batch EXCEPT ![w] =
               {[job |-> j, id |-> minted[j] + 1, attempts |-> job[j].attempts + 1] : j \in S}]
    BY <1>2 DEF Claim
  <2> DEFINE new(j) == [job |-> j, id |-> minted[j] + 1, attempts |-> job[j].attempts + 1]
  <2>2. \A j \in S : /\ ClaimedRow(j, l).status = "RUNNING"
                     /\ ClaimedRow(j, l).attempts = job[j].attempts + 1
                     /\ ClaimedRow(j, l).claim = minted[j] + 1
    <3>1. l \in Nat
      BY QueueAssumption
    <3> QED
      BY <2>1, <3>1, ClaimedRows
  <2>3. current' = current /\ batch \in [Workers -> SUBSET Claims]
    BY <1>2 DEF Claim, Typed, TypeOK
  \* What w holds afterwards is new, or was its current claim.
  <2>4. \A v \in Workers : \A c \in Held(v)' :
          \/ c \in Held(v)
          \/ v = w /\ c \in batch'[w] /\ \E j \in S : c = new(j)
    BY <2>1, <2>3 DEF Held
  <2>5. \A v \in Workers : \A c \in Held(v) :
          /\ c.job \in Jobs /\ c.id \in Nat /\ c.id <= minted[c.job] /\ minted[c.job] \in Nat
    BY <1>0 DEF HeldIsOld
  <2>6. \A j \in Jobs : minted'[j] = IF j \in S THEN minted[j] + 1 ELSE minted[j]
    BY <2>1
  <2>7. HeldIsOld'
    BY <2>4, <2>5, <2>6, <1>0 DEF HeldIsOld
  <2>8. HeldApart'
    BY <2>4, <2>5, <1>0 DEF HeldApart
  <2>9. AttemptAgrees'
    BY <2>1, <2>2, <2>4, <2>5, <1>0 DEF AttemptAgrees
  <2>10. TokenMeansRunning'
    BY <2>1, <2>2, <1>0 DEF TokenMeansRunning
  <2>11. RunsNoWaiting'
    <3>1. \A v \in Workers : current[v] \in Claims => current[v] \in Held(v)
      BY QueueAssumption DEF Held
    <3>2. \A v \in Workers : current[v] \in Claims \cup {NoClaim}
      BY DEF Typed, TypeOK
    <3>3. \A j \in S : new(j) \in Claims
      BY <2>1, <1>0, ClaimedRows, QueueAssumption DEF Claims
    <3>4. \A j \in S : current[w] # new(j)
      BY <3>1, <3>2, <3>3, <2>5, <1>0, QueueAssumption
    <3> QED
      BY <2>1, <2>3, <3>4 DEF RunsNoWaiting
  <2> QED
    BY <2>7, <2>8, <2>9, <2>10, <2>11
<1> QED
  BY <1>1, <1>2

\* The token of at most one remembered claim matches a row: a worker whose
\* claim was taken over cannot renew, complete or fail the job any more, and two
\* workers that both believe they hold a job never both act on it (renewLease,
\* completeJob and failJob all carry the claim id in their WHERE clause).
THEOREM OneOwnerHolds == Spec => []OneOwner
<1>1. Typed /\ Fenced => OneOwner
  BY DEF Fenced, HeldApart, OneOwner, Owns
<1> QED
  BY TypedInit, TypedStep, FencedInit, FencedStep, <1>1, PTL DEF Spec

-----------------------------------------------------------------------------
(***************************************************************************)
(* The sweep.  It decides on the attempts it read earlier; they are still  *)
(* those of the row when the re-check passes, because a row claimed or     *)
(* renewed since has a lease that is not past the cutoff.  A claim made    *)
(* with a clock reading older than Lease + Grace would be born expired,    *)
(* hence the assumption.                                                   *)
(***************************************************************************)

CandidatesOnlyInSweep == \A w \in Workers : abandoned[w] # {} => phase[w] = "sweep"

CandidateIsCurrent ==
  \A w \in Workers : \A a \in abandoned[w] :
    PastCutoff(a.job, w) => job[a.job].attempts = a.attempts

Swept == CandidatesOnlyInSweep /\ CandidateIsCurrent

\* What every step but a sweep's read and the passing of time does.
KeepsCandidates(w) ==
  /\ abandoned'[w] \subseteq abandoned[w]
  /\ abandoned'[w] # {} => lag'[w] = lag[w] /\ phase'[w] = phase[w]

KeepsOrFreshens(j) ==
  \/ job'[j] = job[j]
  \/ job'[j].status # "RUNNING"
  \/ job'[j].lease >= -Grace

LEMMA SweepQuietStep ==
  ASSUME ClaimLag <= Lease + Grace,
         Typed, CandidatesOnlyInSweep, Next, ~Elapse, \A w \in Workers : ~SweepRead(w)
  PROVE  /\ \A w \in Workers : KeepsCandidates(w)
         /\ \A j \in Jobs : KeepsOrFreshens(j)
<1> USE DEF Typed, TypeOK, HandlerHasClaim, CandidatesOnlyInSweep
<1> DEFINE Goal == /\ \A w \in Workers : KeepsCandidates(w)
                   /\ \A j \in Jobs : KeepsOrFreshens(j)
<1>0. /\ \A j \in Jobs : job[j] \in Row
      /\ \A w \in Workers : lag[w] \in Nat
      /\ Lease \in Nat /\ Grace \in Nat /\ ClaimLag \in Nat
      /\ NoRequest \notin Requests
  BY QueueAssumption
<1>a. UNCHANGED <<abandoned, lag, phase>> => \A w \in Workers : KeepsCandidates(w)
  BY DEF KeepsCandidates
<1>b. ASSUME NEW w \in Workers, UNCHANGED <<abandoned, lag>>,
             phase[w] # "sweep", NEW p, phase' = [phase EXCEPT ![w] = p]
      PROVE  \A v \in Workers : KeepsCandidates(v)
  BY <1>b DEF KeepsCandidates
<1>c. ASSUME NEW w \in Workers, ForgetTick(w)
      PROVE  \A v \in Workers : KeepsCandidates(v)
  BY <1>c DEF ForgetTick, KeepsCandidates
<1>d. job' = job => \A j \in Jobs : KeepsOrFreshens(j)
  BY DEF KeepsOrFreshens
<1>e. ASSUME NEW c \in Claims, job' = Renewed(c)
      PROVE  \A j \in Jobs : KeepsOrFreshens(j)
  <2>1. c.job \in Jobs
    BY DEF Claims
  <2>2. [job[c.job] EXCEPT !.lease = Lease].lease >= -Grace
    BY <1>0, <2>1 DEF Row
  <2> QED
    BY <1>e, <2>1, <2>2 DEF Renewed, KeepsOrFreshens
<1>f. ASSUME NEW w \in Workers, NEW c \in Claims, FailJob(w, c)
      PROVE  \A j \in Jobs : KeepsOrFreshens(j)
  <2>1. c.job \in Jobs /\ FailedRow(c, lag[w]).status # "RUNNING"
    BY <1>0, WrittenRows DEF Claims
  <2> QED
    BY <1>f, <2>1 DEF FailJob, KeepsOrFreshens
<1>1. ASSUME NEW j \in Jobs, Enqueue(j) \/ Prune(j)
      PROVE  Goal
  <2>1. NoRow.status # "RUNNING" /\ [NoRow EXCEPT !.status = "PENDING"].status # "RUNNING"
    BY DEF NoRow
  <2>2. \A i \in Jobs : KeepsOrFreshens(i)
    BY <1>1, <2>1 DEF Enqueue, Prune, KeepsOrFreshens
  <2> QED
    BY <1>1, <2>2, <1>a DEF Enqueue, Prune, workerVars
<1>2. ASSUME NEW w \in Workers, Claim(w)
      PROVE  Goal
  <2>1. PICK l \in 0 .. ClaimLag, S \in SUBSET Jobs :
          /\ \A j \in S : Runnable(j, l)
          /\ job' = [j \in Jobs |-> IF j \in S THEN ClaimedRow(j, l) ELSE job[j]]
          /\ lag' = [lag EXCEPT ![w] = l]
    BY <1>2 DEF Claim
  <2>2. l \in Nat /\ Lease - l >= -Grace
    BY <1>0
  <2>3. \A j \in S : ClaimedRow(j, l).lease >= -Grace
    BY <2>1, <2>2, ClaimedRows
  <2>4. \A j \in Jobs : KeepsOrFreshens(j)
    BY <2>1, <2>3 DEF KeepsOrFreshens
  <2>5. \A v \in Workers : KeepsCandidates(v)
    BY <1>2, <2>1 DEF Claim, KeepsCandidates
  <2> QED
    BY <2>4, <2>5
<1>3. ASSUME NEW w \in Workers, ClaimNothing(w)
      PROVE  Goal
  BY <1>3, <1>d DEF ClaimNothing, KeepsCandidates
<1>4. ASSUME NEW w \in Workers, NEW c \in batch[w],
             StartJob(w, c) \/ LoseBeforeStart(w, c) \/ FailUnhandled(w, c)
      PROVE  Goal
  <2>1. c \in Claims
    OBVIOUS
  <2>2. CASE StartJob(w, c)
    BY <2>1, <2>2, <1>b, <1>e DEF StartJob
  <2>3. CASE LoseBeforeStart(w, c)
    BY <2>3, <1>a, <1>d DEF LoseBeforeStart
  <2>4. CASE FailUnhandled(w, c)
    BY <2>1, <2>4, <1>a, <1>f DEF FailUnhandled
  <2> QED
    BY <1>4, <2>2, <2>3, <2>4
<1>5. ASSUME NEW w \in Workers, Heartbeat(w)
      PROVE  Goal
  <2>1. current[w] \in Claims
    BY <1>5 DEF Heartbeat
  <2> QED
    BY <1>5, <2>1, <1>a, <1>e DEF Heartbeat, workerVars
<1>6. ASSUME NEW w \in Workers, Commit(w)
      PROVE  Goal
  <2>1. current[w] \in Claims /\ current[w].job \in Jobs
    BY <1>6 DEF Commit, Claims
  <2>2. Released(job[current[w].job], "SUCCEEDED").status # "RUNNING"
    BY <1>0, <2>1, ReleasedRow DEF Status
  <2>3. \A j \in Jobs : KeepsOrFreshens(j)
    BY <1>6, <2>1, <2>2 DEF Commit, KeepsOrFreshens
  <2> QED
    BY <1>6, <2>3, <1>b DEF Commit, NextInBatch
<1>7. ASSUME NEW w \in Workers, LoseAtCommit(w) \/ Throw(w)
      PROVE  Goal
  BY <1>7, <1>b, <1>d DEF LoseAtCommit, Throw, NextInBatch
<1>8. ASSUME NEW w \in Workers, FailCurrent(w)
      PROVE  Goal
  <2>1. current[w] \in Claims
    BY <1>8 DEF FailCurrent
  <2> QED
    BY <1>8, <2>1, <1>b, <1>f DEF FailCurrent, NextInBatch
<1>9. ASSUME NEW w \in Workers, NEW a \in abandoned[w], SweepWrite(w, a)
      PROVE  Goal
  <2>1. a \in Candidates /\ a.job \in Jobs
    BY DEF Candidates
  <2>2. SweptRow(a, lag[w]).status # "RUNNING"
    BY <1>0, <2>1, WrittenRows
  <2>3. \A j \in Jobs : KeepsOrFreshens(j)
    BY <1>9, <2>1, <2>2 DEF SweepWrite, KeepsOrFreshens
  <2>4. \A v \in Workers : KeepsCandidates(v)
    BY <1>9 DEF SweepWrite, KeepsCandidates
  <2> QED
    BY <2>3, <2>4
<1>10. ASSUME NEW w \in Workers, EndTick(w) \/ AbandonTick(w)
       PROVE  Goal
  BY <1>10, <1>c, <1>d DEF EndTick, AbandonTick
<1>11. ASSUME NEW o \in Operators, NEW r \in Requests, RequestRead(o, r)
       PROVE  Goal
  BY <1>11, <1>a, <1>d DEF RequestRead, workerVars
<1>12. ASSUME NEW o \in Operators, RequestWrite(o)
       PROVE  Goal
  <2>1. request[o] \in Requests /\ request[o].job \in Jobs
    BY <1>12 DEF RequestWrite, Requests
  <2>2. RequestedRow(request[o]).status # "RUNNING"
    BY <2>1, WrittenRows
  <2>3. \A j \in Jobs : KeepsOrFreshens(j)
    BY <1>12, <2>1, <2>2 DEF RequestWrite, KeepsOrFreshens
  <2> QED
    BY <1>12, <2>3, <1>a DEF RequestWrite, workerVars
<1> HIDE DEF Goal
<1>13. Goal
  BY <1>1, <1>2, <1>3, <1>4, <1>5, <1>6, <1>7, <1>8, <1>9, <1>10, <1>11, <1>12
     DEF Next, WorkerStep
<1> QED
  BY <1>13 DEF Goal

LEMMA SweptStep ==
  ASSUME ClaimLag <= Lease + Grace, Typed, Swept, [Next]_vars
  PROVE  Swept'
<1> USE DEF Typed, TypeOK, Swept
<1>0. /\ \A j \in Jobs : job[j] \in Row /\ job[j].lease \in Int
      /\ \A w \in Workers : lag[w] \in 0 .. MaxLag
      /\ Grace \in Nat /\ MaxLag \in Nat
      /\ \A w \in Workers : \A a \in abandoned[w] : a.job \in Jobs
  BY QueueAssumption DEF Row, Candidates
<1>1. CASE Next /\ ~Elapse /\ \A w \in Workers : ~SweepRead(w)
  <2>1. /\ \A w \in Workers : KeepsCandidates(w)
        /\ \A j \in Jobs : KeepsOrFreshens(j)
    BY <1>1, SweepQuietStep
  <2>2. CandidatesOnlyInSweep'
    BY <2>1 DEF CandidatesOnlyInSweep, KeepsCandidates
  <2>3. ASSUME NEW w \in Workers, NEW a \in abandoned'[w], PastCutoff(a.job, w)'
        PROVE  job'[a.job].attempts = a.attempts
    <3>1. /\ a \in abandoned[w] /\ a.job \in Jobs /\ lag'[w] = lag[w] /\ lag[w] \in Nat
      BY <2>1, <2>3, <1>0 DEF KeepsCandidates
    <3>2. job'[a.job] = job[a.job]
      <4>1. job'[a.job].lease \in Int
        BY <3>1, TypedStep DEF Row
      <4>2. /\ job'[a.job].status = "RUNNING"
            /\ job'[a.job].lease < -Grace - lag'[w]
        BY <2>3 DEF PastCutoff
      <4>3. ~(job'[a.job].lease >= -Grace)
        BY <4>1, <4>2, <3>1, <1>0
      <4> QED
        BY <4>2, <4>3, <3>1, <2>1 DEF KeepsOrFreshens
    <3>3. PastCutoff(a.job, w)
      BY <2>3, <3>1, <3>2 DEF PastCutoff
    <3> QED
      BY <3>1, <3>2, <3>3 DEF CandidateIsCurrent
  <2> QED
    BY <2>2, <2>3 DEF CandidateIsCurrent
<1>2. ASSUME NEW w \in Workers, SweepRead(w)
      PROVE  Swept'
  <2>1. CandidatesOnlyInSweep'
    BY <1>2 DEF SweepRead, CandidatesOnlyInSweep
  <2>2. ASSUME NEW v \in Workers, NEW a \in abandoned'[v], PastCutoff(a.job, v)'
        PROVE  job'[a.job].attempts = a.attempts
    <3>1. job' = job /\ lag' = lag
      BY <1>2 DEF SweepRead
    <3>2. CASE v = w
      BY <1>2, <3>1, <3>2 DEF SweepRead
    <3>3. CASE v # w
      BY <1>2, <2>2, <3>1, <3>3 DEF SweepRead, CandidateIsCurrent, PastCutoff
    <3> QED
      BY <3>2, <3>3
  <2> QED
    BY <2>1, <2>2 DEF CandidateIsCurrent
<1>3. CASE Elapse
  <2>1. CandidatesOnlyInSweep'
    BY <1>3 DEF Elapse, CandidatesOnlyInSweep
  <2>2. ASSUME NEW w \in Workers, NEW a \in abandoned'[w], PastCutoff(a.job, w)'
        PROVE  job'[a.job].attempts = a.attempts
    <3>1. /\ a \in abandoned[w] /\ a.job \in Jobs /\ job[a.job] \in Row
          /\ lag[w] \in 0 .. MaxLag /\ lag'[w] = lag[w] + 1
      BY <1>3, <1>0 DEF Elapse, CandidatesOnlyInSweep
    <3>2. /\ job'[a.job].status = job[a.job].status
          /\ job'[a.job].attempts = job[a.job].attempts
          /\ job[a.job].status = "RUNNING" =>
               job'[a.job].lease = Older(job[a.job].lease, LeaseFloor)
      BY <1>3, <3>1, AgedRow DEF Elapse
    <3>3. PastCutoff(a.job, w)
      BY <2>2, <3>1, <3>2, <1>0 DEF PastCutoff, Older, LeaseFloor
    <3> QED
      BY <3>1, <3>2, <3>3 DEF CandidateIsCurrent
  <2> QED
    BY <2>1, <2>2 DEF CandidateIsCurrent
<1>4. CASE UNCHANGED vars
  BY <1>4 DEF vars, workerVars, CandidatesOnlyInSweep, CandidateIsCurrent, PastCutoff
<1> QED
  BY <1>1, <1>2, <1>3, <1>4

LEMMA SweptInit == Init => Swept
  BY DEF Init, Swept, CandidatesOnlyInSweep, CandidateIsCurrent

-----------------------------------------------------------------------------
(***************************************************************************)
(* What a step shows of a job: most show nothing, the others are one of    *)
(* six events of one job.                                                  *)
(***************************************************************************)

OnlyRow(j) == \A i \in Jobs \ {j} : job'[i] = job[i]

Internal ==
  /\ \A j \in Jobs :
       \/ job'[j].status = job[j].status /\ job'[j].attempts = job[j].attempts
       \/ job[j].status \in Open /\ job'[j].status = "RUNNING"
  /\ UNCHANGED <<posted, effects, retries>>

Armed(j) ==
  /\ job[j].status = "ABSENT" /\ (j \in posted => j \in Durable)
  /\ job'[j].status = "PENDING" /\ job'[j].attempts = 0
  /\ posted' = posted \cup {j}
  /\ UNCHANGED <<effects, retries>>

Forgotten(j) ==
  /\ job[j].status \in {"SUCCEEDED", "CANCELLED"} /\ j \notin Durable
  /\ job'[j].status = "ABSENT"
  /\ UNCHANGED <<posted, effects, retries>>

Finished(j) ==
  /\ job[j].status = "RUNNING" /\ job'[j].status = "SUCCEEDED"
  /\ effects' = [effects EXCEPT ![j] = @ + 1]
  /\ UNCHANGED <<posted, retries>>

Failed(j) ==
  /\ job[j].status = "RUNNING" /\ job'[j].status \in {"DEAD", "FAILED"}
  /\ (Swept /\ job'[j].status = "FAILED") => job'[j].attempts < MaxAttempts
  /\ UNCHANGED <<posted, effects, retries>>

Rearmed(j) ==
  /\ job[j].status # "ABSENT"
  /\ job'[j].status = "PENDING" /\ job'[j].attempts = 0
  /\ retries' = [retries EXCEPT ![j] = @ + 1]
  /\ UNCHANGED <<posted, effects>>

Cancelled(j) ==
  /\ job[j].status # "ABSENT" /\ job'[j].status = "CANCELLED"
  /\ UNCHANGED <<posted, effects, retries>>

Event(j) ==
  /\ OnlyRow(j)
  /\ \/ Armed(j) \/ Forgotten(j) \/ Finished(j) \/ Failed(j) \/ Rearmed(j) \/ Cancelled(j)

LEMMA StepShows ==
  ASSUME Typed, Fenced, [Next]_vars
  PROVE  Internal \/ \E j \in Jobs : Event(j)
<1> USE DEF Typed, TypeOK, HandlerHasClaim
<1> DEFINE Goal == Internal \/ \E j \in Jobs : Event(j)
<1>0. /\ \A j \in Jobs : job[j] \in Row
      /\ \A w \in Workers : lag[w] \in Nat
      /\ MaxAttempts \in Nat /\ NoRequest \notin Requests
      /\ \A c \in Claims : c.job \in Jobs /\ c.id # 0 /\ c.attempts \in Nat
      /\ \A w \in Workers : batch[w] \subseteq Held(w)
      /\ \A w \in Workers : current[w] # NoClaim => current[w] \in Held(w)
  BY QueueAssumption DEF Claims, Held
<1>a. ASSUME job' = job, UNCHANGED <<posted, effects, retries>>
      PROVE  Internal
  BY <1>a DEF Internal
<1>b. ASSUME NEW c \in Claims, job' = Renewed(c), UNCHANGED <<posted, effects, retries>>
      PROVE  Internal
  BY <1>0, <1>b DEF Renewed, Internal, Row
<1>c. ASSUME NEW w \in Workers, NEW c \in Claims, c \in Held(w), FailJob(w, c),
             UNCHANGED <<posted, effects, retries>>
      PROVE  Goal
  <2>1. CASE job[c.job].claim # c.id
    BY <2>1, <1>c, <1>a DEF FailJob
  <2>2. CASE job[c.job].claim = c.id
    <3>1. /\ c.job \in Jobs /\ job[c.job].status = "RUNNING"
          /\ job[c.job].attempts = c.attempts /\ c.attempts \in Nat
      BY <2>2, <1>c, <1>0 DEF Fenced, TokenMeansRunning, AttemptAgrees
    <3>2. job' = [job EXCEPT ![c.job] = FailedRow(c, lag[w])]
      BY <2>2, <1>c DEF FailJob
    <3>3. /\ job'[c.job].status = IF c.attempts >= MaxAttempts THEN "DEAD" ELSE "FAILED"
          /\ job'[c.job].attempts = c.attempts
      BY <3>1, <3>2, <1>0, WrittenRows
    <3>4. Failed(c.job) /\ OnlyRow(c.job)
      BY <3>1, <3>2, <3>3, <1>0, <1>c DEF Failed, OnlyRow
    <3> QED
      BY <3>1, <3>4 DEF Event
  <2> QED
    BY <2>1, <2>2
<1>1. ASSUME NEW j \in Jobs, Enqueue(j)
      PROVE  Goal
  BY <1>1 DEF Enqueue, NoRow, Event, OnlyRow, Armed
<1>2. ASSUME NEW j \in Jobs, Prune(j)
      PROVE  Goal
  BY <1>2 DEF Prune, NoRow, Event, OnlyRow, Forgotten, historyVars
<1>3. ASSUME NEW w \in Workers, Claim(w)
      PROVE  Goal
  <2>1. PICK l \in 0 .. ClaimLag, S \in SUBSET Jobs :
          /\ \A j \in S : Runnable(j, l)
          /\ job' = [j \in Jobs |-> IF j \in S THEN ClaimedRow(j, l) ELSE job[j]]
    BY <1>3 DEF Claim
  <2>2. l \in Nat
    BY QueueAssumption
  <2>3. \A j \in S : job[j].status \in Open /\ ClaimedRow(j, l).status = "RUNNING"
    BY <2>1, <2>2, ClaimedRows DEF Runnable, Open
  <2> QED
    BY <1>3, <2>1, <2>3 DEF Internal, Claim, historyVars
<1>4. ASSUME NEW w \in Workers,
             \/ ClaimNothing(w) \/ LoseAtCommit(w) \/ Throw(w) \/ SweepRead(w)
             \/ EndTick(w) \/ AbandonTick(w)
      PROVE  Goal
  BY <1>4, <1>a
     DEF ClaimNothing, LoseAtCommit, Throw, SweepRead, EndTick, AbandonTick, historyVars
<1>5. ASSUME NEW w \in Workers, NEW c \in batch[w],
             StartJob(w, c) \/ LoseBeforeStart(w, c) \/ FailUnhandled(w, c)
      PROVE  Goal
  <2>1. c \in Claims /\ c \in Held(w)
    BY <1>0
  <2>2. UNCHANGED <<posted, effects, retries>>
    BY <1>5 DEF StartJob, LoseBeforeStart, FailUnhandled, historyVars
  <2> HIDE DEF Goal
  <2>3. CASE StartJob(w, c)
    BY <2>1, <2>2, <2>3, <1>b DEF StartJob, Goal
  <2>4. CASE LoseBeforeStart(w, c)
    BY <2>2, <2>4, <1>a DEF LoseBeforeStart, Goal
  <2>5. CASE FailUnhandled(w, c)
    BY <2>1, <2>2, <2>5, <1>c DEF FailUnhandled
  <2> QED
    BY <1>5, <2>3, <2>4, <2>5
<1>6. ASSUME NEW w \in Workers, Heartbeat(w)
      PROVE  Goal
  <2>1. current[w] \in Claims
    BY <1>6 DEF Heartbeat
  <2> QED
    BY <1>6, <2>1, <1>b DEF Heartbeat, historyVars
<1>7. ASSUME NEW w \in Workers, Commit(w)
      PROVE  Goal
  <2>1. current[w] \in Claims /\ current[w].job \in Jobs
    BY <1>7, <1>0 DEF Commit
  <2>2. Released(job[current[w].job], "SUCCEEDED").status = "SUCCEEDED"
    BY <1>0, <2>1, ReleasedRow DEF Status
  <2> QED
    BY <1>7, <2>1, <2>2 DEF Commit, Owns, Event, OnlyRow, Finished
<1>8. ASSUME NEW w \in Workers, FailCurrent(w)
      PROVE  Goal
  <2>1. current[w] \in Claims /\ current[w] \in Held(w)
    BY <1>8, <1>0 DEF FailCurrent
  <2>2. UNCHANGED <<posted, effects, retries>> /\ FailJob(w, current[w])
    BY <1>8 DEF FailCurrent, historyVars
  <2> HIDE DEF Goal
  <2> QED
    BY <2>1, <2>2, <1>c
<1>9. ASSUME NEW w \in Workers, NEW a \in abandoned[w], SweepWrite(w, a)
      PROVE  Goal
  <2>1. a \in Candidates /\ a.job \in Jobs /\ a.attempts \in Nat
    BY DEF Candidates
  <2>2. UNCHANGED <<posted, effects, retries>>
    BY <1>9 DEF SweepWrite, historyVars
  <2>3. CASE ~PastCutoff(a.job, w)
    BY <2>2, <2>3, <1>9, <1>a DEF SweepWrite
  <2>4. CASE PastCutoff(a.job, w)
    <3>1. job' = [job EXCEPT ![a.job] = SweptRow(a, lag[w])] /\ job[a.job].status = "RUNNING"
      BY <1>9, <2>4 DEF SweepWrite, PastCutoff
    <3>2. /\ job'[a.job].status = IF a.attempts >= MaxAttempts THEN "DEAD" ELSE "FAILED"
          /\ job'[a.job].attempts = job[a.job].attempts
      BY <3>1, <2>1, <1>0, WrittenRows
    <3>3. Swept => job[a.job].attempts = a.attempts
      BY <2>4 DEF Swept, CandidateIsCurrent
    <3>4. Failed(a.job) /\ OnlyRow(a.job)
      BY <3>1, <3>2, <3>3, <2>1, <2>2, <1>0 DEF Failed, OnlyRow
    <3> QED
      BY <2>1, <3>4 DEF Event
  <2> QED
    BY <2>3, <2>4
<1>10. ASSUME NEW o \in Operators, NEW r \in Requests, RequestRead(o, r)
       PROVE  Goal
  BY <1>10, <1>a DEF RequestRead, historyVars
<1>11. ASSUME NEW o \in Operators, RequestWrite(o)
       PROVE  Goal
  <2> DEFINE r == request[o]
  <2>1. r \in Requests /\ r.job \in Jobs /\ UNCHANGED <<posted, effects>>
    BY <1>11, <1>0 DEF RequestWrite, Requests
  <2>2. /\ RequestedRow(r).status = IF r.kind = "retry" THEN "PENDING" ELSE "CANCELLED"
        /\ r.kind = "retry" => RequestedRow(r).attempts = 0
    BY <2>1, WrittenRows
  <2>3. CASE job[r.job].status = "ABSENT"
    BY <1>11, <2>1, <2>3, <1>a DEF RequestWrite
  <2>4. CASE job[r.job].status # "ABSENT"
    <3>1. /\ job' = [job EXCEPT ![r.job] = RequestedRow(r)]
          /\ retries' = IF r.kind = "retry"
                        THEN [retries EXCEPT ![r.job] = @ + 1] ELSE retries
      BY <1>11, <2>4 DEF RequestWrite
    <3>2. OnlyRow(r.job) /\ job'[r.job] = RequestedRow(r)
      BY <3>1, <2>1 DEF OnlyRow
    <3>3. Rearmed(r.job) \/ Cancelled(r.job)
      BY <3>1, <3>2, <2>1, <2>2, <2>4 DEF Rearmed, Cancelled
    <3> QED
      BY <2>1, <3>2, <3>3 DEF Event
  <2> QED
    BY <2>3, <2>4
<1>12. ASSUME Elapse
       PROVE  Goal
  <2>1. \A j \in Jobs : /\ job'[j].status = job[j].status
                        /\ job'[j].attempts = job[j].attempts
    BY <1>12, <1>0, AgedRow DEF Elapse
  <2> QED
    BY <1>12, <2>1 DEF Elapse, Internal, historyVars
<1>13. ASSUME UNCHANGED vars
       PROVE  Goal
  <2>1. job' = job /\ UNCHANGED <<posted, effects, retries>>
    BY <1>13 DEF vars, historyVars
  <2> QED
    BY <2>1, <1>a
<1> HIDE DEF Goal, Typed, TypeOK, HandlerHasClaim
<1>14. ASSUME NEW w \in Workers, WorkerStep(w) \/ Heartbeat(w) \/ AbandonTick(w)
       PROVE  Goal
  <2>1. CASE Claim(w)
    BY <2>1, <1>3
  <2>2. CASE \/ ClaimNothing(w) \/ LoseAtCommit(w) \/ Throw(w) \/ SweepRead(w)
             \/ EndTick(w) \/ AbandonTick(w)
    BY <2>2, <1>4
  <2>3. CASE \E c \in batch[w] : StartJob(w, c) \/ LoseBeforeStart(w, c) \/ FailUnhandled(w, c)
    BY <2>3, <1>5
  <2>4. CASE Heartbeat(w)
    BY <2>4, <1>6
  <2>5. CASE Commit(w)
    BY <2>5, <1>7
  <2>6. CASE FailCurrent(w)
    BY <2>6, <1>8
  <2>7. CASE \E a \in abandoned[w] : SweepWrite(w, a)
    BY <2>7, <1>9
  <2> QED
    BY <1>14, <2>1, <2>2, <2>3, <2>4, <2>5, <2>6, <2>7 DEF WorkerStep
<1>15. ASSUME Next
       PROVE  Goal
  <2>1. CASE \E j \in Jobs : Enqueue(j) \/ Prune(j)
    BY <2>1, <1>1, <1>2
  <2>2. CASE \E w \in Workers : WorkerStep(w) \/ Heartbeat(w) \/ AbandonTick(w)
    BY <2>2, <1>14
  <2>3. CASE \E o \in Operators : \E r \in Requests : RequestRead(o, r)
    BY <2>3, <1>10
  <2>4. CASE \E o \in Operators : RequestWrite(o)
    BY <2>4, <1>11
  <2> QED
    BY <1>12, <1>15, <2>1, <2>2, <2>3, <2>4 DEF Next
<1>16. Goal
  BY <1>13, <1>15
<1> QED
  BY <1>16 DEF Goal

LEMMA QueuedCanRunStep ==
  Typed /\ Fenced /\ Swept /\ QueuedCanRun /\ [Next]_vars => QueuedCanRun'
<1> SUFFICES ASSUME Typed, Fenced, Swept, QueuedCanRun, [Next]_vars, NEW j \in Jobs,
                    job'[j].status \in {"PENDING", "FAILED"}
             PROVE  job'[j].attempts < MaxAttempts
  BY DEF QueuedCanRun
<1>1. CASE Internal
  BY <1>1 DEF Internal, QueuedCanRun
<1>2. ASSUME NEW i \in Jobs, Event(i)
      PROVE  job'[j].attempts < MaxAttempts
  <2>1. CASE i # j
    BY <1>2, <2>1 DEF Event, OnlyRow, QueuedCanRun
  <2>2. CASE i = j
    <3>1. 0 < MaxAttempts
      BY QueueAssumption
    <3> QED
      BY <1>2, <2>2, <3>1
         DEF Event, Armed, Forgotten, Finished, Failed, Rearmed, Cancelled
  <2> QED
    BY <2>1, <2>2
<1> QED
  BY <1>1, <1>2, StepShows

\* A row waiting to run again always has an attempt left, so a claim will take
\* it: failJob and reapAbandonedJobs agree with claimJobs on when the attempts
\* are used up, although the sweep decides on attempts it read before.  Holds
\* as long as a claim's clock reading is no older than lease plus grace.
THEOREM NobodyStranded ==
  ASSUME ClaimLag <= Lease + Grace
  PROVE  Spec => []QueuedCanRun
<1>1. Init => QueuedCanRun
  BY DEF Init, QueuedCanRun, NoRow
<1>2. Swept /\ Typed /\ [Next]_vars => Swept'
  BY SweptStep
<1> QED
  BY TypedInit, TypedStep, FencedInit, FencedStep, SweptInit, <1>2, <1>1,
     QueuedCanRunStep, PTL DEF Spec

-----------------------------------------------------------------------------
(***************************************************************************)
(* Once per arming.                                                        *)
(***************************************************************************)

\* A key never enqueued has no row, and the row of a durable key stays.
KeysKept ==
  \A j \in Jobs :
    /\ j \notin posted => job[j].status = "ABSENT" /\ effects[j] = 0
    /\ j \in Durable /\ j \in posted => job[j].status # "ABSENT"

Counting == KeysKept /\ CommitOncePerArming

LEMMA CountingStep == Typed /\ Fenced /\ Counting /\ [Next]_vars => Counting'
<1> SUFFICES ASSUME Typed, Fenced, Counting, [Next]_vars
             PROVE  Counting'
  OBVIOUS
<1>0. /\ effects \in [Jobs -> Nat] /\ retries \in [Jobs -> Nat]
      /\ \A j \in Jobs : effects[j] \in Nat /\ retries[j] \in Nat
  BY DEF Typed, TypeOK
<1>1. CASE Internal
  BY <1>1 DEF Internal, Counting, KeysKept, CommitOncePerArming, Open
<1>2. ASSUME NEW i \in Jobs, Event(i)
      PROVE  Counting'
  <2>1. ASSUME NEW j \in Jobs, j # i
        PROVE  /\ job'[j] = job[j] /\ effects'[j] = effects[j] /\ retries'[j] = retries[j]
               /\ j \in posted' <=> j \in posted
    BY <1>0, <1>2, <2>1
       DEF Event, OnlyRow, Armed, Forgotten, Finished, Failed, Rearmed, Cancelled
  <2>2. /\ i \notin posted' => job'[i].status = "ABSENT" /\ effects'[i] = 0
        /\ i \in Durable /\ i \in posted' => job'[i].status # "ABSENT"
    BY <1>0, <1>2
       DEF Event, Armed, Forgotten, Finished, Failed, Rearmed, Cancelled, Counting, KeysKept
  <2>3. effects'[i] <= retries'[i] +
          (IF job'[i].status \in {"SUCCEEDED", "CANCELLED", "ABSENT"} THEN 1 ELSE 0)
    <3> DEFINE used(s) == IF s \in {"SUCCEEDED", "CANCELLED", "ABSENT"} THEN 1 ELSE 0
    <3>1. effects[i] <= retries[i] + used(job[i].status)
      BY DEF Counting, CommitOncePerArming
    <3>2. CASE Armed(i)
      <4>1. effects[i] = 0
        BY <3>2 DEF Armed, Counting, KeysKept
      <4> QED
        BY <3>2, <4>1, <1>0 DEF Armed
    <3>3. CASE Finished(i)
      BY <3>1, <3>3, <1>0 DEF Finished
    <3>4. CASE Rearmed(i)
      BY <3>1, <3>4, <1>0 DEF Rearmed
    <3>5. CASE Forgotten(i) \/ Failed(i) \/ Cancelled(i)
      BY <3>1, <3>5, <1>0 DEF Forgotten, Failed, Cancelled
    <3> QED
      BY <1>2, <3>2, <3>3, <3>4, <3>5 DEF Event
  <2>4. KeysKept'
    BY <2>1, <2>2 DEF Counting, KeysKept
  <2>5. CommitOncePerArming'
    BY <2>1, <2>3 DEF Counting, CommitOncePerArming
  <2> QED
    BY <2>4, <2>5 DEF Counting
<1> QED
  BY <1>1, <1>2, StepShows

\* A handler's transaction commits once for each time its job was armed: by the
\* enqueue of its key, and by each retry an operator made.  Takeover, sweep,
\* prune and a second enqueue under the same key never add an effect.
THEOREM OncePerArming == Spec => []CommitOncePerArming
<1>1. Init => Counting
  BY DEF Init, Counting, KeysKept, CommitOncePerArming, NoRow
<1>2. Counting => CommitOncePerArming
  BY DEF Counting
<1> QED
  BY TypedInit, TypedStep, FencedInit, FencedStep, <1>1, CountingStep, <1>2, PTL DEF Spec

-----------------------------------------------------------------------------
(***************************************************************************)
(* Refinement.                                                             *)
(***************************************************************************)

LEMMA ContractStep ==
  ASSUME Typed, Fenced, [Next]_vars
  PROVE  [Contract!Next]_Contract!vars
<1> DEFINE state == [j \in Jobs |-> Outcome(job[j].status)]
<1>0. /\ Outcome("ABSENT") = "none" /\ Outcome("SUCCEEDED") = "done"
      /\ Outcome("PENDING") = "open" /\ Outcome("RUNNING") = "open"
      /\ Outcome("FAILED") = "open" /\ Outcome("DEAD") = "dead"
      /\ Outcome("CANCELLED") = "cancelled"
      /\ \A s \in Status : s # "ABSENT" => Outcome(s) # "none"
  BY DEF Outcome, Open, Status, Retryable
<1>1. \A j \in Jobs : job[j].status \in Status
  BY DEF Typed, TypeOK, Row
<1>2. CASE Internal
  <2>1. \A j \in Jobs : Outcome(job'[j].status) = Outcome(job[j].status)
    BY <1>2, <1>0 DEF Internal, Open
  <2> QED
    BY <1>2, <2>1 DEF Internal, Contract!vars
<1>3. ASSUME NEW j \in Jobs, Event(j)
      PROVE  [Contract!Next]_Contract!vars
  <2>1. ASSUME NEW s, Outcome(job'[j].status) = s
        PROVE  Contract!Becomes(j, s)
    BY <1>3, <2>1 DEF Event, OnlyRow, Contract!Becomes
  <2>2. state[j] = Outcome(job[j].status)
    OBVIOUS
  <2>3. CASE Armed(j)
    BY <2>1, <2>2, <2>3, <1>0 DEF Armed, Contract!Arm, Contract!Next
  <2>4. CASE Forgotten(j)
    BY <2>1, <2>2, <2>4, <1>0 DEF Forgotten, Contract!Forget, Contract!Next
  <2>5. CASE Finished(j)
    BY <2>1, <2>2, <2>5, <1>0 DEF Finished, Contract!Finish, Contract!Next
  <2>6. CASE Rearmed(j)
    BY <2>1, <2>2, <2>6, <1>0, <1>1 DEF Rearmed, Contract!Rearm, Contract!Next
  <2>7. CASE Cancelled(j)
    BY <2>1, <2>2, <2>7, <1>0, <1>1 DEF Cancelled, Contract!Cancel, Contract!Next
  <2>8. CASE Failed(j) /\ job'[j].status = "DEAD"
    BY <2>1, <2>2, <2>8, <1>0 DEF Failed, Contract!GiveUp, Contract!Next
  <2>9. CASE Failed(j) /\ job'[j].status = "FAILED"
    <3>1. \A i \in Jobs : Outcome(job'[i].status) = Outcome(job[i].status)
      BY <1>3, <2>9, <1>0 DEF Event, OnlyRow, Failed
    <3> QED
      BY <2>9, <3>1 DEF Failed, Contract!vars
  <2> QED
    BY <1>3, <2>3, <2>4, <2>5, <2>6, <2>7, <2>8, <2>9 DEF Event, Failed
<1> QED
  BY <1>2, <1>3, StepShows

\* The queue implements JobContract: what callers and operators see of a job is
\* armed, then done with its effect in the same step, or dead; claims, leases,
\* takeovers and crashes are invisible.
THEOREM Implements == Spec => ImplementsContract
<1>1. Init => Contract!Init
  <2>1. Init => \A j \in Jobs : job[j].status = "ABSENT"
    BY DEF Init, NoRow
  <2>2. Outcome("ABSENT") = "none"
    BY DEF Outcome, Open
  <2> QED
    BY <2>1, <2>2 DEF Init, Contract!Init
<1>2. Typed /\ Fenced /\ [Next]_vars => [Contract!Next]_Contract!vars
  BY ContractStep
<1> QED
  BY TypedInit, TypedStep, FencedInit, FencedStep, <1>1, <1>2,
     PTL DEF Spec, ImplementsContract, Contract!Spec

-----------------------------------------------------------------------------
(***************************************************************************)
(* Live leases.                                                            *)
(***************************************************************************)

\* Who ends a claim: the worker that holds it, or an operator.
EndedRightly(j) ==
  \/ \E w \in Workers : \E c \in Held(w) : c.job = j /\ Owns(c) /\ c \notin Held(w)'
  \/ \E o \in Operators : request[o] # NoRequest /\ request'[o] = NoRequest

LeaseKept(j) ==
  job[j].status = "RUNNING" /\ job[j].lease >= 0 /\ job'[j].claim # job[j].claim => EndedRightly(j)

LEMMA LiveStep ==
  ASSUME Typed, Fenced, [Next]_vars, NEW j \in Jobs
  PROVE  LeaseKept(j)
<1>0. /\ NoClaim \notin Claims
      /\ \A w \in Workers : lag[w] \in Nat /\ batch[w] \subseteq Claims
                            /\ current[w] \in Claims \cup {NoClaim}
      /\ \A i \in Jobs : job[i] \in Row /\ job[i].lease \in Int
      /\ Grace \in Nat
  BY QueueAssumption DEF Typed, TypeOK, Row
<1>a. job'[j].claim = job[j].claim => LeaseKept(j)
  BY DEF LeaseKept
<1>b. ~(job[j].status = "RUNNING" /\ job[j].lease >= 0) => LeaseKept(j)
  BY DEF LeaseKept
\* failJob under a claim that is given up in the same step.
<1>f. ASSUME NEW w \in Workers, NEW c \in Held(w), FailJob(w, c), c \notin Held(w)'
      PROVE  LeaseKept(j)
  <2>1. CASE c.job # j \/ job[j].claim # c.id
    BY <1>a, <1>f, <2>1 DEF FailJob
  <2>2. CASE c.job = j /\ job[j].claim = c.id
    BY <1>f, <2>2 DEF LeaseKept, EndedRightly, Owns
  <2> QED
    BY <2>1, <2>2
<1>r. ASSUME NEW c \in Claims, job' = Renewed(c)
      PROVE  LeaseKept(j)
  BY <1>0, <1>a, <1>r DEF Renewed, Row
<1>1. ASSUME NEW i \in Jobs, Enqueue(i) \/ Prune(i)
      PROVE  LeaseKept(j)
  <2>1. CASE i = j
    BY <1>1, <1>b, <2>1 DEF Enqueue, Prune
  <2>2. CASE i # j
    <3>1. job'[j] = job[j]
      BY <1>1, <2>2 DEF Enqueue, Prune, Typed, TypeOK
    <3> QED
      BY <1>a, <3>1
  <2> QED
    BY <2>1, <2>2
<1>2. ASSUME NEW w \in Workers, Claim(w)
      PROVE  LeaseKept(j)
  <2>1. PICK l \in 0 .. ClaimLag, S \in SUBSET Jobs :
          /\ \A i \in S : Runnable(i, l)
          /\ job' = [i \in Jobs |-> IF i \in S THEN ClaimedRow(i, l) ELSE job[i]]
    BY <1>2 DEF Claim
  <2>2. CASE j \notin S
    BY <1>a, <2>1, <2>2
  <2>3. CASE j \in S
    <3>1. l \in Nat /\ ~(job[j].status = "RUNNING" /\ job[j].lease >= 0)
      BY <1>0, <2>1, <2>3, QueueAssumption DEF Runnable
    <3> QED
      BY <1>b, <3>1
  <2> QED
    BY <2>2, <2>3
<1>3. ASSUME NEW w \in Workers,
             ClaimNothing(w) \/ Throw(w) \/ SweepRead(w) \/ LoseAtCommit(w) \/ EndTick(w) \/ AbandonTick(w)
      PROVE  LeaseKept(j)
  BY <1>3, <1>a DEF ClaimNothing, Throw, SweepRead, LoseAtCommit, EndTick, AbandonTick
<1>4. ASSUME NEW w \in Workers, NEW c \in batch[w],
             StartJob(w, c) \/ LoseBeforeStart(w, c) \/ FailUnhandled(w, c)
      PROVE  LeaseKept(j)
  <2>1. c \in Claims /\ c \in Held(w) /\ c # current[w]
    BY <1>0 DEF Held, Fenced, RunsNoWaiting
  <2>2. CASE StartJob(w, c) \/ LoseBeforeStart(w, c)
    BY <1>a, <1>r, <2>1, <2>2 DEF StartJob, LoseBeforeStart
  <2>3. CASE FailUnhandled(w, c)
    <3>1. FailJob(w, c) /\ batch' = [batch EXCEPT ![w] = @ \ {c}] /\ current' = current
      BY <2>3 DEF FailUnhandled
    <3>2. c \notin Held(w)'
      BY <2>1, <3>1 DEF Held, Typed, TypeOK
    <3> QED
      BY <1>f, <2>1, <3>1, <3>2
  <2> QED
    BY <1>4, <2>2, <2>3
<1>5. ASSUME NEW w \in Workers, Heartbeat(w)
      PROVE  LeaseKept(j)
  <2>1. current[w] \in Claims
    BY <1>0, <1>5 DEF Heartbeat, Typed, HandlerHasClaim
  <2> QED
    BY <1>5, <1>r, <2>1 DEF Heartbeat
<1>6. ASSUME NEW w \in Workers, phase[w] \in {"run", "fail"}, NextInBatch(w), batch' = batch
      PROVE  current[w] \in Held(w) /\ current[w] \notin Held(w)'
  <2>1. current[w] # NoClaim /\ current[w] \notin batch[w]
    BY <1>6 DEF Typed, HandlerHasClaim, Fenced, RunsNoWaiting
  <2> QED
    BY <1>6, <2>1 DEF Held, NextInBatch, Typed, TypeOK
<1>7. ASSUME NEW w \in Workers, Commit(w)
      PROVE  LeaseKept(j)
  <2>1. current[w] \in Held(w) /\ current[w] \notin Held(w)'
    BY <1>6, <1>7 DEF Commit
  <2>2. CASE current[w].job = j
    BY <1>7, <2>1, <2>2 DEF Commit, LeaseKept, EndedRightly
  <2>3. CASE current[w].job # j
    BY <1>7, <1>a, <2>3 DEF Commit
  <2> QED
    BY <2>2, <2>3
<1>8. ASSUME NEW w \in Workers, FailCurrent(w)
      PROVE  LeaseKept(j)
  <2>1. current[w] \in Held(w) /\ current[w] \notin Held(w)'
    BY <1>6, <1>8 DEF FailCurrent
  <2> QED
    BY <1>8, <1>f, <2>1 DEF FailCurrent
<1>9. ASSUME NEW w \in Workers, NEW a \in abandoned[w], SweepWrite(w, a)
      PROVE  LeaseKept(j)
  <2>1. CASE PastCutoff(a.job, w) /\ a.job = j
    BY <1>0, <1>b, <2>1 DEF PastCutoff
  <2>2. CASE ~(PastCutoff(a.job, w) /\ a.job = j)
    BY <1>9, <1>a, <2>2 DEF SweepWrite
  <2> QED
    BY <2>1, <2>2
<1>10. ASSUME NEW o \in Operators, RequestWrite(o)
       PROVE  LeaseKept(j)
  BY <1>10 DEF RequestWrite, LeaseKept, EndedRightly, Typed, TypeOK
<1>11. ASSUME NEW o \in Operators, NEW r \in Requests, RequestRead(o, r)
       PROVE  LeaseKept(j)
  BY <1>11, <1>a DEF RequestRead
<1>12. CASE Elapse
  BY <1>0, <1>12, <1>a DEF Elapse, Aged, Row
<1>13. CASE UNCHANGED vars
  BY <1>13, <1>a DEF vars
<1> QED
  BY <1>1, <1>2, <1>3, <1>4, <1>5, <1>7, <1>8, <1>9, <1>10, <1>11, <1>12, <1>13 DEF Next, WorkerStep

\* As long as a lease is live, its claim is ended by the worker that holds it or
\* by an operator's request: claimJobs takes over only what has expired, by
\* whatever clock reading, and reapAbandonedJobs waits for the grace period, too.
THEOREM LiveLeases == Spec => LiveLeaseKept
<1>1. Typed /\ Fenced /\ [Next]_vars =>
        [\A j \in Jobs :
           (/\ job[j].status = "RUNNING" /\ job[j].lease >= 0
            /\ job'[j].claim # job[j].claim)
           => \/ \E w \in Workers : \E c \in Held(w) :
                   c.job = j /\ Owns(c) /\ c \notin Held(w)'
              \/ \E o \in Operators : request[o] # NoRequest /\ request'[o] = NoRequest]_vars
  BY LiveStep DEF LeaseKept, EndedRightly
<1> QED
  BY TypedInit, TypedStep, FencedInit, FencedStep, <1>1, PTL DEF Spec, LiveLeaseKept
=============================================================================
