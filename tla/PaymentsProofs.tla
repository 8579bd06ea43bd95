---------------------------- MODULE PaymentsProofs ----------------------------
(***************************************************************************)
(* What Payments promises about money, for any number of work items,       *)
(* payment items, batches, operators and requests, any amounts and any     *)
(* number of revisions: as long as no two calls of Conflicting overlap,    *)
(* nothing is paid twice, nothing is exported that was not signed, and the *)
(* totals, the files and the reviews agree with the rows.                  *)
(*                                                                         *)
(* Most statements write by what was read before.  The argument is that    *)
(* between the two the excluded calls are the only ones that could change  *)
(* it: Knows says, point by point, what a request still knows.             *)
(***************************************************************************)
EXTENDS Payments, FiniteSetTheorems, TLAPS

-----------------------------------------------------------------------------
(***************************************************************************)
(* The inductive invariant.                                                *)
(***************************************************************************)

\* The call a session is in the middle of, and what it is about.
Fits(r) ==
  /\ r \in Session
  /\ r.at \in {"submitCreate", "submitUpdate"} =>
       r.call = "submit" /\ r.on \in Works /\ r.n > 0
  /\ r.at \in {"reviewCreate", "reviewUpdate", "reviewEnqueue"} =>
       r.call = "review" /\ r.on \in Works
  /\ r.at = "resolveWrite" => r.call = "resolve" /\ r.on \in Items /\ r.seen \in ItemStatus
  /\ r.at = "correctWrite" => r.call = "correct" /\ r.on \in Items
  /\ r.at = "batchWrite" => r.call = "batch" /\ r.by \in Operators
  /\ r.at = "sendWrite" => r.call = "send" /\ r.on \in Batches
  /\ r.at = "approveClaim" => r.call = "approve" /\ r.on \in Batches /\ r.by \in Operators
  /\ r.at \in {"exportClaim", "exportItems", "exportAnswer"} => r.call = "export" /\ r.on \in Batches

SessionsFit == \A s \in Sessions : Fits(session[s])

\* Only calls that may overlap are in progress together.
Disciplined ==
  \A s, t \in Sessions :
    s # t /\ Active(s) /\ Active(t) => {session[s].call, session[t].call} \in Overlapping

\* The work item can still be handed in.
Undelivered(w) == work[w].status \notin {"SUBMITTED", "APPROVED"}

\* What a request knows of the work it is about: a revision number belongs to
\* one submission, and only the reviewer takes a submitted item further.
KnowsWork(r) ==
  /\ r.at = "submitCreate" =>
       /\ r.n <= work[r.on].revision + 1
       /\ r.n = work[r.on].revision + 1 => Undelivered(r.on)
  /\ r.at = "submitUpdate" =>
       /\ r.n = work[r.on].revision + 1 /\ r.n = work[r.on].submissions
       /\ Undelivered(r.on)
  /\ r.at \in {"reviewCreate", "reviewUpdate"} => work[r.on].status = "SUBMITTED"

\* What a request knows of the items it is about.
KnowsItems(r) ==
  /\ r.at = "resolveWrite" =>
       /\ r.seen \in {"DRAFT", "READY", "IN_BATCH", "VOID"}
       /\ item[r.on].status = r.seen \/ (r.seen = "DRAFT" /\ item[r.on].status = "READY")
  /\ r.at = "correctWrite" =>
       /\ Live(r.on) /\ item[r.on].batch = r.batch
       /\ r.batch # None => r.seen = batch[r.batch].status
  /\ r.at = "batchWrite" =>
       /\ \A i \in r.items : item[i].status = "READY" /\ item[i].batch = None
       /\ r.n = Total(item, r.items)

\* What a request knows of the batch it is about.
KnowsBatch(r) ==
  /\ r.at = "sendWrite" =>
       /\ batch[r.on].status = "DRAFT"
       /\ \A i \in Items : item[i].batch = r.on => item[i].flags # "open"
  /\ r.at \in {"approveClaim", "exportClaim", "exportItems", "exportAnswer"} =>
       /\ batch[r.on].status # "ABSENT"
       /\ r.items = Contents(item, r.on)
  /\ r.at = "approveClaim" => r.by # batch[r.on].createdBy
  /\ r.at \in {"exportItems", "exportAnswer"} => batch[r.on].status = "EXPORTED"
  /\ r.at = "exportItems" => \A i \in r.items : item[i].status = "IN_BATCH"
  /\ r.at = "exportAnswer" => \A i \in r.items : item[i].status = "EXPORTED"

Knows == \A s \in Sessions :
  KnowsWork(session[s]) /\ KnowsItems(session[s]) /\ KnowsBatch(session[s])

\* A batch is exported by one request.
OneExporter ==
  \A s, t \in Sessions :
    /\ Exporting(s) /\ Exporting(t)
    /\ session[s].on = session[t].on
    => s = t

\* What a claimed export is about to answer with has left in no file yet, and
\* no export of its batch has died.
InHand ==
  \A s \in Sessions : Exporting(s) =>
    session[s].on \notin cut /\ \A i \in session[s].items : files[i] = 0

Delivery == FilesRecorded /\ InHand

\* A submission that was created is carried on by the request that created it.
OneSubmitter ==
  \A s, t \in Sessions :
    /\ session[s].at = "submitUpdate" /\ session[t].at = "submitUpdate"
    /\ session[s].on = session[t].on
    => s = t

\* The last submission is the current revision or the one after it.
WorkRows == \A w \in Works : work[w].revision <= work[w].submissions

\* One payment item: the columns agree, with its batch and with the files.
ItemRow(i) ==
  /\ item[i].status = "ABSENT" => item[i] = NoItem
  /\ item[i].status # "ABSENT" => item[i].work \in Works
  /\ item[i].superseded <=> item[i].status = "VOID"
  /\ item[i].batch # None <=> item[i].status \in {"IN_BATCH", "EXPORTED"}
  /\ item[i].batch # None => batch[item[i].batch].status # "ABSENT"
  /\ item[i].status = "EXPORTED" => batch[item[i].batch].status = "EXPORTED"
  /\ files[i] \in {0, 1}

ItemRows == \A i \in Items : ItemRow(i)
BatchRows == \A b \in Batches : batch[b].status = "ABSENT" => batch[b] = NoBatch

Typed == TypeOK /\ SessionsFit

Inv ==
  /\ Typed /\ Disciplined /\ Knows /\ OneExporter /\ OneSubmitter
  /\ WorkRows /\ ItemRows /\ BatchRows
  /\ PaidOnce /\ SignedOff /\ TotalsMatch /\ ExplainedFirst /\ Delivery /\ PaidAsReviewed

-----------------------------------------------------------------------------
(***************************************************************************)
(* Totals.  They are a recursion over the set of items, whose solution has *)
(* to be shown to exist.                                                   *)
(***************************************************************************)

LEMMA TotalUnfold ==
  ASSUME NEW table, NEW I
  PROVE  Total(table, I) =
           (CHOOSE g : g = [s \in SUBSET I |->
             IF s = {} THEN 0
             ELSE table[CHOOSE x \in s : TRUE].amount + g[s \ {CHOOSE x \in s : TRUE}]])[I]
BY DEF Total, MapThenSumSet, MapThenFoldSet

LEMMA TotalOfNone == ASSUME NEW table PROVE Total(table, {}) = 0
<1> DEFINE F(g) == [s \in SUBSET {} |->
             IF s = {} THEN 0
             ELSE table[CHOOSE x \in s : TRUE].amount + g[s \ {CHOOSE x \in s : TRUE}]]
<1>1. \A s \in SUBSET {} : s = {}
  OBVIOUS
<1>2. LET z == [s \in SUBSET {} |-> 0] IN z = F(z)
  BY <1>1
<1>3. \E g : g = F(g)
  BY <1>2
<1>4. LET g == CHOOSE g : g = F(g) IN g = F(g)
  BY <1>3
<1>5. LET g == CHOOSE g : g = F(g) IN g[{}] = 0
  BY <1>4
<1> QED
  BY <1>5, TotalUnfold

\* A total depends on nothing but the amounts of its rows.
LEMMA SameTotal ==
  ASSUME NEW t, NEW u, NEW I, \A i \in I : t[i].amount = u[i].amount
  PROVE  Total(t, I) = Total(u, I)
<1> DEFINE pick(s) == CHOOSE x \in s : TRUE
           F(g) == [s \in SUBSET I |-> IF s = {} THEN 0 ELSE t[pick(s)].amount + g[s \ {pick(s)}]]
           G(g) == [s \in SUBSET I |-> IF s = {} THEN 0 ELSE u[pick(s)].amount + g[s \ {pick(s)}]]
<1>1. \A s \in SUBSET I : s # {} => t[pick(s)].amount = u[pick(s)].amount
  OBVIOUS
<1> HIDE DEF pick
<1>2. \A g : F(g) = G(g)
  BY <1>1
<1>3. (CHOOSE g : g = F(g)) = (CHOOSE g : g = G(g))
  BY <1>2, Zenon
<1> QED
  BY <1>3, TotalUnfold DEF pick

\* Every nonempty set of naturals has a least element.
LEMMA LeastNatural ==
  ASSUME NEW B \in SUBSET Nat, B # {}
  PROVE  \E n \in B : \A m \in B : n <= m
<1> DEFINE R == {ss \in Nat \X Nat : ss[1] < ss[2]}
<1>1. IsWellFoundedOn(R, Nat)
  BY NatLessThanWellFounded DEF OpToRel
<1>2. \A m, n \in Nat : ~ (<<m, n>> \in R) => n <= m
  OBVIOUS
<1> HIDE DEF R
<1>3. PICK n \in B : \A m \in B : ~ (<<m, n>> \in R)
  BY <1>1, WFMin
<1> QED
  BY <1>2, <1>3

\* The recursion that defines a total has a solution with natural numbers.
LEMMA TotalNatural ==
  ASSUME NEW t, NEW I, IsFiniteSet(I), \A i \in I : t[i].amount \in Nat
  PROVE  Total(t, I) \in Nat
<1> DEFINE pick(s) == CHOOSE x \in s : TRUE
           Upto(n) == {s \in SUBSET I : Cardinality(s) <= n}
           F(g, D) == [s \in D |-> IF s = {} THEN 0 ELSE t[pick(s)].amount + g[s \ {pick(s)}]]
           Bad == {n \in Nat : ~ \E g \in [Upto(n) -> Nat] : g = F(g, Upto(n))}
<1>1. \A s \in SUBSET I : s # {} => pick(s) \in s /\ t[pick(s)].amount \in Nat
  OBVIOUS
<1> HIDE DEF pick
<1>2. \A s \in SUBSET I : IsFiniteSet(s) /\ Cardinality(s) \in Nat
  BY FS_Subset, FS_CardinalityType
<1>3. \A s \in SUBSET I : s # {} => Cardinality(s \ {pick(s)}) = Cardinality(s) - 1
  BY <1>1, <1>2, FS_RemoveElement
<1>4. \A s \in SUBSET I : Cardinality(s) = 0 <=> s = {}
  BY <1>2, FS_EmptySet
<1>5. 0 \notin Bad
  <2>1. Upto(0) = {{}}
    BY <1>2, <1>4
  <2> DEFINE g == [s \in Upto(0) |-> 0]
  <2>2. g \in [Upto(0) -> Nat] /\ g = F(g, Upto(0))
    BY <2>1
  <2> QED
    BY <2>2
<1>6. ASSUME NEW n \in Nat, n \notin Bad
      PROVE  n + 1 \notin Bad
  <2>1. PICK g \in [Upto(n) -> Nat] : g = F(g, Upto(n))
    BY <1>6
  <2> DEFINE h == F(g, Upto(n + 1))
  <2>2. \A s \in Upto(n + 1) : s # {} => s \ {pick(s)} \in Upto(n)
    BY <1>2, <1>3
  <2>3. h \in [Upto(n + 1) -> Nat]
    BY <1>1, <2>2
  <2>4. \A s \in Upto(n) : h[s] = g[s]
    <3>1. Upto(n) \subseteq Upto(n + 1)
      BY <1>2
    <3> QED
      BY <2>1, <3>1
  <2>5. h = F(h, Upto(n + 1))
    BY <2>2, <2>4
  <2> QED
    BY <2>3, <2>5
<1>7. Bad = {}
  <2> SUFFICES ASSUME Bad # {} PROVE FALSE
    OBVIOUS
  <2>1. PICK n \in Bad : \A m \in Bad : n <= m
    BY LeastNatural
  <2>2. n \in Nat /\ n # 0
    BY <1>5
  <2>3. n - 1 \in Nat /\ (n - 1) + 1 = n
    BY <2>2
  <2> HIDE DEF Bad
  <2>4. n - 1 \in Bad
    BY <1>6, <2>3
  <2> QED
    BY <2>1, <2>2, <2>4
<1>8. Upto(Cardinality(I)) = SUBSET I
  BY FS_Subset, <1>2
<1> DEFINE H(g) == F(g, SUBSET I)
<1>9. \E g : g = H(g)
  <2> DEFINE Solved(n) == \E g \in [Upto(n) -> Nat] : g = F(g, Upto(n))
  <2>1. \A n \in Nat : n \notin Bad => Solved(n)
    OBVIOUS
  <2> HIDE DEF Bad
  <2>2. Solved(Cardinality(I))
    BY <1>2, <1>7, <2>1
  <2> QED
    BY <1>8, <2>2
<1> DEFINE iter == CHOOSE g : g = H(g)
<1>10. iter = H(iter)
  BY <1>9
<1> DEFINE Odd == {n \in Nat : \E s \in SUBSET I : Cardinality(s) = n /\ iter[s] \notin Nat}
<1> HIDE DEF iter
<1>11. Odd = {}
  <2> SUFFICES ASSUME Odd # {} PROVE FALSE
    OBVIOUS
  <2>1. PICK n \in Odd : \A m \in Odd : n <= m
    BY LeastNatural
  <2>2. PICK s \in SUBSET I : Cardinality(s) = n /\ iter[s] \notin Nat
    OBVIOUS
  <2>3. \A r \in SUBSET I :
          iter[r] = IF r = {} THEN 0 ELSE t[pick(r)].amount + iter[r \ {pick(r)}]
    BY <1>10
  <2>4. s # {} /\ iter[s] = t[pick(s)].amount + iter[s \ {pick(s)}]
    BY <2>2, <2>3
  <2>5. Cardinality(s \ {pick(s)}) = n - 1 /\ n - 1 \in Nat /\ n - 1 < n
    BY <1>2, <1>3, <1>4, <2>2, <2>4
  <2>6. iter[s \ {pick(s)}] \notin Nat
    BY <1>1, <2>2, <2>4
  <2>7. n - 1 \in Odd
    BY <2>5, <2>6
  <2> QED
    BY <2>1, <2>5, <2>7
<1>12. iter[I] \in Nat
  BY <1>2, <1>11
<1> QED
  BY <1>12, TotalUnfold DEF pick, iter

-----------------------------------------------------------------------------
(***************************************************************************)
(* Requests that read, and requests that end.                              *)
(***************************************************************************)

\* What a step says of the session it is about: it goes on to r, which knows
\* what it must and does not overlap with what it may not.
Proper(s, r) ==
  /\ Goes(s, r) /\ Fits(r)
  /\ r.at # "idle" =>
       \A t \in Sessions \ {s} : Active(t) => {r.call, session[t].call} \in Overlapping

LEMMA ProperStep ==
  ASSUME Inv, NEW s \in Sessions, NEW r, Proper(s, r)
  PROVE  /\ session' \in [Sessions -> Session] /\ SessionsFit' /\ Disciplined'
         /\ session'[s] = r /\ \A t \in Sessions \ {s} : session'[t] = session[t]
<1>1. session \in [Sessions -> Session] /\ SessionsFit /\ Disciplined
  BY DEF Inv, Typed, TypeOK
<1>2. /\ session' = [session EXCEPT ![s] = r]
      /\ Fits(r) /\ r \in Session
  BY DEF Proper, Goes, Fits
<1>3. session'[s] = r /\ \A t \in Sessions \ {s} : session'[t] = session[t]
  BY <1>1, <1>2
<1>4. SessionsFit'
  BY <1>1, <1>2, <1>3 DEF SessionsFit, Fits
<1>5. Disciplined'
  <2> SUFFICES ASSUME NEW t \in Sessions, NEW u \in Sessions, t # u, Active(t)', Active(u)'
               PROVE  {session'[t].call, session'[u].call} \in Overlapping
    BY DEF Disciplined
  <2>1. CASE t = s
    BY <1>3, <2>1 DEF Proper, Active
  <2>2. CASE u = s
    <3>1. {r.call, session[t].call} \in Overlapping
      BY <1>3, <2>2 DEF Proper, Active
    <3>2. {r.call, session[t].call} = {session[t].call, r.call}
      OBVIOUS
    <3> QED
      BY <1>3, <2>2, <3>1, <3>2
  <2>3. CASE t # s /\ u # s
    BY <1>1, <1>3, <2>3 DEF Disciplined, Active
  <2> QED
    BY <2>1, <2>2, <2>3
<1> QED
  BY <1>1, <1>2, <1>3, <1>4, <1>5

LEMMA IdleProper ==
  ASSUME NEW s \in Sessions, Goes(s, Idle)
  PROVE  /\ Proper(s, Idle) /\ Idle.at = "idle"
         /\ KnowsWork(Idle) /\ KnowsItems(Idle) /\ KnowsBatch(Idle)
<1>1. Idle \in Session /\ Idle.at = "idle"
  BY DEF Idle, Session, Points, ItemStatus
<1> QED
  BY <1>1 DEF Proper, Fits, KnowsWork, KnowsItems, KnowsBatch

\* The tables, all but the queue of drafting jobs.
Tables == <<work, item, batch, signed, files, cut>>

\* Steps that do not touch exported batches, files and exports on their way.
LEMMA DeliveryKept ==
  ASSUME Inv, files' = files, cut' = cut,
         \A t \in Sessions : \/ session'[t] = session[t]
                             \/ /\ session[t].at \notin {"exportItems", "exportAnswer"}
                                /\ session'[t].at \notin {"exportItems", "exportAnswer"},
         \A b \in Batches : batch'[b].status = "EXPORTED" <=> batch[b].status = "EXPORTED",
         \A b \in Batches : batch[b].status = "EXPORTED" =>
           \A i \in Contents(item', b) : i \in Contents(item, b) /\ item'[i].status = item[i].status,
         \A i \in Items : files[i] = 1 => item'[i].status \in {"EXPORTED", "VOID"}
  PROVE  Delivery'
<1>1. InHand'
  BY DEF Inv, Delivery, InHand, Exporting
<1>2. ASSUME NEW b \in Batches, batch[b].status = "EXPORTED",
             \A s \in Sessions : Exporting(s)' => session'[s].on # b
      PROVE  b \in cut \/ \A i \in Contents(item', b) : item'[i].status = "EXPORTED" /\ files[i] = 1
  <2>1. \A s \in Sessions : Exporting(s) => session[s].on # b
    BY <1>2 DEF Exporting
  <2> QED
    BY <1>2, <2>1 DEF Inv, Delivery, FilesRecorded
<1>3. \A b \in cut \cap Batches :
        batch'[b].status = "EXPORTED" /\ \A i \in Contents(item', b) : files[i] = 0
  BY DEF Inv, Delivery, FilesRecorded
<1> QED
  BY <1>1, <1>2, <1>3 DEF Delivery, FilesRecorded

LEMMA CalmStep ==
  ASSUME Inv, NEW s \in Sessions, ~Exporting(s),
         NEW r, Proper(s, r), r.at \notin {"exportItems", "exportAnswer", "submitUpdate"},
         KnowsWork(r), KnowsItems(r), KnowsBatch(r),
         UNCHANGED Tables, drafts' \in [Works -> Nat]
  PROVE  Inv'
<1>1. /\ session' \in [Sessions -> Session] /\ SessionsFit' /\ Disciplined'
      /\ session'[s] = r /\ \A t \in Sessions \ {s} : session'[t] = session[t]
  BY ProperStep
<1>2. /\ work' = work /\ item' = item /\ batch' = batch
      /\ signed' = signed /\ files' = files /\ cut' = cut
  BY DEF Tables
<1>3. Typed'
  BY <1>1, <1>2 DEF Inv, Typed, TypeOK
<1>4. Knows'
  <2> SUFFICES ASSUME NEW t \in Sessions
               PROVE  (KnowsWork(session[t]) /\ KnowsItems(session[t]) /\ KnowsBatch(session[t]))'
    BY DEF Knows
  <2>1. KnowsWork(session'[t]) /\ KnowsItems(session'[t]) /\ KnowsBatch(session'[t])
    BY <1>1 DEF Inv, Knows
  <2> QED
    BY <1>2, <2>1 DEF KnowsWork, KnowsItems, KnowsBatch, Undelivered, Live, Contents
<1>5. OneExporter' /\ OneSubmitter'
  BY <1>1 DEF Inv, OneExporter, OneSubmitter, Exporting
<1>6. WorkRows' /\ ItemRows' /\ BatchRows'
  BY <1>2 DEF Inv, WorkRows, ItemRows, ItemRow, BatchRows
<1>7. PaidOnce' /\ SignedOff' /\ TotalsMatch' /\ ExplainedFirst' /\ PaidAsReviewed'
  BY <1>2 DEF Inv, PaidOnce, SignedOff, TotalsMatch, ExplainedFirst, PaidAsReviewed, Live, Contents
<1>8. Delivery'
  <2>1. \A i \in Items : files[i] = 1 => item[i].status \in {"EXPORTED", "VOID"}
    BY DEF Inv, Delivery, FilesRecorded
  <2> QED
    BY <1>1, <1>2, <2>1, DeliveryKept DEF Exporting, Contents
<1> QED
  BY <1>1, <1>3, <1>4, <1>5, <1>6, <1>7, <1>8 DEF Inv

\* A request that arrives with record r is proper.
LEMMA ArrivalProper ==
  ASSUME NEW s \in Sessions, NEW call \in AllCalls, NEW r, Arrives(s, call), Goes(s, r),
         Fits(r), r.call = call
  PROVE  Proper(s, r)
BY DEF Arrives, Proper

LEMMA ReadStep ==
  ASSUME Inv, NEW s \in Sessions, NEW call \in AllCalls, NEW r, Arrives(s, call), Goes(s, r),
         Fits(r), r.call = call, r.at \notin {"exportItems", "exportAnswer", "submitUpdate"},
         KnowsWork(r), KnowsItems(r), KnowsBatch(r),
         UNCHANGED <<work, drafts, item, batch, historyVars>>
  PROVE  Inv'
<1>1. UNCHANGED Tables /\ drafts' \in [Works -> Nat]
  BY DEF Tables, historyVars, Inv, Typed, TypeOK
<1>2. ~Exporting(s)
  BY DEF Arrives, Active, Exporting
<1> QED
  BY <1>1, <1>2, ArrivalProper, CalmStep

LEMMA SubmitReadStep ==
  ASSUME Inv, NEW s \in Sessions, NEW w \in Works, SubmitRead(s, w)
  PROVE  Inv'
<1> DEFINE r == [Idle EXCEPT !.call = "submit", !.at = "submitCreate", !.on = w,
                             !.n = work[w].revision + 1]
<1>1. work[w].revision \in Nat /\ work[w].revision + 1 \in Nat /\ work[w].revision + 1 > 0
  BY DEF Inv, Typed, TypeOK, Work
<1>2. r.at = "submitCreate" /\ r.call = "submit" /\ r.on = w /\ r.n = work[w].revision + 1
  BY DEF Idle
<1>3. Fits(r)
  BY <1>1 DEF Idle, Fits, Session, AllCalls, Points, ItemStatus
<1>4. KnowsWork(r) /\ KnowsItems(r) /\ KnowsBatch(r)
  BY <1>1, <1>2 DEF KnowsWork, KnowsItems, KnowsBatch, SubmitRead, Undelivered
<1> QED
  BY <1>2, <1>3, <1>4, ReadStep DEF SubmitRead, AllCalls

LEMMA ReviewReadStep ==
  ASSUME Inv, NEW s \in Sessions, NEW w \in Works, NEW n \in Quantities \cup {0}, ReviewRead(s, w, n)
  PROVE  Inv'
<1> DEFINE r == [Idle EXCEPT !.call = "review", !.at = "reviewCreate", !.on = w, !.n = n]
<1>1. n \in Nat
  BY PaymentsAssumption
<1>2. r.at = "reviewCreate" /\ r.call = "review" /\ r.on = w
  BY DEF Idle
<1>3. Fits(r)
  BY <1>1 DEF Idle, Fits, Session, AllCalls, Points, ItemStatus
<1>4. KnowsWork(r) /\ KnowsItems(r) /\ KnowsBatch(r)
  BY <1>2 DEF KnowsWork, KnowsItems, KnowsBatch, ReviewRead
<1> QED
  BY <1>2, <1>3, <1>4, ReadStep DEF ReviewRead, AllCalls

LEMMA ResolveReadStep ==
  ASSUME Inv, NEW s \in Sessions, NEW i \in Items, ResolveRead(s, i)
  PROVE  Inv'
<1> DEFINE r == [Idle EXCEPT !.call = "resolve", !.at = "resolveWrite", !.on = i,
                             !.seen = item[i].status]
<1>1. item[i].status \in ItemStatus
  BY DEF Inv, Typed, TypeOK, Item
<1>2. r.at = "resolveWrite" /\ r.call = "resolve" /\ r.on = i /\ r.seen = item[i].status
  BY DEF Idle
<1>3. Fits(r)
  BY <1>1 DEF Idle, Fits, Session, AllCalls, Points
<1>4. KnowsWork(r) /\ KnowsItems(r) /\ KnowsBatch(r)
  BY <1>1, <1>2 DEF KnowsWork, KnowsItems, KnowsBatch, ResolveRead, ItemStatus
<1> QED
  BY <1>2, <1>3, <1>4, ReadStep DEF ResolveRead, AllCalls

LEMMA CorrectReadStep ==
  ASSUME Inv, NEW s \in Sessions, NEW i \in Items, NEW n \in Quantities, CorrectRead(s, i, n)
  PROVE  Inv'
<1> DEFINE b == item[i].batch
           r == [Idle EXCEPT !.call = "correct", !.at = "correctWrite", !.on = i, !.n = n,
                             !.batch = b,
                             !.seen = IF b = None THEN "ABSENT" ELSE batch[b].status]
<1>1. n \in Nat /\ b \in Batches \cup {None} /\ (b # None => batch[b].status \in BatchStatus)
  BY PaymentsAssumption DEF Inv, Typed, TypeOK, Item, Batch
<1>2. /\ r.at = "correctWrite" /\ r.call = "correct" /\ r.on = i /\ r.batch = b
      /\ b # None => r.seen = batch[b].status
  BY DEF Idle
<1>3. Fits(r)
  BY <1>1 DEF Idle, Fits, Session, AllCalls, Points, ItemStatus
<1>4. KnowsWork(r) /\ KnowsItems(r) /\ KnowsBatch(r)
  BY <1>2 DEF KnowsWork, KnowsItems, KnowsBatch, CorrectRead, Live
<1> QED
  BY <1>2, <1>3, <1>4, ReadStep DEF CorrectRead, AllCalls

LEMMA BatchReadStep ==
  ASSUME Inv, NEW s \in Sessions, NEW I \in SUBSET Items, NEW o \in Operators, BatchRead(s, I, o)
  PROVE  Inv'
<1> DEFINE r == [Idle EXCEPT !.call = "batch", !.at = "batchWrite", !.by = o, !.items = I,
                             !.n = Total(item, I)]
<1>1. Total(item, I) \in Nat
  <2>1. IsFiniteSet(I)
    BY PaymentsAssumption, FS_Subset
  <2> QED
    BY <2>1, TotalNatural DEF Inv, Typed, TypeOK, Item
<1>2. /\ r.at = "batchWrite" /\ r.call = "batch" /\ r.by = o /\ r.items = I
      /\ r.n = Total(item, I)
  BY DEF Idle
<1>3. Fits(r)
  BY <1>1 DEF Idle, Fits, Session, AllCalls, Points, ItemStatus
<1>4. \A i \in I : item[i].status = "READY" /\ item[i].batch = None
  BY DEF BatchRead, Batchable, Inv, ItemRows, ItemRow, Typed, TypeOK, Item, ItemStatus
<1>5. KnowsWork(r) /\ KnowsItems(r) /\ KnowsBatch(r)
  BY <1>2, <1>4 DEF KnowsWork, KnowsItems, KnowsBatch
<1> QED
  BY <1>2, <1>3, <1>5, ReadStep DEF BatchRead, AllCalls

LEMMA SendReadStep ==
  ASSUME Inv, NEW s \in Sessions, NEW b \in Batches, SendRead(s, b)
  PROVE  Inv'
<1> DEFINE r == [Idle EXCEPT !.call = "send", !.at = "sendWrite", !.on = b]
<1>1. r.at = "sendWrite" /\ r.call = "send" /\ r.on = b
  BY DEF Idle
<1>2. Fits(r)
  BY DEF Idle, Fits, Session, AllCalls, Points, ItemStatus
<1>3. KnowsWork(r) /\ KnowsItems(r) /\ KnowsBatch(r)
  BY <1>1 DEF KnowsWork, KnowsItems, KnowsBatch, SendRead
<1> QED
  BY <1>1, <1>2, <1>3, ReadStep DEF SendRead, AllCalls

LEMMA ApproveReadStep ==
  ASSUME Inv, NEW s \in Sessions, NEW b \in Batches, NEW o \in Operators, ApproveRead(s, b, o)
  PROVE  Inv'
<1> DEFINE r == [Idle EXCEPT !.call = "approve", !.at = "approveClaim", !.on = b, !.by = o,
                             !.items = Contents(item, b)]
<1>1. Contents(item, b) \subseteq Items
  BY DEF Contents
<1>2. /\ r.at = "approveClaim" /\ r.call = "approve" /\ r.on = b /\ r.by = o
      /\ r.items = Contents(item, b)
  BY DEF Idle
<1>3. Fits(r)
  BY <1>1 DEF Idle, Fits, Session, AllCalls, Points, ItemStatus
<1>4. KnowsWork(r) /\ KnowsItems(r) /\ KnowsBatch(r)
  BY <1>2 DEF KnowsWork, KnowsItems, KnowsBatch, ApproveRead
<1> QED
  BY <1>2, <1>3, <1>4, ReadStep DEF ApproveRead, AllCalls

LEMMA ExportReadStep ==
  ASSUME Inv, NEW s \in Sessions, NEW b \in Batches, ExportRead(s, b)
  PROVE  Inv'
<1> DEFINE r == [Idle EXCEPT !.call = "export", !.at = "exportClaim", !.on = b,
                             !.items = Contents(item, b)]
<1>1. Contents(item, b) \subseteq Items
  BY DEF Contents
<1>2. /\ r.at = "exportClaim" /\ r.call = "export" /\ r.on = b
      /\ r.items = Contents(item, b)
  BY DEF Idle
<1>3. Fits(r)
  BY <1>1 DEF Idle, Fits, Session, AllCalls, Points, ItemStatus
<1>4. KnowsWork(r) /\ KnowsItems(r) /\ KnowsBatch(r)
  BY <1>2 DEF KnowsWork, KnowsItems, KnowsBatch, ExportRead
<1> QED
  BY <1>2, <1>3, <1>4, ReadStep DEF ExportRead, AllCalls

LEMMA ReviewEnqueueStep ==
  ASSUME Inv, NEW s \in Sessions, ReviewEnqueue(s)
  PROVE  Inv'
<1>1. session[s].on \in Works
  BY DEF ReviewEnqueue, Inv, Typed, SessionsFit, Fits
<1>2. UNCHANGED Tables /\ drafts' \in [Works -> Nat]
  BY <1>1 DEF ReviewEnqueue, Tables, historyVars, Inv, Typed, TypeOK
<1> QED
  BY <1>2, IdleProper, CalmStep DEF ReviewEnqueue, Ends, Goes, Exporting

-----------------------------------------------------------------------------
(***************************************************************************)
(* Submissions and reviews.                                                *)
(***************************************************************************)

\* Two requests in progress are not of conflicting calls.
LEMMA NoConflict ==
  ASSUME Overlapping \cap Conflicting = {}, Disciplined,
         NEW s \in Sessions, NEW t \in Sessions, s # t, Active(s), Active(t)
  PROVE  {session[s].call, session[t].call} \notin Conflicting
BY DEF Disciplined

LEMMA WorkWrite ==
  ASSUME Inv, UNCHANGED <<item, batch, historyVars>>,
         drafts' \in [Works -> Nat], work' \in [Works -> Work],
         session' \in [Sessions -> Session], SessionsFit', Disciplined',
         \A t \in Sessions : \/ session'[t] = session[t]
                             \/ /\ session'[t].at \in {"idle", "submitUpdate", "reviewUpdate", "reviewEnqueue"}
                                /\ ~Exporting(t),
         \A t \in Sessions : KnowsWork(session[t])',
         OneSubmitter', WorkRows', PaidAsReviewed'
  PROVE  Inv'
<1>1. /\ item' = item /\ batch' = batch /\ signed' = signed /\ files' = files /\ cut' = cut
  BY DEF historyVars
<1>2. Typed'
  BY <1>1 DEF Inv, Typed, TypeOK
<1>3. Knows'
  <2> SUFFICES ASSUME NEW t \in Sessions
               PROVE  (KnowsItems(session[t]) /\ KnowsBatch(session[t]))'
    BY DEF Knows
  <2>1. KnowsItems(session'[t]) /\ KnowsBatch(session'[t])
    <3>1. CASE session'[t] = session[t]
      BY <3>1 DEF Inv, Knows
    <3>2. CASE session'[t] # session[t]
      BY <3>2 DEF KnowsItems, KnowsBatch
    <3> QED
      BY <3>1, <3>2
  <2> QED
    BY <1>1, <2>1 DEF KnowsItems, KnowsBatch, Live, Contents
<1>4. OneExporter'
  BY DEF Inv, OneExporter, Exporting
<1>5. ItemRows' /\ BatchRows'
  BY <1>1 DEF Inv, ItemRows, ItemRow, BatchRows
<1>6. PaidOnce' /\ SignedOff' /\ TotalsMatch' /\ ExplainedFirst'
  BY <1>1 DEF Inv, PaidOnce, SignedOff, TotalsMatch, ExplainedFirst, Live, Contents
<1>7. Delivery'
  <2>1. \A i \in Items : files[i] = 1 => item[i].status \in {"EXPORTED", "VOID"}
    BY DEF Inv, Delivery, FilesRecorded
  <2> QED
    BY <1>1, <2>1, DeliveryKept DEF Exporting, Contents
<1> QED
  BY <1>2, <1>3, <1>4, <1>5, <1>6, <1>7 DEF Inv

\* Work that is not approved has nothing live to its name.
LEMMA Unpaid ==
  ASSUME Inv, NEW w \in Works, work[w].status # "APPROVED", NEW i \in Items, Live(i)
  PROVE  item[i].work \in Works /\ item[i].work # w
BY DEF Inv, PaidAsReviewed, ItemRows, ItemRow, Live

\* Of the work item a request does not write, nothing changes.
LEMMA OtherWork ==
  ASSUME Inv, NEW w \in Works, work' \in [Works -> Work],
         \A v \in Works \ {w} : work'[v] = work[v],
         UNCHANGED item, work[w].status # "APPROVED"
  PROVE  PaidAsReviewed'
<1>1. ASSUME NEW i \in Items, Live(i)
      PROVE  /\ item[i].work \in Works /\ work'[item[i].work] = work[item[i].work]
  BY <1>1, Unpaid
<1> QED
  BY <1>1 DEF Inv, PaidAsReviewed, Live

LEMMA SubmitCreateStep ==
  ASSUME Inv, NEW s \in Sessions, SubmitCreate(s)
  PROVE  Inv'
<1> DEFINE w == session[s].on
           n == session[s].n
           r == [session[s] EXCEPT !.at = "submitUpdate"]
<1>1. /\ session[s] \in Session /\ session[s].at = "submitCreate"
      /\ session[s].call = "submit" /\ w \in Works /\ n \in Nat /\ n > 0
      /\ session[s].on = w /\ session[s].n = n
  BY DEF SubmitCreate, Inv, Typed, TypeOK, SessionsFit, Fits, Session
<1>2. CASE ~RevisionFree(w, n)
  <2>1. UNCHANGED Tables /\ drafts' \in [Works -> Nat] /\ Ends(s)
    BY <1>2 DEF SubmitCreate, Tables, historyVars, Inv, Typed, TypeOK
  <2> QED
    BY <1>1, <2>1, IdleProper, CalmStep DEF Ends, Goes, Exporting
<1>3. CASE RevisionFree(w, n)
  <2>1. /\ work' = [work EXCEPT ![w].submissions = n] /\ Goes(s, r)
        /\ UNCHANGED <<drafts, item, batch, historyVars>>
    BY <1>1, <1>3 DEF SubmitCreate, GoesTo, Goes, Inv, Typed, TypeOK
  <2>2. /\ r.at = "submitUpdate" /\ r.call = "submit" /\ r.on = w /\ r.n = n /\ Fits(r)
    BY <1>1 DEF Session, Fits, Points
  <2> HIDE DEF w, n, r
  <2>3. Proper(s, r)
    BY <1>1, <2>1, <2>2 DEF Proper, Inv, Disciplined, Active
  <2>4. /\ session' \in [Sessions -> Session] /\ SessionsFit' /\ Disciplined'
        /\ session'[s] = r /\ \A t \in Sessions \ {s} : session'[t] = session[t]
    BY <2>3, ProperStep
  <2>5. /\ work \in [Works -> Work] /\ work' \in [Works -> Work]
        /\ work'[w].submissions = n /\ work'[w].revision = work[w].revision
        /\ work'[w].status = work[w].status /\ work'[w].review = work[w].review
        /\ \A v \in Works \ {w} : work'[v] = work[v]
    BY <1>1, <2>1 DEF Inv, Typed, TypeOK, Work
  <2>6. /\ work[w].revision \in Nat /\ work[w].submissions \in Nat
        /\ work[w].revision <= work[w].submissions /\ work[w].submissions < n
        /\ n <= work[w].revision + 1
        /\ n = work[w].revision + 1 => Undelivered(w)
    BY <1>1, <1>3 DEF Inv, Typed, TypeOK, Work, WorkRows, RevisionFree, Knows, KnowsWork
  <2>7. \A t \in Sessions : ~ (session[t].at = "submitUpdate" /\ session[t].on = w)
    BY <1>1, <2>6 DEF Inv, Knows, KnowsWork
  <2>8. ASSUME NEW t \in Sessions
        PROVE  KnowsWork(session[t])'
    <3>1. CASE t = s
      BY <1>1, <2>2, <2>4, <2>5, <2>6, <3>1 DEF KnowsWork, Undelivered
    <3>2. CASE t # s
      <4>1. session[t].at \in {"submitCreate", "submitUpdate", "reviewCreate", "reviewUpdate"}
              => session[t].on \in Works
        BY DEF Inv, Typed, SessionsFit, Fits
      <4>2. KnowsWork(session[t])
        BY DEF Inv, Knows
      <4> QED
        BY <2>4, <2>5, <2>7, <3>2, <4>1, <4>2 DEF KnowsWork, Undelivered
    <3> QED
      BY <3>1, <3>2
  <2>9. OneSubmitter'
    BY <2>2, <2>4, <2>7 DEF Inv, OneSubmitter
  <2>10. WorkRows'
    BY <2>5, <2>6, <1>1 DEF Inv, WorkRows, Work
  <2>11. PaidAsReviewed'
    <3>1. \A i \in Items : Live(i) => item[i].work \in Works
      BY DEF Inv, ItemRows, ItemRow, Live
    <3> QED
      BY <2>1, <2>5, <3>1 DEF Inv, PaidAsReviewed, Live
  <2> QED
    BY <1>1, <2>1, <2>2, <2>4, <2>5, <2>8, <2>9, <2>10, <2>11, WorkWrite DEF Inv, Typed, TypeOK, Exporting
<1> QED
  BY <1>2, <1>3

LEMMA SubmitUpdateStep ==
  ASSUME Inv, NEW s \in Sessions, SubmitUpdate(s)
  PROVE  Inv'
<1> DEFINE w == session[s].on
           n == session[s].n
<1>1. /\ session[s].at = "submitUpdate" /\ w \in Works /\ n \in Nat
      /\ session[s].on = w /\ session[s].n = n
  BY DEF SubmitUpdate, Inv, Typed, TypeOK, SessionsFit, Fits, Session
<1>2. /\ work' = [work EXCEPT ![w].status = "SUBMITTED", ![w].revision = n]
      /\ Goes(s, Idle) /\ UNCHANGED <<drafts, item, batch, historyVars>>
  BY DEF SubmitUpdate, Ends, Goes
<1> HIDE DEF w, n
<1>3. /\ session' \in [Sessions -> Session] /\ SessionsFit' /\ Disciplined'
      /\ session'[s] = Idle /\ \A t \in Sessions \ {s} : session'[t] = session[t]
      /\ Idle.at = "idle"
  BY <1>2, IdleProper, ProperStep
<1>4. /\ work \in [Works -> Work] /\ work' \in [Works -> Work]
      /\ work'[w].status = "SUBMITTED" /\ work'[w].revision = n
      /\ work'[w].submissions = work[w].submissions
      /\ \A v \in Works \ {w} : work'[v] = work[v]
  BY <1>1, <1>2 DEF Inv, Typed, TypeOK, Work, WorkStatus
<1>5. /\ work[w].revision \in Nat /\ work[w].submissions \in Nat
      /\ n = work[w].revision + 1 /\ n = work[w].submissions /\ Undelivered(w)
  BY <1>1, <1>4 DEF Inv, Work, Knows, KnowsWork
<1>6. ASSUME NEW t \in Sessions
      PROVE  KnowsWork(session[t])'
  <2>1. CASE t = s
    BY <1>3, <2>1 DEF KnowsWork
  <2>2. CASE t # s
    <3>1. session[t].at \in {"submitCreate", "submitUpdate", "reviewCreate", "reviewUpdate"}
            => session[t].on \in Works
      BY DEF Inv, Typed, SessionsFit, Fits
    <3>2. KnowsWork(session[t]) /\ session[t].n \in Nat
      BY DEF Inv, Knows, Typed, TypeOK, Session
    <3>3. ~ (session[t].at = "submitUpdate" /\ session[t].on = w)
      BY <1>1, <2>2 DEF Inv, OneSubmitter
    <3> QED
      BY <1>3, <1>4, <1>5, <2>2, <3>1, <3>2, <3>3 DEF KnowsWork, Undelivered
  <2> QED
    BY <2>1, <2>2
<1>7. OneSubmitter'
  BY <1>3 DEF Inv, OneSubmitter
<1>8. WorkRows'
  BY <1>1, <1>4, <1>5 DEF Inv, WorkRows
<1>9. PaidAsReviewed'
  BY <1>1, <1>2, <1>4, <1>5, OtherWork DEF Undelivered
<1> QED
  BY <1>1, <1>2, <1>3, <1>4, <1>6, <1>7, <1>8, <1>9, WorkWrite DEF Inv, Typed, TypeOK, Exporting

LEMMA ReviewCreateStep ==
  ASSUME Inv, NEW s \in Sessions, ReviewCreate(s)
  PROVE  Inv'
<1> DEFINE w == session[s].on
           r == [session[s] EXCEPT !.at = "reviewUpdate"]
<1>1. /\ session[s].at = "reviewCreate" /\ session[s].call = "review" /\ w \in Works
      /\ session[s].on = w /\ session[s] \in Session /\ session[s].n \in Nat
  BY DEF ReviewCreate, Inv, Typed, TypeOK, SessionsFit, Fits, Session
<1>2. /\ work' = [work EXCEPT ![w].review = IF session[s].n > 0 THEN session[s].n ELSE @]
      /\ Goes(s, r) /\ UNCHANGED <<drafts, item, batch, historyVars>>
  BY DEF ReviewCreate, GoesTo, Goes, Inv, Typed, TypeOK
<1>3. r.at = "reviewUpdate" /\ r.call = "review" /\ r.on = w /\ Fits(r)
  BY <1>1 DEF Session, Fits, Points
<1> HIDE DEF w, r
<1>4. Proper(s, r)
  BY <1>1, <1>2, <1>3 DEF Proper, Inv, Disciplined, Active
<1>5. /\ session' \in [Sessions -> Session] /\ SessionsFit' /\ Disciplined'
      /\ session'[s] = r /\ \A t \in Sessions \ {s} : session'[t] = session[t]
  BY <1>4, ProperStep
<1>6. /\ work \in [Works -> Work] /\ work' \in [Works -> Work]
      /\ work'[w].status = work[w].status /\ work'[w].revision = work[w].revision
      /\ work'[w].submissions = work[w].submissions
      /\ \A v \in Works \ {w} : work'[v] = work[v]
  BY <1>1, <1>2 DEF Inv, Typed, TypeOK, Work
<1>7. work[w].status = "SUBMITTED"
  BY <1>1 DEF Inv, Knows, KnowsWork
<1>8. ASSUME NEW t \in Sessions
      PROVE  KnowsWork(session[t])'
  <2>1. CASE t = s
    BY <1>3, <1>5, <1>6, <1>7, <2>1 DEF KnowsWork
  <2>2. CASE t # s
    <3>1. session[t].at \in {"submitCreate", "submitUpdate", "reviewCreate", "reviewUpdate"}
            => session[t].on \in Works
      BY DEF Inv, Typed, SessionsFit, Fits
    <3>2. KnowsWork(session[t])
      BY DEF Inv, Knows
    <3> QED
      BY <1>5, <1>6, <2>2, <3>1, <3>2 DEF KnowsWork, Undelivered
  <2> QED
    BY <2>1, <2>2
<1>9. OneSubmitter'
  BY <1>3, <1>5 DEF Inv, OneSubmitter
<1>10. WorkRows'
  BY <1>1, <1>6 DEF Inv, WorkRows
<1>11. PaidAsReviewed'
  BY <1>1, <1>2, <1>6, <1>7, OtherWork
<1> QED
  BY <1>1, <1>2, <1>3, <1>5, <1>6, <1>8, <1>9, <1>10, <1>11, WorkWrite DEF Inv, Typed, TypeOK, Exporting

LEMMA ReviewUpdateStep ==
  ASSUME Overlapping \cap Conflicting = {},
         Inv, NEW s \in Sessions, ReviewUpdate(s)
  PROVE  Inv'
<1> DEFINE w == session[s].on
           r == IF session[s].n > 0 THEN [session[s] EXCEPT !.at = "reviewEnqueue"] ELSE Idle
           verdict == IF session[s].n > 0 THEN "APPROVED" ELSE "REVISION_REQUESTED"
<1>1. /\ session[s].at = "reviewUpdate" /\ session[s].call = "review" /\ w \in Works
      /\ session[s].on = w /\ session[s] \in Session /\ session[s].n \in Nat
  BY DEF ReviewUpdate, Inv, Typed, TypeOK, SessionsFit, Fits, Session
<1>2. /\ work' = [work EXCEPT ![w].status = verdict]
      /\ Goes(s, r) /\ UNCHANGED <<drafts, item, batch, historyVars>>
  BY DEF ReviewUpdate, GoesTo, Goes, Ends, Inv, Typed, TypeOK
<1>3. /\ r.at \in {"reviewEnqueue", "idle"} /\ Fits(r)
      /\ r.at # "idle" => r.call = "review"
  BY <1>1, IdleProper DEF Session, Fits, Points, Idle, ItemStatus
<1>4. verdict \in WorkStatus /\ verdict # "SUBMITTED"
  BY DEF WorkStatus
<1> HIDE DEF w, r, verdict
<1>5. Proper(s, r)
  BY <1>1, <1>2, <1>3 DEF Proper, Inv, Disciplined, Active
<1>6. /\ session' \in [Sessions -> Session] /\ SessionsFit' /\ Disciplined'
      /\ session'[s] = r /\ \A t \in Sessions \ {s} : session'[t] = session[t]
  BY <1>5, ProperStep
<1>7. /\ work \in [Works -> Work] /\ work' \in [Works -> Work]
      /\ work'[w].revision = work[w].revision
      /\ work'[w].submissions = work[w].submissions
      /\ \A v \in Works \ {w} : work'[v] = work[v]
  BY <1>1, <1>2, <1>4 DEF Inv, Typed, TypeOK, Work
<1>8. work[w].status = "SUBMITTED"
  BY <1>1 DEF Inv, Knows, KnowsWork
<1>9. ASSUME NEW t \in Sessions
      PROVE  KnowsWork(session[t])'
  <2>1. CASE t = s
    BY <1>3, <1>6, <2>1 DEF KnowsWork
  <2>2. CASE t # s
    <3>1. session[t].at \in {"submitCreate", "submitUpdate", "reviewCreate", "reviewUpdate"}
            => session[t].on \in Works
      BY DEF Inv, Typed, SessionsFit, Fits
    <3>2. KnowsWork(session[t])
      BY DEF Inv, Knows
    <3>3. session[t].at \notin {"reviewCreate", "reviewUpdate"}
      <4> SUFFICES ASSUME session[t].at \in {"reviewCreate", "reviewUpdate"}
                   PROVE  FALSE
        OBVIOUS
      <4>1. session[t].call = "review" /\ Active(t) /\ Active(s)
        BY <1>1 DEF Inv, Typed, SessionsFit, Fits, Active
      <4>2. {session[s].call, session[t].call} \notin Conflicting
        BY <2>2, <4>1, NoConflict DEF Inv
      <4>3. {session[s].call, session[t].call} = {"review"}
        BY <1>1, <4>1
      <4> QED
        BY <4>2, <4>3 DEF Conflicting
    <3> QED
      BY <1>6, <1>7, <1>8, <2>2, <3>1, <3>2, <3>3 DEF KnowsWork, Undelivered
  <2> QED
    BY <2>1, <2>2
<1>10. OneSubmitter'
  BY <1>3, <1>6 DEF Inv, OneSubmitter
<1>11. WorkRows'
  BY <1>1, <1>7 DEF Inv, WorkRows
<1>12. PaidAsReviewed'
  BY <1>1, <1>2, <1>7, <1>8, OtherWork
<1> QED
  BY <1>1, <1>2, <1>3, <1>6, <1>7, <1>9, <1>10, <1>11, <1>12, WorkWrite DEF Inv, Typed, TypeOK, Exporting

LEMMA CancelWorkStep ==
  ASSUME Inv, NEW w \in Works, CancelWork(w)
  PROVE  Inv'
<1>1. /\ session' = session /\ UNCHANGED <<drafts, item, batch, historyVars>>
      /\ work[w].status \in {"ASSIGNED", "REVISION_REQUESTED"}
      /\ work' = [work EXCEPT ![w].status = "CANCELLED"]
  BY DEF CancelWork
<1>2. /\ work \in [Works -> Work] /\ work' \in [Works -> Work]
      /\ work'[w].revision = work[w].revision /\ work'[w].status = "CANCELLED"
      /\ work'[w].submissions = work[w].submissions
      /\ \A v \in Works \ {w} : work'[v] = work[v]
  BY <1>1 DEF Inv, Typed, TypeOK, Work, WorkStatus
<1>3. session' \in [Sessions -> Session] /\ SessionsFit' /\ Disciplined' /\ OneSubmitter'
  BY <1>1 DEF Inv, Typed, TypeOK, SessionsFit, Disciplined, Active, OneSubmitter
<1>4. ASSUME NEW t \in Sessions
      PROVE  KnowsWork(session[t])'
  <2>1. session[t].at \in {"submitCreate", "submitUpdate", "reviewCreate", "reviewUpdate"}
          => session[t].on \in Works
    BY DEF Inv, Typed, SessionsFit, Fits
  <2>2. KnowsWork(session[t])
    BY DEF Inv, Knows
  <2> QED
    BY <1>1, <1>2, <2>1, <2>2 DEF KnowsWork, Undelivered
<1>5. WorkRows'
  BY <1>2 DEF Inv, WorkRows
<1>6. PaidAsReviewed'
  BY <1>1, <1>2, OtherWork
<1> QED
  BY <1>1, <1>2, <1>3, <1>4, <1>5, <1>6, WorkWrite DEF Inv, Typed, TypeOK

-----------------------------------------------------------------------------
(***************************************************************************)
(* Batches.                                                                *)
(***************************************************************************)

LEMMA MoneyWrite ==
  ASSUME Inv, UNCHANGED work, drafts' \in [Works -> Nat],
         item' \in [Items -> Item], batch' \in [Batches -> Batch],
         signed' \in [Batches -> SUBSET Items], files' \in [Items -> Nat], cut' \in SUBSET Batches,
         session' \in [Sessions -> Session], SessionsFit', Disciplined',
         \A t \in Sessions : session'[t] = session[t] \/ session'[t].at \in {"idle", "exportItems", "exportAnswer"},
         \A t \in Sessions : (KnowsItems(session[t]) /\ KnowsBatch(session[t]))',
         OneExporter', ItemRows', BatchRows',
         PaidOnce', SignedOff', TotalsMatch', ExplainedFirst', Delivery', PaidAsReviewed'
  PROVE  Inv'
<1>1. Typed'
  BY DEF Inv, Typed, TypeOK
<1>2. Knows'
  <2> SUFFICES ASSUME NEW t \in Sessions
               PROVE  KnowsWork(session[t])'
    BY DEF Knows
  <2>1. KnowsWork(session'[t])
    <3>1. CASE session'[t] = session[t]
      BY <3>1 DEF Inv, Knows
    <3>2. CASE session'[t] # session[t]
      BY <3>2 DEF KnowsWork
    <3> QED
      BY <3>1, <3>2
  <2> QED
    BY <2>1 DEF KnowsWork, Undelivered
<1>3. OneSubmitter'
  BY DEF Inv, OneSubmitter
<1>4. WorkRows'
  BY DEF Inv, WorkRows
<1> QED
  BY <1>1, <1>2, <1>3, <1>4 DEF Inv

\* The types of what a batch, an item and a session are made of.
LEMMA RowTypes ==
  ASSUME Inv
  PROVE  /\ item \in [Items -> Item] /\ batch \in [Batches -> Batch]
         /\ session \in [Sessions -> Session] /\ signed \in [Batches -> SUBSET Items]
         /\ files \in [Items -> Nat] /\ cut \in SUBSET Batches /\ drafts \in [Works -> Nat]
         /\ \A t \in Sessions : Fits(session[t])
         /\ \A t \in Sessions : KnowsItems(session[t]) /\ KnowsBatch(session[t])
         /\ \A i \in Items : ItemRow(i) /\ item[i].batch \in Batches \cup {None}
         /\ None \notin Batches
BY PaymentsAssumption DEF Inv, Typed, TypeOK, SessionsFit, Knows, ItemRows, Item

\* No other request is in the middle of a call that conflicts with this one.
LEMMA Alone ==
  ASSUME Overlapping \cap Conflicting = {}, Inv,
         NEW s \in Sessions, NEW t \in Sessions, s # t, Active(s), Active(t)
  PROVE  /\ session[s].call = "send" => session[t].at \notin {"sendWrite", "correctWrite"}
         /\ session[s].call = "approve" => session[t].at # "correctWrite"
         /\ session[s].call = "export" => session[t].at \notin {"correctWrite", "resolveWrite"}
         /\ session[s].call = "resolve" => session[t].at \notin {"correctWrite", "batchWrite"}
         /\ session[s].call = "batch" =>
              session[t].at \notin {"correctWrite", "batchWrite", "resolveWrite"}
         /\ session[s].call = "correct" =>
              session[t].at \in {"submitCreate", "submitUpdate",
                                 "reviewCreate", "reviewUpdate", "reviewEnqueue"}
<1> DEFINE c == session[s].call
           d == session[t].call
<1>1. {c, d} \notin Conflicting
  BY NoConflict DEF Inv
<1>2. Fits(session[t]) /\ session[t].at \in Points /\ session[t].at # "idle"
  BY RowTypes DEF Session, Active
<1> HIDE DEF c, d
<1>3. /\ c = "send" => d \notin {"send", "correct"}
      /\ c = "approve" => d # "correct"
      /\ c = "export" => d \notin {"correct", "resolve"}
      /\ c = "resolve" => d \notin {"correct", "batch"}
      /\ c = "batch" => d \notin {"correct", "batch", "resolve"}
      /\ c = "correct" => d \notin {"correct", "resolve", "batch", "send", "approve", "export"}
  BY <1>1 DEF Conflicting
<1> QED
  BY <1>2, <1>3 DEF c, d, Fits, Points

\* Rows that keep their amounts in batches that keep their rows.
LEMMA KeepTotals ==
  ASSUME Inv,
         \A b \in Batches : /\ Contents(item', b) = Contents(item, b)
                            /\ batch'[b].total = batch[b].total,
         \A i \in Items : item[i].status # "ABSENT" => item'[i].amount = item[i].amount
  PROVE  TotalsMatch'
<1> SUFFICES ASSUME NEW b \in Batches
             PROVE  batch'[b].total = Total(item', Contents(item', b))
  BY DEF TotalsMatch
<1>1. \A i \in Contents(item, b) : i \in Items /\ item[i].status # "ABSENT"
  BY RowTypes DEF Contents, ItemRow, NoItem
<1>2. Total(item', Contents(item, b)) = Total(item, Contents(item, b))
  BY <1>1, SameTotal
<1>3. batch[b].total = Total(item, Contents(item, b))
  BY DEF Inv, TotalsMatch
<1> QED
  BY <1>2, <1>3

LEMMA SendWriteStep ==
  ASSUME Overlapping \cap Conflicting = {},
         Inv, NEW s \in Sessions, SendWrite(s)
  PROVE  Inv'
<1> DEFINE b == session[s].on
<1>1. /\ session[s].at = "sendWrite" /\ session[s].on = b /\ session[s].call = "send"
      /\ b \in Batches /\ Active(s)
  BY RowTypes DEF SendWrite, Fits, Active
<1>2. /\ batch' = [batch EXCEPT ![b].status = "PENDING_APPROVAL"]
      /\ Goes(s, Idle) /\ UNCHANGED <<work, drafts, item, signed, files, cut>>
  BY DEF SendWrite, Ends, Goes, historyVars
<1> HIDE DEF b
<1>3. /\ session' \in [Sessions -> Session] /\ SessionsFit' /\ Disciplined'
      /\ session'[s] = Idle /\ \A t \in Sessions \ {s} : session'[t] = session[t]
      /\ Idle.at = "idle"
  BY <1>2, IdleProper, ProperStep
<1>4. /\ batch' \in [Batches -> Batch]
      /\ batch'[b] = [batch[b] EXCEPT !.status = "PENDING_APPROVAL"]
      /\ \A c \in Batches \ {b} : batch'[c] = batch[c]
  BY <1>1, <1>2, RowTypes DEF Batch, BatchStatus
<1>5. /\ batch'[b].status = "PENDING_APPROVAL" /\ batch'[b].createdBy = batch[b].createdBy
      /\ batch'[b].total = batch[b].total
  BY <1>1, <1>4, RowTypes DEF Batch
<1>6. /\ batch[b].status = "DRAFT"
      /\ \A i \in Items : item[i].batch = b => item[i].flags # "open"
  BY <1>1, RowTypes DEF KnowsBatch
<1>7. ASSUME NEW t \in Sessions
      PROVE  (KnowsItems(session[t]) /\ KnowsBatch(session[t]))'
  <2>1. CASE t = s
    BY <1>3, <2>1 DEF KnowsItems, KnowsBatch
  <2>2. CASE t # s
    <3>1. session[t].at \notin {"sendWrite", "correctWrite"}
      BY <1>1, <2>2, Alone DEF Active
    <3>2. KnowsItems(session[t]) /\ KnowsBatch(session[t]) /\ Fits(session[t])
      BY RowTypes
    <3>3. KnowsItems(session[t])'
      BY <1>2, <1>3, <2>2, <3>1, <3>2 DEF KnowsItems
    <3>4. KnowsBatch(session[t])'
      BY <1>2, <1>3, <1>4, <1>5, <1>6, <2>2, <3>1, <3>2 DEF KnowsBatch, Contents, Fits
    <3> QED
      BY <3>3, <3>4
  <2> QED
    BY <2>1, <2>2
<1>8. OneExporter'
  BY <1>3 DEF Inv, OneExporter, Exporting
<1>9. ItemRows'
  BY <1>2, <1>4, <1>5, <1>6, RowTypes DEF ItemRows, ItemRow
<1>10. BatchRows'
  BY <1>4, <1>5 DEF Inv, BatchRows
<1>11. PaidOnce' /\ PaidAsReviewed'
  BY <1>2 DEF Inv, PaidOnce, PaidAsReviewed, Live
<1>12. SignedOff'
  BY <1>2, <1>4, <1>5 DEF Inv, SignedOff, Contents
<1>13. TotalsMatch'
  BY <1>2, <1>4, <1>5, KeepTotals
<1>14. ExplainedFirst'
  BY <1>2, <1>4, <1>6 DEF Inv, ExplainedFirst
<1>15. Delivery'
  <2>1. \A i \in Items : files[i] = 1 => item[i].status \in {"EXPORTED", "VOID"}
    BY DEF Inv, Delivery, FilesRecorded
  <2>2. \A c \in Batches : batch'[c].status = "EXPORTED" <=> batch[c].status = "EXPORTED"
    BY <1>4, <1>5, <1>6
  <2> QED
    BY <1>1, <1>2, <1>3, <2>1, <2>2, DeliveryKept DEF Contents
<1> QED
  BY <1>2, <1>3, <1>4, <1>7, <1>8, <1>9, <1>10, <1>11, <1>12, <1>13, <1>14, <1>15, RowTypes, MoneyWrite

LEMMA ApproveClaimStep ==
  ASSUME Overlapping \cap Conflicting = {},
         Inv, NEW s \in Sessions, ApproveClaim(s)
  PROVE  Inv'
<1> DEFINE b == session[s].on
<1>1. /\ session[s].at = "approveClaim" /\ session[s].on = b /\ session[s].call = "approve"
      /\ b \in Batches /\ session[s].by \in Operators /\ session[s].items \in SUBSET Items
      /\ session[s] \in Session /\ Active(s)
  BY RowTypes DEF ApproveClaim, Fits, Active, Session
<1>2. CASE batch[b].status # "PENDING_APPROVAL"
  <2>1. UNCHANGED Tables /\ drafts' \in [Works -> Nat] /\ Goes(s, Idle)
    BY <1>2, RowTypes DEF ApproveClaim, Tables, Ends, Goes
  <2> QED
    BY <1>1, <2>1, IdleProper, CalmStep DEF Exporting
<1>3. CASE batch[b].status = "PENDING_APPROVAL"
  <2>1. /\ batch' = [batch EXCEPT ![b].status = "APPROVED", ![b].approvedBy = session[s].by]
        /\ signed' = [signed EXCEPT ![b] = session[s].items]
        /\ Goes(s, Idle) /\ UNCHANGED <<work, drafts, item, files, cut>>
    BY <1>3 DEF ApproveClaim, Ends, Goes
  <2> HIDE DEF b
  <2>2. /\ session' \in [Sessions -> Session] /\ SessionsFit' /\ Disciplined'
        /\ session'[s] = Idle /\ \A t \in Sessions \ {s} : session'[t] = session[t]
        /\ Idle.at = "idle"
    BY <2>1, IdleProper, ProperStep
  <2>3. /\ batch' \in [Batches -> Batch] /\ signed' \in [Batches -> SUBSET Items]
        /\ batch'[b] = [batch[b] EXCEPT !.status = "APPROVED", !.approvedBy = session[s].by]
        /\ signed'[b] = session[s].items
        /\ \A c \in Batches \ {b} : batch'[c] = batch[c] /\ signed'[c] = signed[c]
    <3> DEFINE row == [batch[b] EXCEPT !.status = "APPROVED", !.approvedBy = session[s].by]
    <3>1. /\ signed' \in [Batches -> SUBSET Items] /\ signed'[b] = session[s].items
          /\ \A c \in Batches \ {b} : signed'[c] = signed[c]
      BY <1>1, <2>1, RowTypes
    <3>2. row \in Batch
      BY <1>1, RowTypes DEF Batch, BatchStatus
    <3>3. batch' = [batch EXCEPT ![b] = row]
      BY <1>1, <2>1, RowTypes
    <3> HIDE DEF row
    <3>4. batch' \in [Batches -> Batch] /\ batch'[b] = row /\ \A c \in Batches \ {b} : batch'[c] = batch[c]
      BY <1>1, <3>2, <3>3, RowTypes
    <3> QED
      BY <3>1, <3>4 DEF row
  <2>4. /\ batch'[b].status = "APPROVED" /\ batch'[b].createdBy = batch[b].createdBy
        /\ batch'[b].total = batch[b].total /\ batch'[b].approvedBy = session[s].by
    BY <1>1, <2>3, RowTypes DEF Batch
  <2>5. session[s].items = Contents(item, b) /\ session[s].by # batch[b].createdBy
    BY <1>1, RowTypes DEF KnowsBatch
  <2>6. ASSUME NEW t \in Sessions
        PROVE  (KnowsItems(session[t]) /\ KnowsBatch(session[t]))'
    <3>1. CASE t = s
      BY <2>2, <3>1 DEF KnowsItems, KnowsBatch
    <3>2. CASE t # s
      <4>1. session[t].at # "correctWrite"
        BY <1>1, <3>2, Alone DEF Active
      <4>2. KnowsItems(session[t]) /\ KnowsBatch(session[t]) /\ Fits(session[t])
        BY RowTypes
      <4>3. KnowsItems(session[t])'
        BY <2>1, <2>2, <3>2, <4>1, <4>2 DEF KnowsItems
      <4>4. KnowsBatch(session[t])'
        BY <1>3, <2>1, <2>2, <2>3, <2>4, <3>2, <4>2 DEF KnowsBatch, Contents, Fits
      <4> QED
        BY <4>3, <4>4
    <3> QED
      BY <3>1, <3>2
  <2>7. OneExporter'
    BY <2>2 DEF Inv, OneExporter, Exporting
  <2>8. ItemRows'
    BY <1>3, <2>1, <2>3, <2>4, RowTypes DEF ItemRows, ItemRow
  <2>9. BatchRows'
    BY <2>3, <2>4 DEF Inv, BatchRows
  <2>10. PaidOnce' /\ PaidAsReviewed'
    BY <2>1 DEF Inv, PaidOnce, PaidAsReviewed, Live
  <2>11. SignedOff'
    <3>1. session[s].by # None
      BY <1>1, PaymentsAssumption
    <3> QED
      BY <2>1, <2>3, <2>4, <2>5, <3>1 DEF Inv, SignedOff, Contents
  <2>12. TotalsMatch'
    BY <2>1, <2>3, <2>4, KeepTotals
  <2>13. ExplainedFirst'
    BY <1>3, <2>1, <2>3, <2>4 DEF Inv, ExplainedFirst
  <2>14. Delivery'
    <3>1. \A i \in Items : files[i] = 1 => item[i].status \in {"EXPORTED", "VOID"}
      BY DEF Inv, Delivery, FilesRecorded
    <3>2. \A c \in Batches : batch'[c].status = "EXPORTED" <=> batch[c].status = "EXPORTED"
      BY <1>3, <2>3, <2>4
    <3> QED
      BY <1>1, <2>1, <2>2, <3>1, <3>2, DeliveryKept DEF Contents
  <2> QED
    BY <2>1, <2>2, <2>3, <2>6, <2>7, <2>8, <2>9, <2>10, <2>11, <2>12, <2>13, <2>14, RowTypes, MoneyWrite
<1> QED
  BY <1>2, <1>3

\* What a claimed export tells about the items of its batch.
LEMMA Unmarked ==
  ASSUME Inv, NEW b \in Batches, batch[b].status # "EXPORTED", NEW i \in Contents(item, b)
  PROVE  i \in Items /\ item[i].status = "IN_BATCH" /\ item[i].batch = b
BY RowTypes DEF Contents, ItemRow

LEMMA ExportClaimStep ==
  ASSUME Overlapping \cap Conflicting = {},
         Inv, NEW s \in Sessions, ExportClaim(s)
  PROVE  Inv'
<1> DEFINE b == session[s].on
           r == [session[s] EXCEPT !.at = "exportItems"]
<1>1. /\ session[s].at = "exportClaim" /\ session[s].on = b /\ session[s].call = "export"
      /\ b \in Batches /\ session[s].items \in SUBSET Items
      /\ session[s] \in Session /\ Active(s)
  BY RowTypes DEF ExportClaim, Fits, Active, Session
<1>2. CASE batch[b].status # "APPROVED"
  <2>1. UNCHANGED Tables /\ drafts' \in [Works -> Nat] /\ Goes(s, Idle)
    BY <1>2, RowTypes DEF ExportClaim, Tables, historyVars, Ends, Goes
  <2> QED
    BY <1>1, <2>1, IdleProper, CalmStep DEF Exporting
<1>3. CASE batch[b].status = "APPROVED"
  <2>1. /\ batch' = [batch EXCEPT ![b].status = "EXPORTED"]
        /\ Goes(s, r) /\ UNCHANGED <<work, drafts, item, signed, files, cut>>
    BY <1>3, RowTypes DEF ExportClaim, GoesTo, Goes, historyVars
  <2>2. /\ r.at = "exportItems" /\ r.call = "export" /\ r.on = b /\ Fits(r)
        /\ r.items = session[s].items
    BY <1>1 DEF Session, Fits, Points
  <2> HIDE DEF b, r
  <2>3. Proper(s, r)
    BY <1>1, <2>1, <2>2 DEF Proper, Inv, Disciplined, Active
  <2>4. /\ session' \in [Sessions -> Session] /\ SessionsFit' /\ Disciplined'
        /\ session'[s] = r /\ \A t \in Sessions \ {s} : session'[t] = session[t]
    BY <2>3, ProperStep
  <2>5. /\ batch' \in [Batches -> Batch]
        /\ batch'[b] = [batch[b] EXCEPT !.status = "EXPORTED"]
        /\ \A c \in Batches \ {b} : batch'[c] = batch[c]
    BY <1>1, <2>1, RowTypes DEF Batch, BatchStatus
  <2>6. /\ batch'[b].status = "EXPORTED" /\ batch'[b].createdBy = batch[b].createdBy
        /\ batch'[b].total = batch[b].total /\ batch'[b].approvedBy = batch[b].approvedBy
    BY <1>1, <2>5, RowTypes DEF Batch
  <2>7. /\ session[s].items = Contents(item, b)
        /\ \A i \in session[s].items : item[i].status = "IN_BATCH"
    BY <1>1, <1>3, Unmarked, RowTypes DEF KnowsBatch
  <2>8. \A t \in Sessions : ~ (Exporting(t) /\ session[t].on = b)
    BY <1>3, RowTypes DEF KnowsBatch, Exporting
  <2>9. ASSUME NEW t \in Sessions
        PROVE  (KnowsItems(session[t]) /\ KnowsBatch(session[t]))'
    <3>1. CASE t = s
      BY <2>1, <2>2, <2>4, <2>6, <2>7, <3>1 DEF KnowsItems, KnowsBatch, Contents
    <3>2. CASE t # s
      <4>1. session[t].at # "correctWrite"
        BY <1>1, <3>2, Alone DEF Active
      <4>2. KnowsItems(session[t]) /\ KnowsBatch(session[t]) /\ Fits(session[t])
        BY RowTypes
      <4>3. KnowsItems(session[t])'
        BY <2>1, <2>4, <3>2, <4>1, <4>2 DEF KnowsItems
      <4>4. KnowsBatch(session[t])'
        BY <1>3, <2>1, <2>4, <2>5, <2>6, <3>2, <4>2 DEF KnowsBatch, Contents, Fits
      <4> QED
        BY <4>3, <4>4
    <3> QED
      BY <3>1, <3>2
  <2>10. OneExporter'
    BY <2>2, <2>4, <2>8 DEF Inv, OneExporter, Exporting
  <2>11. ItemRows'
    BY <1>3, <2>1, <2>5, <2>6, RowTypes DEF ItemRows, ItemRow
  <2>12. BatchRows'
    BY <2>5, <2>6 DEF Inv, BatchRows
  <2>13. PaidOnce' /\ PaidAsReviewed'
    BY <2>1 DEF Inv, PaidOnce, PaidAsReviewed, Live
  <2>14. SignedOff'
    BY <1>3, <2>1, <2>5, <2>6 DEF Inv, SignedOff, Contents
  <2>15. TotalsMatch'
    BY <2>1, <2>5, <2>6, KeepTotals
  <2>16. ExplainedFirst'
    BY <1>3, <2>1, <2>5, <2>6 DEF Inv, ExplainedFirst
  <2>17. Delivery'
    <3>1. b \notin cut
      BY <1>1, <1>3 DEF Inv, Delivery, FilesRecorded
    <3>2. \A i \in session[s].items : files[i] = 0
      BY <1>1, <2>7, RowTypes DEF Inv, Delivery, FilesRecorded, ItemRow
    <3>3. InHand'
      BY <2>1, <2>2, <2>4, <3>1, <3>2 DEF Inv, Delivery, InHand, Exporting
    <3>4. \A i \in Items : files[i] = 1 => item[i].status \in {"EXPORTED", "VOID"}
      BY DEF Inv, Delivery, FilesRecorded
    <3>5. ASSUME NEW c \in Batches \ {b}, batch[c].status = "EXPORTED",
                 \A t \in Sessions : Exporting(t)' => session'[t].on # c
          PROVE  c \in cut \/ \A i \in Contents(item, c) : item[i].status = "EXPORTED" /\ files[i] = 1
      <4>1. \A t \in Sessions : Exporting(t) => session[t].on # c
        BY <1>1, <2>4, <3>5 DEF Exporting
      <4> QED
        BY <3>5, <4>1 DEF Inv, Delivery, FilesRecorded
    <3>6. Exporting(s)' /\ session'[s].on = b
      BY <2>2, <2>4 DEF Exporting
    <3>7. \A c \in Batches : c \in cut =>
            batch'[c].status = "EXPORTED" /\ \A i \in Contents(item, c) : files[i] = 0
      BY <2>5, <3>1 DEF Inv, Delivery, FilesRecorded
    <3>8. \A c \in Batches : Contents(item', c) = Contents(item, c)
      BY <2>1 DEF Contents
    <3> QED
      BY <2>1, <2>5, <3>3, <3>4, <3>5, <3>6, <3>7, <3>8 DEF Delivery, FilesRecorded
  <2> QED
    BY <2>1, <2>2, <2>4, <2>5, <2>9, <2>10, <2>11, <2>12, <2>13, <2>14, <2>15, <2>16, <2>17,
       RowTypes, MoneyWrite
<1> QED
  BY <1>2, <1>3

\* The items the file was made of are those that are marked: none has left the
\* batch or joined it since they were read.
LEMMA ExportItemsStep ==
  ASSUME Overlapping \cap Conflicting = {},
         Inv, NEW s \in Sessions, ExportItems(s)
  PROVE  Inv'
<1> DEFINE b == session[s].on
           r == [session[s] EXCEPT !.at = "exportAnswer"]
<1>1. /\ session[s].at = "exportItems" /\ session[s].on = b /\ session[s].call = "export"
      /\ b \in Batches /\ Active(s) /\ session[s] \in Session
  BY RowTypes DEF ExportItems, Fits, Active
<1>2. /\ batch[b].status = "EXPORTED" /\ session[s].items = Contents(item, b)
      /\ \A i \in session[s].items : item[i].status = "IN_BATCH"
  BY <1>1, RowTypes DEF KnowsBatch
<1> DEFINE C == Contents(item, b)
<1>3. /\ C \subseteq Items
      /\ \A i \in C : item[i].status = "IN_BATCH" /\ item[i].batch = b
      /\ \A i \in Items : item[i].batch = b => i \in C
  BY <1>1, <1>2, RowTypes DEF Contents, ItemRow
<1>4. /\ item' = [i \in Items |-> IF i \in C THEN [item[i] EXCEPT !.status = "EXPORTED"] ELSE item[i]]
      /\ Goes(s, r) /\ UNCHANGED <<work, drafts, batch, signed, files, cut>>
  BY <1>1, <1>2, <1>3, RowTypes DEF ExportItems, GoesTo, Goes, historyVars
<1>4a. /\ r.at = "exportAnswer" /\ r.call = "export" /\ r.on = b /\ Fits(r)
       /\ r.items = C
  BY <1>1, <1>2 DEF Session, Fits, Points
<1> HIDE DEF b, r, C
<1>4b. Proper(s, r)
  BY <1>1, <1>4, <1>4a DEF Proper, Inv, Disciplined, Active
<1>5. /\ session' \in [Sessions -> Session] /\ SessionsFit' /\ Disciplined'
      /\ session'[s] = r /\ \A t \in Sessions \ {s} : session'[t] = session[t]
  BY <1>4b, ProperStep
<1>6. /\ item' \in [Items -> Item]
      /\ \A i \in Items \ C : item'[i] = item[i]
      /\ \A i \in C : item'[i] = [item[i] EXCEPT !.status = "EXPORTED"]
  BY <1>3, <1>4, RowTypes DEF Item, ItemStatus
<1>7. ASSUME NEW i \in Items
      PROVE  /\ item'[i].work = item[i].work /\ item'[i].amount = item[i].amount
             /\ item'[i].flags = item[i].flags /\ item'[i].superseded = item[i].superseded
             /\ item'[i].batch = item[i].batch
             /\ item'[i].status = IF i \in C THEN "EXPORTED" ELSE item[i].status
  <2>1. item[i] \in Item
    BY RowTypes
  <2> QED
    BY <1>6, <2>1 DEF Item
<1>8. \A c \in Batches : Contents(item', c) = Contents(item, c)
  BY <1>3, <1>7 DEF Contents
<1>10. ASSUME NEW t \in Sessions
       PROVE  (KnowsItems(session[t]) /\ KnowsBatch(session[t]))'
  <2>1. CASE t = s
    <3>1. /\ session'[s] = r /\ r.at = "exportAnswer" /\ r.on = b /\ r.items = Contents(item', b)
          /\ b \in Batches /\ batch'[b].status = "EXPORTED"
          /\ \A i \in r.items : item'[i].status = "EXPORTED"
      BY <1>1, <1>2, <1>3, <1>4, <1>5, <1>7, <1>8, <1>4a DEF C
    <3> QED
      BY <2>1, <3>1 DEF KnowsItems, KnowsBatch
  <2>2. CASE t # s
    <3>1. session[t].at \notin {"correctWrite", "resolveWrite"}
      BY <1>1, <2>2, Alone DEF Active
    <3>2. KnowsItems(session[t]) /\ KnowsBatch(session[t]) /\ Fits(session[t])
      BY RowTypes
    <3>3. ~ (Exporting(t) /\ session[t].on = b)
      BY <1>1, <2>2 DEF Inv, OneExporter, Exporting
    <3>4. session[t].at = "batchWrite" =>
             /\ session[t].items \subseteq Items \ C
             /\ Total(item', session[t].items) = Total(item, session[t].items)
      <4>1. session[t].at = "batchWrite" => session[t].items \subseteq Items \ C
        BY <1>3, <3>2 DEF KnowsItems, Fits, Session
      <4> QED
        BY <1>7, <4>1, SameTotal
    <3>5. KnowsItems(session[t])'
      BY <1>5, <1>6, <2>2, <3>1, <3>2, <3>4 DEF KnowsItems
    <3>6. KnowsBatch(session[t])'
      <4>1. session[t].at = "sendWrite" =>
               \A i \in Items : item'[i].batch = session[t].on => item'[i].flags # "open"
        BY <1>7, <3>2 DEF KnowsBatch
      <4>2. session[t].at \in {"exportItems", "exportAnswer"} =>
               /\ session[t].items = Contents(item, session[t].on)
               /\ session[t].on # b /\ session[t].on \in Batches
        BY <1>1, <3>2, <3>3 DEF KnowsBatch, Fits, Exporting
      <4>3. session[t].at \in {"exportItems", "exportAnswer"} => \A i \in session[t].items : i \in Items \ C
        BY <1>3, <4>2 DEF Contents
      <4> QED
        BY <1>4, <1>5, <1>6, <1>8, <2>2, <3>2, <4>1, <4>3 DEF KnowsBatch, Fits
    <3> QED
      BY <3>5, <3>6
  <2> QED
    BY <2>1, <2>2
<1>11. OneExporter'
  BY <1>1, <1>5, <1>4a DEF Inv, OneExporter, Exporting
<1>12. ItemRows'
  <2> SUFFICES ASSUME NEW i \in Items PROVE ItemRow(i)'
    BY DEF ItemRows
  <2>1. CASE i \in C
    <3>1. item[i].status = "IN_BATCH" /\ item[i].batch = b /\ item'[i].status = "EXPORTED"
      BY <1>3, <1>7, <2>1
    <3>2. ItemRow(i)
      BY RowTypes
    <3> QED
      BY <1>2, <1>4, <1>7, <3>1, <3>2 DEF ItemRow
  <2>2. CASE i \notin C
    BY <1>4, <1>6, <2>2, RowTypes DEF ItemRow
  <2> QED
    BY <2>1, <2>2
<1>13. BatchRows'
  BY <1>4 DEF Inv, BatchRows
<1>14. \A i \in Items : Live(i)' <=> Live(i)
  BY <1>3, <1>7 DEF Live
<1>15. PaidOnce'
  BY <1>4, <1>7, <1>14 DEF Inv, PaidOnce
<1>16. Delivery'
  <2>1. InHand'
    BY <1>1, <1>2, <1>4, <1>5, <1>4a DEF Inv, Delivery, InHand, Exporting, C
  <2>2. \A i \in Items : files[i] = 1 => item'[i].status \in {"EXPORTED", "VOID"}
    BY <1>7 DEF Inv, Delivery, FilesRecorded
  <2>3. Exporting(s)' /\ session'[s].on = b
    BY <1>5, <1>4a DEF Exporting
  <2>4. ASSUME NEW c \in Batches \ {b}, batch[c].status = "EXPORTED",
               \A t \in Sessions : Exporting(t)' => session'[t].on # c
        PROVE  c \in cut \/ \A i \in Contents(item', c) : item'[i].status = "EXPORTED" /\ files[i] = 1
    <3>1. \A t \in Sessions : Exporting(t) => session[t].on # c
      BY <1>1, <1>5, <2>4 DEF Exporting
    <3>2. \A i \in Contents(item, c) : i \in Items \ C
      BY <1>3, <2>4 DEF Contents
    <3> QED
      BY <1>6, <1>8, <2>4, <3>1, <3>2 DEF Inv, Delivery, FilesRecorded
  <2>5. \A c \in Batches : c \in cut =>
          batch[c].status = "EXPORTED" /\ \A i \in Contents(item', c) : files[i] = 0
    BY <1>8 DEF Inv, Delivery, FilesRecorded
  <2> QED
    BY <1>4, <2>1, <2>2, <2>3, <2>4, <2>5 DEF Delivery, FilesRecorded
<1>17. PaidAsReviewed'
  BY <1>4, <1>7, <1>14 DEF Inv, PaidAsReviewed
<1>18. SignedOff'
  BY <1>4, <1>8 DEF Inv, SignedOff
<1>19. TotalsMatch'
  BY <1>4, <1>7, <1>8, KeepTotals
<1>20. ExplainedFirst'
  BY <1>4, <1>7 DEF Inv, ExplainedFirst
<1> QED
  BY <1>4, <1>4a, <1>5, <1>6, <1>10, <1>11, <1>12, <1>13, <1>15, <1>16, <1>17, <1>18, <1>19, <1>20,
     RowTypes, MoneyWrite

\* The batch is marked and in no file; now it is in one.
LEMMA ExportAnswerStep ==
  ASSUME Inv, NEW s \in Sessions, ExportAnswer(s)
  PROVE  Inv'
<1> DEFINE b == session[s].on
           C == Contents(item, b)
<1>1. /\ session[s].at = "exportAnswer" /\ session[s].on = b /\ b \in Batches
      /\ session[s].items = C /\ C \subseteq Items /\ batch[b].status = "EXPORTED"
      /\ \A i \in C : item[i].status = "EXPORTED"
  BY RowTypes DEF ExportAnswer, Fits, KnowsBatch, Contents
<1>2. b \notin cut /\ \A i \in C : files[i] = 0
  BY <1>1 DEF Inv, Delivery, InHand, Exporting
<1>3. /\ files' = [i \in Items |-> IF i \in C THEN files[i] + 1 ELSE files[i]]
      /\ Goes(s, Idle) /\ UNCHANGED <<work, drafts, item, batch, signed, cut>>
  BY <1>1 DEF ExportAnswer, Ends, Goes
<1>4. \A i \in Items : i \in C => item[i].batch = b
  BY DEF Contents
<1> HIDE DEF b, C
<1>5. /\ session' \in [Sessions -> Session] /\ SessionsFit' /\ Disciplined'
      /\ session'[s] = Idle /\ \A t \in Sessions \ {s} : session'[t] = session[t]
      /\ Idle.at = "idle"
  BY <1>3, IdleProper, ProperStep
<1>6. /\ files' \in [Items -> Nat]
      /\ \A i \in C : files'[i] = 1
      /\ \A i \in Items \ C : files'[i] = files[i]
  BY <1>1, <1>2, <1>3, RowTypes
<1>7. \A t \in Sessions : (KnowsItems(session[t]) /\ KnowsBatch(session[t]))'
  <2> SUFFICES ASSUME NEW t \in Sessions
               PROVE  (KnowsItems(session[t]) /\ KnowsBatch(session[t]))'
    OBVIOUS
  <2>1. KnowsItems(session'[t]) /\ KnowsBatch(session'[t])
    BY <1>3, <1>5, IdleProper, RowTypes
  <2> QED
    BY <1>3, <2>1 DEF KnowsItems, KnowsBatch, Live, Contents
<1>8. OneExporter'
  BY <1>5 DEF Inv, OneExporter, Exporting
<1>9. ItemRows' /\ BatchRows'
  BY <1>3, <1>6 DEF Inv, ItemRows, ItemRow, BatchRows
<1>10. PaidOnce' /\ SignedOff' /\ TotalsMatch' /\ ExplainedFirst' /\ PaidAsReviewed'
  <2>1. \A i \in Items : files'[i] <= 1
    BY <1>6 DEF Inv, PaidOnce
  <2> QED
    BY <1>3, <2>1 DEF Inv, PaidOnce, SignedOff, TotalsMatch, ExplainedFirst, PaidAsReviewed, Live, Contents
<1>11. InHand'
  <2> SUFFICES ASSUME NEW t \in Sessions \ {s}, Exporting(t)
               PROVE  session[t].on \notin cut /\ \A i \in session[t].items : files'[i] = 0
    BY <1>3, <1>5 DEF InHand, Exporting
  <2>1. /\ session[t].on # b /\ session[t].items = Contents(item, session[t].on)
    BY <1>1, RowTypes DEF Inv, OneExporter, Exporting, KnowsBatch
  <2>2. \A i \in session[t].items : i \in Items \ C
    BY <1>4, <2>1 DEF Contents
  <2> QED
    BY <1>6, <2>2 DEF Inv, Delivery, InHand
<1>12. FilesRecorded'
  <2>1. \A i \in Items : files'[i] = 1 => item[i].status \in {"EXPORTED", "VOID"}
    BY <1>1, <1>6 DEF Inv, Delivery, FilesRecorded
  <2>2. ASSUME NEW c \in Batches, batch[c].status = "EXPORTED",
               \A t \in Sessions : Exporting(t)' => session'[t].on # c
        PROVE  c \in cut \/ \A i \in Contents(item, c) : item[i].status = "EXPORTED" /\ files'[i] = 1
    <3>1. CASE c = b
      BY <1>1, <1>6, <3>1 DEF C
    <3>2. CASE c # b
      <4>1. \A t \in Sessions : Exporting(t) => session[t].on # c
        BY <1>1, <1>5, <2>2, <3>2 DEF Exporting
      <4>2. \A i \in Contents(item, c) : i \in Items \ C
        BY <1>4, <3>2 DEF Contents
      <4> QED
        BY <1>6, <2>2, <4>1, <4>2 DEF Inv, Delivery, FilesRecorded
    <3> QED
      BY <3>1, <3>2
  <2>3. ASSUME NEW c \in Batches, c \in cut
        PROVE  batch[c].status = "EXPORTED" /\ \A i \in Contents(item, c) : files'[i] = 0
    <3>1. \A i \in Contents(item, c) : i \in Items \ C
      BY <1>2, <1>4, <2>3 DEF Contents
    <3> QED
      BY <1>6, <2>3, <3>1 DEF Inv, Delivery, FilesRecorded
  <2> QED
    BY <1>3, <2>1, <2>2, <2>3 DEF FilesRecorded
<1> QED
  BY <1>3, <1>5, <1>6, <1>7, <1>8, <1>9, <1>10, <1>11, <1>12, RowTypes, MoneyWrite DEF Delivery

\* An export that dies leaves its batch in no file.
LEMMA CrashStep ==
  ASSUME Inv, NEW s \in Sessions, Crash(s)
  PROVE  Inv'
<1>1. Goes(s, Idle) /\ UNCHANGED <<work, drafts, item, batch, signed, files>>
  BY DEF Crash, Ends, Goes
<1>2. CASE ~Exporting(s)
  <2>1. UNCHANGED Tables /\ drafts' \in [Works -> Nat]
    BY <1>1, <1>2, RowTypes DEF Crash, Tables
  <2> QED
    BY <1>1, <1>2, <2>1, IdleProper, CalmStep
<1>3. CASE Exporting(s)
  <2> DEFINE b == session[s].on
  <2>1. /\ cut' = cut \cup {b} /\ b \in Batches /\ batch[b].status = "EXPORTED"
        /\ session[s].items = Contents(item, b)
    BY <1>3, RowTypes DEF Crash, Exporting, Fits, KnowsBatch
  <2>2. \A i \in Contents(item, b) : files[i] = 0
    BY <1>3, <2>1 DEF Inv, Delivery, InHand
  <2>3. \A t \in Sessions \ {s} : Exporting(t) => session[t].on # b
    BY <1>3 DEF Inv, OneExporter
  <2> HIDE DEF b
  <2>4. /\ session' \in [Sessions -> Session] /\ SessionsFit' /\ Disciplined'
        /\ session'[s] = Idle /\ \A t \in Sessions \ {s} : session'[t] = session[t]
        /\ Idle.at = "idle"
    BY <1>1, IdleProper, ProperStep
  <2>5. \A t \in Sessions : (KnowsItems(session[t]) /\ KnowsBatch(session[t]))'
    <3> SUFFICES ASSUME NEW t \in Sessions
                 PROVE  (KnowsItems(session[t]) /\ KnowsBatch(session[t]))'
      OBVIOUS
    <3>1. KnowsItems(session'[t]) /\ KnowsBatch(session'[t])
      BY <1>1, <2>4, IdleProper, RowTypes
    <3> QED
      BY <1>1, <3>1 DEF KnowsItems, KnowsBatch, Live, Contents
  <2>6. OneExporter'
    BY <2>4 DEF Inv, OneExporter, Exporting
  <2>7. ItemRows' /\ BatchRows'
    BY <1>1 DEF Inv, ItemRows, ItemRow, BatchRows
  <2>8. PaidOnce' /\ SignedOff' /\ TotalsMatch' /\ ExplainedFirst' /\ PaidAsReviewed'
    BY <1>1 DEF Inv, PaidOnce, SignedOff, TotalsMatch, ExplainedFirst, PaidAsReviewed, Live, Contents
  <2>9. InHand'
    BY <1>1, <2>1, <2>3, <2>4 DEF Inv, Delivery, InHand, Exporting
  <2>10. ASSUME NEW c \in Batches, batch[c].status = "EXPORTED", c \notin cut',
                \A t \in Sessions : Exporting(t)' => session'[t].on # c
         PROVE  \A i \in Contents(item, c) : item[i].status = "EXPORTED" /\ files[i] = 1
    <3>1. \A t \in Sessions : Exporting(t) => session[t].on # c
      BY <2>1, <2>4, <2>10 DEF Exporting, b
    <3> QED
      BY <2>1, <2>10, <3>1 DEF Inv, Delivery, FilesRecorded
  <2>11. \A c \in Batches : c \in cut' =>
           batch[c].status = "EXPORTED" /\ \A i \in Contents(item, c) : files[i] = 0
    BY <2>1, <2>2 DEF Inv, Delivery, FilesRecorded
  <2>12. FilesRecorded'
    <3>1. \A i \in Items : files[i] = 1 => item[i].status \in {"EXPORTED", "VOID"}
      BY DEF Inv, Delivery, FilesRecorded
    <3> QED
      BY <1>1, <2>10, <2>11, <3>1 DEF FilesRecorded
  <2>13. cut' \in SUBSET Batches
    BY <2>1, RowTypes
  <2> QED
    BY <1>1, <2>4, <2>5, <2>6, <2>7, <2>8, <2>9, <2>12, <2>13, RowTypes, MoneyWrite DEF Delivery
<1> QED
  BY <1>2, <1>3

-----------------------------------------------------------------------------
(***************************************************************************)
(* Items.                                                                  *)
(***************************************************************************)

LEMMA SameSessions ==
  ASSUME Inv, UNCHANGED session
  PROVE  /\ session' \in [Sessions -> Session]
         /\ SessionsFit' /\ Disciplined' /\ OneExporter'
BY DEF Inv, Typed, TypeOK, SessionsFit, Disciplined, Active, OneExporter, Exporting

LEMMA DraftJobStep ==
  ASSUME Inv, NEW w \in Works, DraftJob(w)
  PROVE  Inv'
<1>1. /\ UNCHANGED <<work, batch, session, signed, files, cut>> /\ drafts[w] > 0
      /\ drafts' = [drafts EXCEPT ![w] = @ - 1]
  BY DEF DraftJob, historyVars
<1>2. drafts' \in [Works -> Nat]
  BY <1>1, RowTypes
<1>3. /\ session' \in [Sessions -> Session]
      /\ SessionsFit' /\ Disciplined' /\ OneExporter'
  BY <1>1, SameSessions
<1>4. BatchRows'
  BY <1>1 DEF Inv, BatchRows
<1>5. CASE item' = item
  <2>1. \A t \in Sessions : (KnowsItems(session[t]) /\ KnowsBatch(session[t]))'
    BY <1>1, <1>5, RowTypes DEF KnowsItems, KnowsBatch, Live, Contents
  <2>2. ItemRows'
    BY <1>1, <1>5, RowTypes DEF ItemRows, ItemRow
  <2>3. PaidOnce' /\ SignedOff' /\ TotalsMatch' /\ ExplainedFirst' /\ PaidAsReviewed'
    BY <1>1, <1>5 DEF Inv, PaidOnce, SignedOff, TotalsMatch, ExplainedFirst,
       PaidAsReviewed, Live, Contents
  <2>4. \A i \in Items : files[i] = 1 => item[i].status \in {"EXPORTED", "VOID"}
    BY DEF Inv, Delivery, FilesRecorded
  <2>5. Delivery'
    BY <1>1, <1>5, <2>4, DeliveryKept DEF Contents
  <2> QED
    BY <1>1, <1>2, <1>3, <1>4, <1>5, <2>1, <2>2, <2>3, <2>5, RowTypes, MoneyWrite
<1>6. CASE item' # item
  <2>1. PICK i \in Items, flagged \in BOOLEAN :
          /\ work[w].status = "APPROVED" /\ ~Drafted(w) /\ item[i].status = "ABSENT"
          /\ item' = [item EXCEPT ![i] = DraftItem(w, flagged)]
    BY <1>6 DEF DraftJob
  <2>2. /\ DraftItem(w, flagged) \in Item
        /\ DraftItem(w, flagged).status \in {"DRAFT", "READY"}
        /\ DraftItem(w, flagged).work = w /\ DraftItem(w, flagged).amount = work[w].review
        /\ ~DraftItem(w, flagged).superseded /\ DraftItem(w, flagged).batch = None
    BY DEF DraftItem, NoItem, Inv, Typed, TypeOK, Work, Item, ItemStatus, Flags
  <2>3. /\ item' \in [Items -> Item] /\ item'[i] = DraftItem(w, flagged)
        /\ \A j \in Items \ {i} : item'[j] = item[j]
    BY <2>1, <2>2, RowTypes
  <2>4. /\ item'[i].status \in {"DRAFT", "READY"} /\ item'[i].work = w
        /\ item'[i].amount = work[w].review /\ ~item'[i].superseded /\ item'[i].batch = None
    BY <2>2, <2>3
  <2>5. item[i] = NoItem /\ item[i].batch = None /\ ~item[i].superseded /\ files[i] # 1 /\ ~Live(i)
    BY <2>1, RowTypes DEF ItemRow, NoItem, Inv, Delivery, FilesRecorded, Live
  <2>6. \A c \in Batches : Contents(item', c) = Contents(item, c)
    BY <2>3, <2>4, <2>5, RowTypes DEF Contents
  <2>7. ASSUME NEW t \in Sessions
        PROVE  (KnowsItems(session[t]) /\ KnowsBatch(session[t]))'
    <3>1. KnowsItems(session[t]) /\ KnowsBatch(session[t]) /\ Fits(session[t])
      BY RowTypes
    <3>2. session[t].at \in {"resolveWrite", "correctWrite"} =>
            session[t].on \in Items \ {i}
      BY <2>1, <3>1 DEF KnowsItems, Live, Fits
    <3>3. session[t].at = "batchWrite" =>
            /\ session[t].items \subseteq Items \ {i}
            /\ Total(item', session[t].items) = Total(item, session[t].items)
      <4>1. session[t].at = "batchWrite" => session[t].items \subseteq Items \ {i}
        BY <2>1, <3>1 DEF KnowsItems, Fits, Session
      <4> QED
        BY <2>3, <4>1, SameTotal
    <3>4. KnowsItems(session[t])'
      BY <1>1, <2>3, <3>1, <3>2, <3>3 DEF KnowsItems, Live
    <3>5. session[t].at = "sendWrite" =>
            \A j \in Items : item'[j].batch = session[t].on => item'[j].flags # "open"
      BY <2>3, <2>4, <3>1, RowTypes DEF KnowsBatch, Fits
    <3>6. session[t].at \in {"exportItems", "exportAnswer"} =>
            \A j \in session[t].items : j \in Items \ {i}
      BY <2>1, <3>1 DEF KnowsBatch, Fits, Session
    <3>7. KnowsBatch(session[t])'
      BY <1>1, <2>3, <2>6, <3>1, <3>5, <3>6 DEF KnowsBatch, Fits
    <3> QED
      BY <3>4, <3>7
  <2>8. ItemRows'
    <3> SUFFICES ASSUME NEW j \in Items PROVE ItemRow(j)'
      BY DEF ItemRows
    <3>1. CASE j = i
      BY <1>1, <2>4, <3>1, RowTypes DEF ItemRow
    <3>2. CASE j # i
      BY <1>1, <2>3, <3>2, RowTypes DEF ItemRow
    <3> QED
      BY <3>1, <3>2
  <2>9. PaidOnce'
    <3>1. \A j \in Items \ {i} : item'[j].work # w /\ (Live(j)' <=> Live(j))
      BY <2>1, <2>3 DEF Drafted, Live
    <3> QED
      BY <1>1, <2>3, <2>4, <3>1 DEF Inv, PaidOnce
  <2>10. SignedOff'
    BY <1>1, <2>6 DEF Inv, SignedOff
  <2>11. TotalsMatch'
    BY <1>1, <2>1, <2>3, <2>6, KeepTotals
  <2>12. ExplainedFirst'
    BY <1>1, <2>3, <2>4, RowTypes DEF Inv, ExplainedFirst
  <2>13. Delivery'
    <3>1. \A j \in Items : files[j] = 1 => item'[j].status \in {"EXPORTED", "VOID"}
      BY <2>3, <2>5 DEF Inv, Delivery, FilesRecorded
    <3>2. \A c \in Batches : \A j \in Contents(item', c) : item'[j].status = item[j].status
      BY <2>3, <2>4, RowTypes DEF Contents
    <3> QED
      BY <1>1, <2>6, <3>1, <3>2, DeliveryKept
  <2>14. PaidAsReviewed'
    <3> SUFFICES ASSUME NEW j \in Items, Live(j)'
                 PROVE  /\ work[item'[j].work].status = "APPROVED"
                        /\ \/ item'[j].amount = work[item'[j].work].review
                           \/ \E k \in Items : item'[k].superseded /\ item'[k].work = item'[j].work
      BY <1>1 DEF PaidAsReviewed
    <3>1. CASE j = i
      BY <2>1, <2>4, <3>1
    <3>2. CASE j # i
      <4>1. Live(j) /\ item'[j] = item[j]
        BY <2>3, <3>2 DEF Live
      <4>2. \A k \in Items : item[k].superseded => item'[k] = item[k]
        BY <2>3, <2>5
      <4> QED
        BY <4>1, <4>2 DEF Inv, PaidAsReviewed
    <3> QED
      BY <3>1, <3>2
  <2> QED
    BY <1>1, <1>2, <1>3, <1>4, <2>3, <2>7, <2>8, <2>9, <2>10, <2>11, <2>12, <2>13, <2>14,
       RowTypes, MoneyWrite
<1> QED
  BY <1>5, <1>6

\* The status written back is the one the item still has, but for a draft that
\* becomes ready.
LEMMA ResolveWriteStep ==
  ASSUME Overlapping \cap Conflicting = {},
         Inv, NEW s \in Sessions, ResolveWrite(s)
  PROVE  Inv'
<1> DEFINE i == session[s].on
           status == IF session[s].seen = "DRAFT" THEN "READY" ELSE session[s].seen
           row == [item[i] EXCEPT !.status = status, !.flags = "explained"]
<1>1. /\ session[s].at = "resolveWrite" /\ session[s].on = i /\ session[s].call = "resolve"
      /\ i \in Items /\ Active(s) /\ item[i] \in Item
  BY RowTypes DEF ResolveWrite, Fits, Active
<1>2. /\ status \in ItemStatus /\ status # "ABSENT" /\ item[i].status # "ABSENT"
      /\ status = item[i].status \/ (item[i].status = "DRAFT" /\ status = "READY")
  BY <1>1, RowTypes DEF KnowsItems, ItemStatus
<1>3. row \in Item
  BY <1>1, <1>2 DEF Item, Flags
<1>4. /\ item' = [item EXCEPT ![i] = row]
      /\ Goes(s, Idle) /\ UNCHANGED <<work, drafts, batch, signed, files, cut>>
  <2>1. item' = [item EXCEPT ![i].status = status, ![i].flags = "explained"]
    BY DEF ResolveWrite
  <2> QED
    BY <1>1, <2>1, RowTypes DEF ResolveWrite, Ends, Goes, historyVars
<1>5. /\ row.status = status /\ row.flags = "explained" /\ row.work = item[i].work
      /\ row.amount = item[i].amount /\ row.superseded = item[i].superseded
      /\ row.batch = item[i].batch
  BY <1>1 DEF Item
<1> HIDE DEF i, status, row
<1>6. /\ session' \in [Sessions -> Session] /\ SessionsFit' /\ Disciplined'
      /\ session'[s] = Idle /\ \A t \in Sessions \ {s} : session'[t] = session[t]
      /\ Idle.at = "idle"
  BY <1>4, IdleProper, ProperStep
<1>7. /\ item' \in [Items -> Item] /\ item'[i] = row /\ \A j \in Items \ {i} : item'[j] = item[j]
  BY <1>1, <1>3, <1>4, RowTypes
<1>8. ASSUME NEW j \in Items
      PROVE  /\ item'[j].work = item[j].work /\ item'[j].amount = item[j].amount
             /\ item'[j].superseded = item[j].superseded /\ item'[j].batch = item[j].batch
             /\ \/ item'[j].status = item[j].status
                \/ item[j].status = "DRAFT" /\ item'[j].status = "READY"
             /\ item'[j].flags # item[j].flags => item'[j].flags = "explained"
  BY <1>2, <1>5, <1>7
<1>9. \A c \in Batches : Contents(item', c) = Contents(item, c)
  BY <1>8 DEF Contents
<1>10. \A j \in Items : Live(j)' <=> Live(j)
  BY <1>8 DEF Live
<1>11. ASSUME NEW t \in Sessions
       PROVE  (KnowsItems(session[t]) /\ KnowsBatch(session[t]))'
  <2>1. CASE t = s
    BY <1>6, <2>1 DEF KnowsItems, KnowsBatch
  <2>2. CASE t # s
    <3>1. session[t].at \notin {"correctWrite", "batchWrite"}
      BY <1>1, <2>2, Alone DEF Active
    <3>2. KnowsItems(session[t]) /\ KnowsBatch(session[t]) /\ Fits(session[t])
      BY RowTypes
    <3>3. session[t].at = "resolveWrite" =>
            \/ item'[session[t].on].status = session[t].seen
            \/ session[t].seen = "DRAFT" /\ item'[session[t].on].status = "READY"
      BY <1>8, <3>2 DEF KnowsItems, Fits
    <3>4. KnowsItems(session[t])'
      BY <1>6, <2>2, <3>1, <3>2, <3>3 DEF KnowsItems
    <3>5. session[t].at = "sendWrite" =>
            \A j \in Items : item'[j].batch = session[t].on => item'[j].flags # "open"
      BY <1>8, <3>2 DEF KnowsBatch
    <3>6. session[t].at \in {"exportItems", "exportAnswer"} =>
            \A j \in session[t].items : item'[j].status = item[j].status
      BY <1>8, <3>2 DEF KnowsBatch, Fits, Session
    <3>7. KnowsBatch(session[t])'
      BY <1>4, <1>6, <1>9, <2>2, <3>2, <3>5, <3>6 DEF KnowsBatch, Fits
    <3> QED
      BY <3>4, <3>7
  <2> QED
    BY <2>1, <2>2
<1>12. OneExporter'
  BY <1>6 DEF Inv, OneExporter, Exporting
<1>13. ItemRows'
  <2> SUFFICES ASSUME NEW j \in Items PROVE ItemRow(j)'
    BY DEF ItemRows
  <2>1. CASE j = i
    <3>1. ItemRow(i)
      BY <1>1, RowTypes
    <3> QED
      BY <1>2, <1>4, <1>5, <1>7, <2>1, <3>1 DEF ItemRow
  <2>2. CASE j # i
    BY <1>4, <1>7, <2>2, RowTypes DEF ItemRow
  <2> QED
    BY <2>1, <2>2
<1>14. BatchRows'
  BY <1>4 DEF Inv, BatchRows
<1>15. PaidOnce'
  BY <1>4, <1>8, <1>10 DEF Inv, PaidOnce
<1>16. SignedOff'
  BY <1>4, <1>9 DEF Inv, SignedOff
<1>17. TotalsMatch'
  BY <1>4, <1>8, <1>9, KeepTotals
<1>18. ExplainedFirst'
  BY <1>4, <1>8 DEF Inv, ExplainedFirst
<1>19. Delivery'
  <2>1. \A j \in Items : files[j] = 1 => item'[j].status \in {"EXPORTED", "VOID"}
    BY <1>8 DEF Inv, Delivery, FilesRecorded
  <2>2. \A c \in Batches : \A j \in Contents(item', c) : item'[j].status = item[j].status
    BY <1>8, RowTypes DEF Contents, ItemRow
  <2> QED
    BY <1>1, <1>4, <1>6, <1>9, <2>1, <2>2, DeliveryKept
<1>20. PaidAsReviewed'
  BY <1>4, <1>8, <1>10 DEF Inv, PaidAsReviewed
<1> QED
  BY <1>4, <1>6, <1>7, <1>11, <1>12, <1>13, <1>14, <1>15, <1>16, <1>17, <1>18, <1>19, <1>20,
     RowTypes, MoneyWrite

\* A correction excludes every other call about items and batches, so what it
\* read of the item and of its batch is still so.
LEMMA CorrectWriteStep ==
  ASSUME Overlapping \cap Conflicting = {},
         Inv, NEW s \in Sessions, CorrectWrite(s)
  PROVE  Inv'
<1> DEFINE i == session[s].on
           b == session[s].batch
           n == session[s].n
           seen == session[s].seen
           void == [item[i] EXCEPT !.status = "VOID", !.superseded = TRUE, !.batch = None]
           fresh == Replacement(i, n)
<1>1. /\ session[s].at = "correctWrite" /\ session[s].on = i /\ session[s].call = "correct"
      /\ i \in Items /\ Active(s) /\ item[i] \in Item /\ n \in Nat
      /\ b \in Batches \cup {None} /\ session[s] \in Session
  BY RowTypes DEF CorrectWrite, Fits, Active, Session
<1>2. /\ Live(i) /\ item[i].batch = b /\ ItemRow(i)
      /\ b # None => seen = batch[b].status
  BY <1>1, RowTypes DEF KnowsItems
<1>3. PICK r \in Items :
        /\ item[r].status = "ABSENT"
        /\ item' = [item EXCEPT ![r] = fresh, ![i].status = "VOID",
                                ![i].superseded = TRUE, ![i].batch = None]
  BY DEF CorrectWrite
<1>4. r # i /\ item[r] = NoItem /\ files[r] # 1 /\ ~Live(r)
  BY <1>2, <1>3, RowTypes DEF Live, ItemRow, Inv, Delivery, FilesRecorded
<1>5. fresh \in Item /\ void \in Item
  BY <1>1 DEF Replacement, NoItem, Item, ItemStatus, Flags
<1>6. /\ item' \in [Items -> Item] /\ item'[r] = fresh /\ item'[i] = void
      /\ \A j \in Items \ {i, r} : item'[j] = item[j]
  <2>1. item' = [[item EXCEPT ![r] = fresh] EXCEPT ![i] = void]
    BY <1>1, <1>3, <1>4, RowTypes
  <2> HIDE DEF fresh, void
  <2> QED
    BY <1>1, <1>4, <1>5, <2>1, RowTypes
<1>7. /\ item'[r].status = "READY" /\ item'[r].work = item[i].work /\ item'[r].amount = n
      /\ ~item'[r].superseded /\ item'[r].batch = None
  BY <1>6 DEF Replacement, NoItem
<1>8. /\ item'[i].status = "VOID" /\ item'[i].work = item[i].work
      /\ item'[i].superseded /\ item'[i].batch = None
  BY <1>1, <1>6 DEF Item
<1>9. /\ batch' = IF b = None THEN batch ELSE [batch EXCEPT ![b] = Recomputed(b, item', seen)]
      /\ Goes(s, Idle) /\ UNCHANGED <<work, drafts, signed, files, cut>>
  BY DEF CorrectWrite, Ends, Goes, historyVars
<1> HIDE DEF i, b, n, seen, fresh, void
<1>10. /\ session' \in [Sessions -> Session] /\ SessionsFit' /\ Disciplined'
       /\ session'[s] = Idle /\ \A t \in Sessions \ {s} : session'[t] = session[t]
       /\ Idle.at = "idle"
  BY <1>9, IdleProper, ProperStep
<1>11. \A c \in Batches : IsFiniteSet(Contents(item', c)) /\ Contents(item', c) \subseteq Items
  BY PaymentsAssumption, FS_Subset DEF Contents
<1>12. /\ batch' \in [Batches -> Batch]
       /\ \A c \in Batches : c # b => batch'[c] = batch[c]
       /\ b # None =>
            /\ batch'[b].total = Total(item', Contents(item', b))
            /\ batch'[b].createdBy = batch[b].createdBy
            /\ \/ batch[b].status \in {"PENDING_APPROVAL", "APPROVED"} /\ batch'[b].status = "DRAFT"
               \/ /\ batch[b].status \notin {"PENDING_APPROVAL", "APPROVED"}
                  /\ batch'[b].status = batch[b].status
                  /\ batch'[b].approvedBy = batch[b].approvedBy
  <2>1. CASE b = None
    BY <1>9, <2>1, RowTypes
  <2>2. CASE b # None
    <3>1. b \in Batches /\ seen = batch[b].status /\ batch[b] \in Batch
      BY <1>1, <1>2, <2>2, RowTypes
    <3>2. Total(item', Contents(item', b)) \in Nat
      BY <1>6, <1>11, <3>1, TotalNatural DEF Item
    <3>3. Recomputed(b, item', seen) \in Batch
      BY <3>1, <3>2 DEF Recomputed, Reopens, Batch, BatchStatus
    <3>4. /\ batch' \in [Batches -> Batch] /\ batch'[b] = Recomputed(b, item', seen)
          /\ \A c \in Batches \ {b} : batch'[c] = batch[c]
      BY <1>9, <2>2, <3>1, <3>3, RowTypes
    <3> QED
      BY <3>1, <3>4 DEF Recomputed, Reopens, Batch
  <2> QED
    BY <2>1, <2>2
<1>13. \A j \in Items \ {i, r} : Live(j)' <=> Live(j)
  BY <1>6 DEF Live
<1>14. /\ \A c \in Batches : c # b => Contents(item', c) = Contents(item, c)
       /\ b # None => Contents(item', b) \subseteq Contents(item, b)
  BY <1>2, <1>4, <1>6, <1>7, <1>8 DEF Contents, NoItem
<1>15. \A c \in Batches : Contents(item', c) \subseteq Items \ {i, r}
  BY <1>6, <1>7, <1>8, RowTypes DEF Contents
<1>16. ASSUME NEW t \in Sessions
       PROVE  (KnowsItems(session[t]) /\ KnowsBatch(session[t]))'
  <2>1. CASE t = s
    BY <1>10, <2>1 DEF KnowsItems, KnowsBatch
  <2>2. CASE t # s
    <3>1. ~Active(t) \/ session[t].at \in {"submitCreate", "submitUpdate", "reviewCreate",
                                           "reviewUpdate", "reviewEnqueue"}
      BY <1>1, <2>2, Alone
    <3> QED
      BY <1>10, <2>2, <3>1 DEF KnowsItems, KnowsBatch, Active
  <2> QED
    BY <2>1, <2>2
<1>17. OneExporter'
  BY <1>10 DEF Inv, OneExporter, Exporting
<1>18. ItemRows'
  <2> SUFFICES ASSUME NEW j \in Items PROVE ItemRow(j)'
    BY DEF ItemRows
  <2>1. CASE j = i
    BY <1>2, <1>8, <1>9, <2>1 DEF ItemRow, Live
  <2>2. CASE j = r
    BY <1>2, <1>4, <1>7, <1>9, <2>2, RowTypes DEF ItemRow, Live
  <2>3. CASE j \in Items \ {i, r}
    <3>1. ItemRow(j) /\ item[j].batch \in Batches \cup {None}
      BY RowTypes
    <3>2. item[j].batch # None => /\ batch'[item[j].batch].status # "ABSENT"
                                  /\ batch[item[j].batch].status = "EXPORTED" =>
                                       batch'[item[j].batch].status = "EXPORTED"
      BY <1>12, <3>1 DEF ItemRow
    <3> QED
      BY <1>6, <1>9, <2>3, <3>1, <3>2 DEF ItemRow
  <2> QED
    BY <2>1, <2>2, <2>3
<1>19. BatchRows'
  <2> SUFFICES ASSUME NEW c \in Batches, batch'[c].status = "ABSENT" PROVE batch'[c] = NoBatch
    BY DEF BatchRows
  <2>1. c # b
    BY <1>2, <1>12, RowTypes DEF ItemRow
  <2> QED
    BY <1>12, <2>1 DEF Inv, BatchRows
<1>20. PaidOnce'
  <2>1. \A j \in Items \ {i} : Live(j) => item[j].work # item[i].work
    BY <1>1, <1>2 DEF Inv, PaidOnce
  <2>2. \A j \in Items : Live(j)' => j # i
    BY <1>8 DEF Live
  <2> QED
    BY <1>6, <1>7, <1>9, <1>13, <2>1, <2>2 DEF Inv, PaidOnce
<1>21. SignedOff'
  <2> SUFFICES ASSUME NEW c \in Batches
               PROVE  /\ batch'[c].status \in {"APPROVED", "EXPORTED"} =>
                           /\ Contents(item', c) \subseteq signed[c]
                           /\ batch'[c].approvedBy \notin {None, batch'[c].createdBy}
                      /\ batch'[c].status = "APPROVED" => Contents(item', c) = signed[c]
    BY <1>9 DEF SignedOff
  <2>1. CASE c # b
    BY <1>12, <1>14, <2>1 DEF Inv, SignedOff
  <2>2. CASE c = b
    BY <1>12, <1>14, <2>2, RowTypes DEF Inv, SignedOff
  <2> QED
    BY <2>1, <2>2
<1>22. TotalsMatch'
  <2> SUFFICES ASSUME NEW c \in Batches
               PROVE  batch'[c].total = Total(item', Contents(item', c))
    BY DEF TotalsMatch
  <2>1. CASE c # b
    <3>1. \A j \in Contents(item', c) : item'[j].amount = item[j].amount
      BY <1>6, <1>15
    <3>2. Total(item', Contents(item', c)) = Total(item, Contents(item', c))
      BY <3>1, SameTotal
    <3> QED
      BY <1>12, <1>14, <2>1, <3>2 DEF Inv, TotalsMatch
  <2>2. CASE c = b
    BY <1>12, <2>2, RowTypes
  <2> QED
    BY <2>1, <2>2
<1>23. ExplainedFirst'
  <2> SUFFICES ASSUME NEW j \in Items, NEW c \in Batches,
                      item'[j].batch = c, batch'[c].status # "DRAFT"
               PROVE  item'[j].flags # "open"
    BY DEF ExplainedFirst
  <2>1. item'[j] = item[j]
    BY <1>6, <1>7, <1>8, RowTypes
  <2>2. batch[c].status # "DRAFT"
    BY <1>12, RowTypes
  <2> QED
    BY <2>1, <2>2 DEF Inv, ExplainedFirst
<1>24. Delivery'
  <2>1. \A j \in Items : files[j] = 1 => item'[j].status \in {"EXPORTED", "VOID"}
    BY <1>4, <1>6, <1>8 DEF Inv, Delivery, FilesRecorded
  <2>2. \A c \in Batches : /\ Contents(item', c) \subseteq Contents(item, c)
                            /\ \A j \in Contents(item', c) : item'[j].status = item[j].status
    BY <1>6, <1>14, <1>15, RowTypes
  <2>3. \A c \in Batches : batch'[c].status = "EXPORTED" <=> batch[c].status = "EXPORTED"
    BY <1>12, RowTypes
  <2> QED
    BY <1>1, <1>9, <1>10, <2>1, <2>2, <2>3, DeliveryKept
<1>25. PaidAsReviewed'
  <2> SUFFICES ASSUME NEW j \in Items, Live(j)'
               PROVE  /\ work[item'[j].work].status = "APPROVED"
                      /\ \/ item'[j].amount = work[item'[j].work].review
                         \/ \E k \in Items : item'[k].superseded /\ item'[k].work = item'[j].work
    BY <1>9 DEF PaidAsReviewed
  <2>1. CASE j = r
    BY <1>1, <1>2, <1>7, <1>8, <2>1 DEF Inv, PaidAsReviewed
  <2>2. CASE j # r
    <3>1. j \in Items \ {i, r} /\ Live(j) /\ item'[j] = item[j]
      BY <1>6, <1>8, <1>13, <2>2 DEF Live
    <3>2. \A k \in Items : item[k].superseded => item'[k].superseded /\ item'[k].work = item[k].work
      BY <1>4, <1>6, <1>8 DEF NoItem
    <3> QED
      BY <3>1, <3>2 DEF Inv, PaidAsReviewed
  <2> QED
    BY <2>1, <2>2
<1> QED
  BY <1>6, <1>9, <1>10, <1>12, <1>16, <1>17, <1>18, <1>19, <1>20, <1>21, <1>22, <1>23, <1>24, <1>25,
     RowTypes, MoneyWrite

\* The items are still in no batch, so their total is the one that was read.
LEMMA BatchWriteStep ==
  ASSUME Overlapping \cap Conflicting = {},
         Inv, NEW s \in Sessions, BatchWrite(s)
  PROVE  Inv'
<1> DEFINE I == session[s].items
           n == session[s].n
           by == session[s].by
           made(b) == [NoBatch EXCEPT !.status = "DRAFT", !.total = n, !.createdBy = by]
<1>1. /\ session[s].at = "batchWrite" /\ session[s].call = "batch" /\ Active(s)
      /\ I \in SUBSET Items /\ n \in Nat /\ by \in Operators
  BY RowTypes DEF BatchWrite, Fits, Active, Session
<1>2. /\ \A i \in I : item[i].status = "READY" /\ item[i].batch = None
      /\ n = Total(item, I)
  BY <1>1, RowTypes DEF KnowsItems
<1>3. PICK b \in Batches :
        /\ batch[b].status = "ABSENT"
        /\ batch' = [batch EXCEPT ![b] = made(b)]
        /\ item' = [i \in Items |-> IF i \in I
                                    THEN [item[i] EXCEPT !.batch = b, !.status = "IN_BATCH"]
                                    ELSE item[i]]
  BY DEF BatchWrite
<1>4. Goes(s, Idle) /\ UNCHANGED <<work, drafts, signed, files, cut>>
  BY DEF BatchWrite, Ends, Goes, historyVars
<1>5. /\ batch' \in [Batches -> Batch]
      /\ batch'[b].status = "DRAFT" /\ batch'[b].total = n
      /\ \A c \in Batches \ {b} : batch'[c] = batch[c]
  BY <1>1, <1>3, RowTypes DEF NoBatch, Batch, BatchStatus
<1>6. item' \in [Items -> Item]
  <2>1. \A i \in Items : [item[i] EXCEPT !.batch = b, !.status = "IN_BATCH"] \in Item
    <3> SUFFICES ASSUME NEW i \in Items
                 PROVE  [item[i] EXCEPT !.batch = b, !.status = "IN_BATCH"] \in Item
      OBVIOUS
    <3>1. item[i] \in Item
      BY RowTypes
    <3> QED
      BY <3>1 DEF Item, ItemStatus
  <2> QED
    BY <1>3, <2>1, RowTypes
<1>7. ASSUME NEW i \in Items
      PROVE  /\ item'[i].work = item[i].work /\ item'[i].amount = item[i].amount
             /\ item'[i].flags = item[i].flags /\ item'[i].superseded = item[i].superseded
             /\ i \in I => item'[i].batch = b /\ item'[i].status = "IN_BATCH"
             /\ i \notin I => item'[i] = item[i]
  <2>1. item[i] \in Item
    BY RowTypes
  <2> QED
    BY <1>3, <2>1 DEF Item
<1> HIDE DEF I, n, by, made
<1>8. /\ session' \in [Sessions -> Session] /\ SessionsFit' /\ Disciplined'
      /\ session'[s] = Idle /\ \A t \in Sessions \ {s} : session'[t] = session[t]
      /\ Idle.at = "idle"
  BY <1>4, IdleProper, ProperStep
<1>9. \A i \in Items : item[i].batch # b
  BY <1>3, RowTypes DEF ItemRow
<1>10. /\ Contents(item', b) = I
       /\ \A c \in Batches \ {b} : Contents(item', c) = Contents(item, c)
  <2>1. \A i \in Items : i \in Contents(item', b) <=> i \in I
    BY <1>7, <1>9 DEF Contents
  <2>2. ASSUME NEW c \in Batches \ {b}, NEW i \in Items
        PROVE  i \in Contents(item', c) <=> i \in Contents(item, c)
    BY <1>2, <1>7, RowTypes DEF Contents
  <2> QED
    BY <1>1, <2>1, <2>2 DEF Contents
<1>11. \A i \in Items : Live(i)' <=> Live(i)
  BY <1>2, <1>7 DEF Live
<1>12. ASSUME NEW t \in Sessions
       PROVE  (KnowsItems(session[t]) /\ KnowsBatch(session[t]))'
  <2>1. CASE t = s
    BY <1>8, <2>1 DEF KnowsItems, KnowsBatch
  <2>2. CASE t # s
    <3>1. session[t].at \notin {"correctWrite", "batchWrite", "resolveWrite"}
      BY <1>1, <2>2, Alone DEF Active
    <3>2. KnowsItems(session[t]) /\ KnowsBatch(session[t]) /\ Fits(session[t])
      BY RowTypes
    <3>3. KnowsItems(session[t])'
      BY <1>8, <2>2, <3>1 DEF KnowsItems
    <3>4. session[t].at \in {"sendWrite", "approveClaim", "exportClaim", "exportItems",
                               "exportAnswer"} =>
            session[t].on \in Batches \ {b}
      BY <1>3, <3>2 DEF KnowsBatch, Fits
    <3>5. session[t].at = "sendWrite" =>
            \A i \in Items : item'[i].batch = session[t].on => item'[i].flags # "open"
      BY <1>7, <3>2, <3>4 DEF KnowsBatch
    <3>6. session[t].at \in {"exportItems", "exportAnswer"} =>
            \A i \in session[t].items : item'[i].status = item[i].status
      BY <1>2, <1>7, <3>2 DEF KnowsBatch, Fits, Session
    <3>7. KnowsBatch(session[t])'
      BY <1>5, <1>8, <1>10, <2>2, <3>2, <3>4, <3>5, <3>6 DEF KnowsBatch
    <3> QED
      BY <3>3, <3>7
  <2> QED
    BY <2>1, <2>2
<1>13. OneExporter'
  BY <1>8 DEF Inv, OneExporter, Exporting
<1>14. ItemRows'
  <2> SUFFICES ASSUME NEW i \in Items PROVE ItemRow(i)'
    BY DEF ItemRows
  <2>1. CASE i \in I
    <3>1. ItemRow(i) /\ item[i].status = "READY"
      BY <1>2, <2>1, RowTypes
    <3> QED
      BY <1>4, <1>5, <1>7, <2>1, <3>1, RowTypes DEF ItemRow
  <2>2. CASE i \notin I
    <3>1. ItemRow(i) /\ item[i].batch \in Batches \cup {None} /\ item[i].batch # b
      BY <1>9, RowTypes
    <3> QED
      BY <1>4, <1>5, <1>7, <2>2, <3>1 DEF ItemRow
  <2> QED
    BY <2>1, <2>2
<1>15. BatchRows'
  BY <1>5 DEF Inv, BatchRows
<1>16. PaidOnce'
  BY <1>4, <1>7, <1>11 DEF Inv, PaidOnce
<1>17. SignedOff'
  BY <1>4, <1>5, <1>10 DEF Inv, SignedOff
<1>18. TotalsMatch'
  <2> SUFFICES ASSUME NEW c \in Batches
               PROVE  batch'[c].total = Total(item', Contents(item', c))
    BY DEF TotalsMatch
  <2>1. Contents(item', c) \subseteq Items
    BY DEF Contents
  <2>2. Total(item', Contents(item', c)) = Total(item, Contents(item', c))
    BY <1>7, <2>1, SameTotal
  <2> QED
    BY <1>2, <1>5, <1>10, <2>2 DEF Inv, TotalsMatch
<1>19. ExplainedFirst'
  BY <1>5, <1>7 DEF Inv, ExplainedFirst
<1>20. Delivery'
  <2>1. \A i \in Items : files[i] = 1 => item'[i].status \in {"EXPORTED", "VOID"}
    BY <1>2, <1>7 DEF Inv, Delivery, FilesRecorded
  <2>2. \A c \in Batches \ {b} : \A i \in Contents(item', c) : item'[i].status = item[i].status
    BY <1>7 DEF Contents
  <2>3. \A c \in Batches : batch'[c].status = "EXPORTED" <=> batch[c].status = "EXPORTED"
    BY <1>3, <1>5
  <2>4. \A c \in Batches : batch[c].status = "EXPORTED" => c # b
    BY <1>3
  <2> QED
    BY <1>1, <1>4, <1>8, <1>10, <2>1, <2>2, <2>3, <2>4, DeliveryKept
<1>21. PaidAsReviewed'
  BY <1>4, <1>7, <1>11 DEF Inv, PaidAsReviewed
<1> QED
  BY <1>4, <1>5, <1>6, <1>8, <1>12, <1>13, <1>14, <1>15, <1>16, <1>17, <1>18, <1>19, <1>20, <1>21,
     RowTypes, MoneyWrite

-----------------------------------------------------------------------------
(***************************************************************************)
(* The invariant holds.                                                    *)
(***************************************************************************)

LEMMA InitInv == ASSUME Init PROVE Inv
<1>1. TypeOK
  BY DEF Init, TypeOK, NoItem, NoBatch, Idle, Work, WorkStatus, Item, ItemStatus, Flags, Batch,
     BatchStatus, Session, Points
<1>2. \A s \in Sessions : session[s] = Idle /\ Idle.at = "idle" /\ ~Active(s)
  BY DEF Init, Active, Idle
<1>3. SessionsFit
  BY <1>1, <1>2 DEF SessionsFit, Fits, TypeOK
<1>4. Disciplined /\ OneExporter /\ OneSubmitter
  BY <1>2 DEF Disciplined, OneExporter, OneSubmitter, Exporting
<1>5. Knows
  BY <1>2 DEF Knows, KnowsWork, KnowsItems, KnowsBatch
<1>6. WorkRows
  BY DEF Init, WorkRows
<1>7. \A i \in Items : /\ item[i] = NoItem /\ NoItem.status = "ABSENT" /\ NoItem.batch = None
                       /\ ~NoItem.superseded /\ files[i] = 0 /\ ~Live(i)
  BY DEF Init, NoItem, Live
<1>8. ItemRows
  BY <1>7 DEF ItemRows, ItemRow
<1>9. \A b \in Batches : batch[b] = NoBatch /\ NoBatch.status = "ABSENT" /\ NoBatch.total = 0
  BY DEF Init, NoBatch
<1>10. BatchRows
  BY <1>9 DEF BatchRows
<1>11. None \notin Batches
  BY PaymentsAssumption
<1>12. PaidOnce /\ PaidAsReviewed /\ ExplainedFirst
  BY <1>7, <1>11 DEF PaidOnce, PaidAsReviewed, ExplainedFirst
<1>13. SignedOff
  BY <1>9 DEF SignedOff
<1>14. TotalsMatch
  <2>1. \A b \in Batches : Contents(item, b) = {}
    BY <1>7, <1>11 DEF Contents
  <2> QED
    BY <1>9, <2>1, TotalOfNone DEF TotalsMatch
<1>15. Delivery
  BY <1>2, <1>7, <1>9 DEF Init, Delivery, FilesRecorded, InHand, Exporting
<1> QED
  BY <1>1, <1>3, <1>4, <1>5, <1>6, <1>8, <1>10, <1>12, <1>13, <1>14, <1>15 DEF Inv, Typed

LEMMA NextInv ==
  ASSUME Overlapping \cap Conflicting = {}, Inv, [Next]_vars
  PROVE  Inv'
<1>1. CASE UNCHANGED vars
  BY <1>1 DEF vars, historyVars, Inv, Typed, TypeOK, SessionsFit, Disciplined, Active,
     Knows, KnowsWork, Undelivered, KnowsItems, KnowsBatch, Live, Contents,
     OneExporter, OneSubmitter, WorkRows, ItemRows, ItemRow, BatchRows,
     PaidOnce, SignedOff, TotalsMatch, ExplainedFirst, Delivery, FilesRecorded, InHand,
     Exporting, PaidAsReviewed
<1>2. ASSUME NEW s \in Sessions, WorkStep(s)
      PROVE  Inv'
  BY <1>2, SubmitReadStep, ReviewReadStep, SubmitCreateStep, SubmitUpdateStep,
     ReviewCreateStep, ReviewUpdateStep, ReviewEnqueueStep DEF WorkStep
<1>3. ASSUME NEW s \in Sessions, ItemStep(s)
      PROVE  Inv'
  BY <1>3, ResolveReadStep, CorrectReadStep, ResolveWriteStep, CorrectWriteStep DEF ItemStep
<1>4. ASSUME NEW s \in Sessions, BatchStep(s)
      PROVE  Inv'
  BY <1>4, BatchReadStep, SendReadStep, ExportReadStep, ApproveReadStep, BatchWriteStep,
     SendWriteStep, ApproveClaimStep, ExportClaimStep, ExportItemsStep, ExportAnswerStep DEF BatchStep
<1>5. ASSUME NEW s \in Sessions, Crash(s)
      PROVE  Inv'
  BY <1>5, CrashStep
<1>6. ASSUME NEW w \in Works, CancelWork(w) \/ DraftJob(w)
      PROVE  Inv'
  BY <1>6, CancelWorkStep, DraftJobStep
<1> QED
  BY <1>1, <1>2, <1>3, <1>4, <1>5, <1>6 DEF Next

\* The invariant, with the discipline of the two writers of one payment, holds in
\* every reachable state.
THEOREM InvHolds ==
  ASSUME Overlapping \cap Conflicting = {} PROVE Spec => []Inv
<1>1. Init => Inv
  BY InitInv
<1>2. Inv /\ [Next]_vars => Inv'
  BY NextInv
<1> QED
  BY <1>1, <1>2, PTL DEF Spec

-----------------------------------------------------------------------------
(***************************************************************************)
(* The theorems.  Their hypothesis names the calls that nothing in the     *)
(* code keeps apart: the runs payments_batches and payments_work meet it.  *)
(***************************************************************************)

\* Every table and every request in progress has its type, whichever requests
\* of work.ts and payments.ts interleave, die or are refused.
THEOREM TypeCorrect ==
  ASSUME Overlapping \cap Conflicting = {} PROVE Spec => []TypeOK
BY InvHolds, PTL DEF Inv, Typed

\* The same approved work is never paid twice: no payment item is in two files
\* (exportBatch) and no work item has two live payment items (the drafting job
\* and correctPaymentItem).
THEOREM PaidOnceHolds ==
  ASSUME Overlapping \cap Conflicting = {} PROVE Spec => []PaidOnce
BY InvHolds, PTL DEF Inv

\* What counts as approved is what somebody other than the batch's author was
\* shown (approveBatch), for corrections and exports in any order.
THEOREM SignedOffHolds ==
  ASSUME Overlapping \cap Conflicting = {} PROVE Spec => []SignedOff
BY InvHolds, PTL DEF Inv

\* The total a batch states is the total of its live items, although it is
\* computed from items read before the transaction that writes it.
THEOREM TotalsHold ==
  ASSUME Overlapping \cap Conflicting = {} PROVE Spec => []TotalsMatch
BY InvHolds, PTL DEF Inv

\* Nothing with an unexplained discrepancy is up for approval or beyond,
\* although submitBatchForApproval looks at the flags before it writes.
THEOREM ExplainedHolds ==
  ASSUME Overlapping \cap Conflicting = {} PROVE Spec => []ExplainedFirst
BY InvHolds, PTL DEF Inv

\* What is in a file is marked, and an exported batch is marked and in one file
\* as a whole, unless the request that exported it died after its claim: then
\* its items are in no file, and no other request can change that.
THEOREM FilesHold ==
  ASSUME Overlapping \cap Conflicting = {} PROVE Spec => []FilesRecorded
BY InvHolds, PTL DEF Inv, Delivery

\* Only approved work is paid, at the quantity its reviewer approved unless an
\* item of it was corrected, whatever is submitted or withdrawn meanwhile.
THEOREM PaidAsReviewedHolds ==
  ASSUME Overlapping \cap Conflicting = {} PROVE Spec => []PaidAsReviewed
BY InvHolds, PTL DEF Inv
=============================================================================
