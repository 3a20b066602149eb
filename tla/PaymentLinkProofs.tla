-------------------------- MODULE PaymentLinkProofs --------------------------
(***************************************************************************)
(* Theorems about PaymentLink, for any number of orders, tasks, retries    *)
(* and links.  Under every fault: a webhook settles its order once, the    *)
(* row names a real link, and the webhook of a paid link is never refused. *)
(* While Postgres answers, a row CREATING has an attempt that works on it. *)
(* As long as retries are safe, the CREATING row is a lock: one link per   *)
(* order, done only with a link and, when a customer pays only the link on *)
(* the row, PAID final.                                                    *)
(***************************************************************************)
EXTENDS PaymentLink, TLAPS

USE DEF MayCreate, Listed, NotRecorded, Settleable

-----------------------------------------------------------------------------
(* Types.                                                                   *)

\* What Fail leaves behind is well typed.
LEMMA FailTyped ==
  ASSUME PaymentTypeOK, NEW t \in Task, Fail(t)
  PROVE  /\ at' \in [Task -> Place]
         /\ isNew' \in [Task -> BOOLEAN]
         /\ found' \in [Task -> Link \union {NoLink}]
         /\ retries' \in [Task -> 0..MaxRetries]
  BY PaymentAssumption DEF PaymentTypeOK, Fail, Goto, Hold, Place

\* Saving the link a task holds is well typed.
LEMMA PublishTyped ==
  ASSUME PaymentTypeOK, NEW t \in Task, PublishLink(t)
  PROVE  /\ row' \in [Order -> RowState]
         /\ rowLink' \in [Order -> Link \union {NoLink}]
  BY DEF PaymentTypeOK, PublishLink, RowState

\* A step of a task keeps the types.
LEMMA StepTyped ==
  ASSUME PaymentTypeOK, NEW t \in Task, Step(t)
  PROVE  PaymentTypeOK'
<1> DEFINE o == OrderOf[t]
<1>o. o \in Order BY PaymentAssumption
<1> USE DEF hookVars, Goto, Hold, Place
<1>1. CASE InsertRow(t)
  BY <1>1, <1>o DEF InsertRow, PaymentTypeOK, RowState
<1>2. CASE Evaluate(t)
  <2> /\ row' = row /\ rowLink' = rowLink /\ remote' = remote
      /\ paid' = paid /\ recorded' = recorded /\ settled' = settled /\ crashes' = crashes
    BY <1>2 DEF Evaluate
  <2>1. CASE Fail(t) BY <2>1, FailTyped DEF PaymentTypeOK
  <2>2. CASE ~Fail(t) BY <1>2, <2>2 DEF Evaluate, PaymentTypeOK
  <2> QED BY <2>1, <2>2
<1>3. CASE Query(t)
  <2>1. 1..remote[o] \subseteq Link BY <1>o, PaymentAssumption DEF PaymentTypeOK, Link
  <2> QED BY <1>3, <2>1 DEF Query, PaymentTypeOK
<1>4. CASE Reconcile(t)
  <2>1. /\ row' \in [Order -> RowState]
        /\ rowLink' \in [Order -> Link \union {NoLink}]
    BY <1>4, PublishTyped DEF Reconcile, PaymentTypeOK
  <2> QED BY <1>4, <2>1 DEF Reconcile, PaymentTypeOK
<1>5. CASE Create(t)
  <2>1. remote[o] < MaxLinks => remote[o] + 1 \in Link
    BY <1>o, PaymentAssumption DEF PaymentTypeOK, Link
  <2> QED BY <1>5, <1>o, <2>1, PaymentAssumption DEF Create, PaymentTypeOK
<1>6. CASE Save(t)
  BY <1>6, PublishTyped DEF Save, PaymentTypeOK
<1>7. CASE SaveFailed(t)
  <2>1. row' \in [Order -> RowState] /\ rowLink' = rowLink
    BY <1>7 DEF SaveFailed, MarkFailed, PaymentTypeOK, RowState
  <2> QED BY <1>7, <2>1, FailTyped DEF SaveFailed, PaymentTypeOK
<1>8. CASE DbError(t)
  <2>1. /\ row' \in [Order -> RowState]
        /\ rowLink' \in [Order -> Link \union {NoLink}]
    BY <1>8, PublishTyped DEF DbError, MarkFailed, PaymentTypeOK, RowState
  <2> QED BY <1>8, <2>1, FailTyped DEF DbError, PaymentTypeOK
<1>9. CASE Retry(t)
  <2>1. retries[t] < MaxRetries => retries[t] + 1 \in 0..MaxRetries
    BY PaymentAssumption DEF PaymentTypeOK
  <2> QED BY <1>9, <2>1 DEF Retry, Publish, PaymentTypeOK
<1>10. CASE Ack(t) \/ NotStarted(t)
  BY <1>10, PaymentAssumption DEF Ack, NotStarted, PaymentTypeOK
<1> QED BY <1>1, <1>2, <1>3, <1>4, <1>5, <1>6, <1>7, <1>8, <1>9, <1>10 DEF Step

\* Every step keeps the types.
LEMMA NextTyped ==
  ASSUME PaymentTypeOK, [Next]_vars
  PROVE  PaymentTypeOK'
<1>1. ASSUME NEW t \in Task, Step(t) PROVE PaymentTypeOK'
  BY <1>1, StepTyped
<1>2. ASSUME NEW t \in Task, Crash(t) PROVE PaymentTypeOK'
  BY <1>2, PaymentAssumption DEF Crash, PaymentTypeOK, Goto, Hold, Place, hookVars
<1>3. ASSUME NEW o \in Order, NEW l \in Link, Pay(o, l) PROVE PaymentTypeOK'
  BY <1>3 DEF Pay, PaymentTypeOK, Payment, taskVars
<1>4. ASSUME NEW o \in Order, NEW l \in Link, Deliver(o, l) PROVE PaymentTypeOK'
  BY <1>4 DEF Deliver, PaymentTypeOK, Payment, RowState, taskVars
<1>5. CASE UNCHANGED vars
  BY <1>5 DEF PaymentTypeOK, vars
<1> QED BY <1>1, <1>2, <1>3, <1>4, <1>5 DEF Next, Ended

\* The initial state is well typed.
LEMMA InitTyped == Init => PaymentTypeOK
  BY PaymentAssumption DEF Init, PaymentTypeOK, RowState, Place

\* Every variable keeps its type.
THEOREM PaymentTypeCorrect == Spec => []PaymentTypeOK
  BY InitTyped, NextTyped, PTL DEF Spec

-----------------------------------------------------------------------------
(* Webhooks.  An event is counted only in the step that records it.         *)

\* An event settles no more often than it is recorded.
CountedWhenRecorded ==
  \A e \in Payment : settled[e] = IF e \in recorded THEN 1 ELSE 0

\* Every step keeps the count in line with the record.
LEMMA CountNext ==
  ASSUME PaymentTypeOK, CountedWhenRecorded, [Next]_vars
  PROVE  CountedWhenRecorded'
<1>1. ASSUME NEW o \in Order, NEW l \in Link, Deliver(o, l) PROVE CountedWhenRecorded'
  BY <1>1 DEF Deliver, CountedWhenRecorded, PaymentTypeOK, Payment
<1>2. CASE UNCHANGED <<recorded, settled>>
  BY <1>2 DEF CountedWhenRecorded
<1>3. CASE \E t \in Task : Step(t) \/ Crash(t)
  BY <1>2, <1>3 DEF Step, Crash, InsertRow, Evaluate, Query, Reconcile, Create,
     Save, SaveFailed, DbError, Retry, Ack, NotStarted, hookVars
<1>4. CASE \E o \in Order, l \in Link : Pay(o, l)
  BY <1>2, <1>4 DEF Pay
<1>5. CASE UNCHANGED vars
  BY <1>2, <1>5 DEF vars
<1> QED BY <1>1, <1>3, <1>4, <1>5 DEF Next, Ended

\* No webhook event settles its order twice, even if the row left PAID between
\* two deliveries: handle_razorpay_webhook.
THEOREM SettledOnce == Spec => []SettlesOnce
<1>1. Init => CountedWhenRecorded
  BY DEF Init, CountedWhenRecorded
<1>2. CountedWhenRecorded => SettlesOnce
  BY DEF CountedWhenRecorded, SettlesOnce
<1> QED BY <1>1, <1>2, CountNext, PaymentTypeCorrect, PTL DEF Spec

-----------------------------------------------------------------------------
(* Links.  Razorpay forgets none, and what a task holds it got there.       *)

\* A step of a task keeps links real.
LEMMA StepLinks ==
  ASSUME PaymentTypeOK, LinkIsReal, NEW t \in Task, Step(t)
  PROVE  LinkIsReal'
<1> DEFINE o == OrderOf[t]
<1>o. o \in Order /\ \A u \in Task : OrderOf[u] \in Order BY PaymentAssumption
<1>l. \A p \in Order : remote[p] \in Nat BY PaymentAssumption DEF PaymentTypeOK
<1> USE DEF hookVars, Goto, Hold, Place, PaymentTypeOK, LinkIsReal, Link, NoLink
<1>p. ASSUME PublishLink(t), UNCHANGED remote
      PROVE  \A p \in Order : rowLink'[p] <= remote'[p]
  BY <1>p, <1>o, <1>l DEF PublishLink
<1>f. ASSUME Fail(t), UNCHANGED remote
      PROVE  \A u \in Task :
               /\ found'[u] <= remote'[OrderOf[u]]
               /\ at'[u] \in {"save", "reconcile"} => found'[u] # NoLink
  BY <1>f, <1>o, <1>l DEF Fail
<1>1. CASE InsertRow(t)
  BY <1>1 DEF InsertRow
<1>2. CASE Fail(t) /\ UNCHANGED <<row, rowLink, remote>>
  BY <1>2, <1>f
<1>3. CASE Evaluate(t)
  BY <1>2, <1>3 DEF Evaluate
<1>4. CASE Query(t)
  BY <1>4, <1>o, <1>l DEF Query
<1>5. CASE Reconcile(t)
  <2>1. \A p \in Order : rowLink'[p] <= remote'[p]
    BY <1>5, <1>p DEF Reconcile
  <2> QED BY <1>5, <2>1, <1>o, <1>l DEF Reconcile
<1>6. CASE Create(t)
  BY <1>6, <1>o, <1>l DEF Create
<1>7. CASE Save(t)
  BY <1>7, <1>o, <1>l DEF Save, PublishLink
<1>8. CASE SaveFailed(t)
  BY <1>8, <1>f DEF SaveFailed, MarkFailed
<1>9. CASE DbError(t)
  <2>1. \A p \in Order : rowLink'[p] <= remote'[p]
    BY <1>9, <1>p DEF DbError, MarkFailed
  <2> QED BY <1>9, <2>1, <1>f DEF DbError
<1>10. CASE Retry(t) \/ Ack(t) \/ NotStarted(t)
  <2>1. UNCHANGED <<rowLink, remote, found>>
    BY <1>10 DEF Retry, Ack, NotStarted
  <2>2. \A u \in Task : at'[u] \in {"save", "reconcile"} => at'[u] = at[u]
    BY <1>10 DEF Retry, Publish, Ack, NotStarted
  <2> QED BY <2>1, <2>2
<1> QED BY <1>1, <1>3, <1>4, <1>5, <1>6, <1>7, <1>8, <1>9, <1>10 DEF Step

\* Every step keeps links real.
LEMMA NextReal ==
  ASSUME PaymentTypeOK, LinkIsReal, [Next]_vars
  PROVE  LinkIsReal'
<1>1. ASSUME NEW t \in Task, Step(t) PROVE LinkIsReal'
  BY <1>1, StepLinks
<1>2. ASSUME NEW t \in Task, Crash(t) PROVE LinkIsReal'
  <2>1. \A u \in Task : remote[OrderOf[u]] \in Nat
    BY PaymentAssumption DEF PaymentTypeOK
  <2>2. \A u \in Task :
          /\ found'[u] = IF u = t THEN 0 ELSE found[u]
          /\ at'[u] = IF u = t THEN "start" ELSE at[u]
    BY <1>2 DEF Crash, Goto, Hold, NoLink, PaymentTypeOK
  <2> QED BY <1>2, <2>1, <2>2 DEF Crash, LinkIsReal
<1>3. CASE \E o \in Order, l \in Link : Pay(o, l) \/ Deliver(o, l)
  BY <1>3 DEF Pay, Deliver, taskVars, LinkIsReal
<1>4. CASE UNCHANGED vars
  BY <1>4 DEF vars, LinkIsReal
<1> QED BY <1>1, <1>2, <1>3, <1>4 DEF Next, Ended

\* Whatever fails, the row never names a link Razorpay does not have.
THEOREM LinksAreReal == Spec => []LinkIsReal
<1>1. Init => LinkIsReal
  BY PaymentAssumption DEF Init, LinkIsReal, NoLink
<1> QED BY <1>1, NextReal, PaymentTypeCorrect, PTL DEF Spec

-----------------------------------------------------------------------------
(* Rows come first: no link exists, and no task works, before the row of    *)
(* the order, so that a paid link always finds a row to settle.             *)

\* Where a task is that has not reached the row.
Outside == {"none", "start", "caught", "retried", "dead"}

RowFirst ==
  /\ \A o \in Order :
       /\ remote[o] > 0 => row[o] # "none"
       /\ row[o] = "PAID" => \E k \in Link : settled[<<o, k>>] > 0
       /\ \A l \in Link : <<o, l>> \in paid => l <= remote[o]
  /\ \A t \in Task : at[t] \notin Outside => row[OrderOf[t]] # "none"

\* What a step of a task changes: rows appear but never go, no row becomes PAID,
\* links appear, and only once the row is there.
LEMMA StepRows ==
  ASSUME PaymentTypeOK, RowFirst, NEW t \in Task, Step(t)
  PROVE  /\ UNCHANGED hookVars
         /\ \A o \in Order :
              /\ row[o] # "none" => row'[o] # "none"
              /\ row'[o] = "PAID" => row[o] = "PAID"
              /\ remote'[o] >= remote[o]
              /\ remote'[o] > 0 => row'[o] # "none"
         /\ \A u \in Task : at'[u] \notin Outside => row'[OrderOf[u]] # "none"
<1> DEFINE o == OrderOf[t]
<1>o. o \in Order /\ \A u \in Task : OrderOf[u] \in Order BY PaymentAssumption
<1>r. \A p \in Order : remote[p] \in Nat BY PaymentAssumption DEF PaymentTypeOK
<1> USE DEF Goto, Hold, PaymentTypeOK, RowFirst, Outside
<1>1. CASE InsertRow(t)
  BY <1>1, <1>o, <1>r DEF InsertRow, hookVars
<1>f. ASSUME Fail(t)
      PROVE  \A u \in Task : at'[u] \notin Outside => at'[u] = at[u]
  BY <1>f DEF Fail
<1>2. CASE Evaluate(t)
  BY <1>2, <1>f, <1>o, <1>r DEF Evaluate, hookVars
<1>3. CASE Query(t)
  BY <1>3, <1>o, <1>r DEF Query, hookVars
<1>4. CASE Reconcile(t)
  BY <1>4, <1>o, <1>r DEF Reconcile, PublishLink, hookVars
<1>5. CASE Create(t)
  BY <1>5, <1>o, <1>r DEF Create, hookVars
<1>6. CASE Save(t)
  BY <1>6, <1>o, <1>r DEF Save, PublishLink, hookVars
<1>7. CASE SaveFailed(t)
  BY <1>7, <1>f, <1>o, <1>r DEF SaveFailed, MarkFailed, hookVars
<1>8. CASE DbError(t)
  <2>1. \A p \in Order : /\ row[p] # "none" => row'[p] # "none"
                         /\ row'[p] = "PAID" => row[p] = "PAID"
    BY <1>8, <1>o DEF DbError, MarkFailed, PublishLink
  <2> QED BY <1>8, <1>f, <1>o, <1>r, <2>1 DEF DbError, hookVars
<1>9. CASE Retry(t) \/ Ack(t) \/ NotStarted(t)
  <2>1. UNCHANGED <<row, remote, hookVars>>
    BY <1>9 DEF Retry, Ack, NotStarted
  <2>2. \A u \in Task : at'[u] \notin Outside => at'[u] = at[u] \/ at[u] = "done"
    BY <1>9 DEF Retry, Publish, Ack, NotStarted
  <2> QED BY <1>r, <1>o, <2>1, <2>2
<1> QED BY <1>1, <1>2, <1>3, <1>4, <1>5, <1>6, <1>7, <1>8, <1>9 DEF Step

\* Every step keeps the rows first.
LEMMA RowFirstNext ==
  ASSUME PaymentTypeOK, RowFirst, [Next]_vars
  PROVE  RowFirst'
<1>o. \A u \in Task : OrderOf[u] \in Order BY PaymentAssumption
<1>r. \A p \in Order : remote[p] \in Nat /\ remote'[p] \in Nat
  BY PaymentAssumption, NextTyped DEF PaymentTypeOK
<1>1. ASSUME NEW t \in Task, Step(t) PROVE RowFirst'
  BY <1>1, <1>r, StepRows DEF RowFirst, hookVars, Link
<1>2. ASSUME NEW t \in Task, Crash(t) PROVE RowFirst'
  BY <1>2 DEF Crash, Goto, hookVars, PaymentTypeOK, RowFirst, Outside
<1>3. ASSUME NEW o \in Order, NEW l \in Link, Pay(o, l) PROVE RowFirst'
  BY <1>3 DEF Pay, taskVars, RowFirst
<1>4. ASSUME NEW o \in Order, NEW l \in Link, Deliver(o, l) PROVE RowFirst'
  <2>1. /\ \A p \in Order : row'[p] = IF p = o THEN "PAID" ELSE row[p]
        /\ \A e \in Payment : settled'[e] = IF e = <<o, l>> THEN settled[e] + 1 ELSE settled[e]
        /\ \A e \in Payment : settled[e] \in Nat
        /\ UNCHANGED <<remote, paid, at>>
    BY <1>4 DEF Deliver, taskVars, PaymentTypeOK
  <2>2. \A p \in Order, k \in Link : settled'[<<p, k>>] >= settled[<<p, k>>] /\ <<p, k>> \in Payment
    BY <2>1 DEF Payment
  <2>3. settled'[<<o, l>>] > 0
    BY <2>1 DEF Payment
  <2>4. \A p \in Order : row'[p] = "PAID" => \E k \in Link : settled'[<<p, k>>] > 0
    <3> SUFFICES ASSUME NEW p \in Order, p # o, row[p] = "PAID"
                 PROVE  \E k \in Link : settled'[<<p, k>>] > 0
      BY <2>1, <2>3
    <3>1. PICK k \in Link : settled[<<p, k>>] > 0
      BY DEF RowFirst
    <3>2. settled'[<<p, k>>] = settled[<<p, k>>]
      BY <2>1 DEF Payment
    <3> QED BY <3>1, <3>2
  <2> QED BY <1>o, <2>1, <2>4 DEF RowFirst
<1>5. CASE UNCHANGED vars
  BY <1>5 DEF vars, RowFirst
<1> QED BY <1>1, <1>2, <1>3, <1>4, <1>5 DEF Next, Ended

\* Rows come first whatever fails.
LEMMA RowsComeFirst == Spec => []RowFirst
<1>1. Init => RowFirst
  BY PaymentAssumption DEF Init, RowFirst, Outside
<1> QED BY <1>1, RowFirstNext, PaymentTypeCorrect, PTL DEF Spec

\* The webhook of a paid link would be taken now, or the order was settled.
WebhookIsTaken ==
  \A o \in Order, l \in Link : <<o, l>> \in paid =>
    \/ \E k \in Link : settled[<<o, k>>] > 0
    \/ NotRecorded(o, l) /\ Settleable(o)

\* The safety half of PaymentSettles, under every fault: until the order of a
\* paid link is settled, its webhook is neither a duplicate, nor of an unknown
\* reference (404), nor a conflict (409), however early it comes.
THEOREM PaidIsNeverRefused == Spec => []WebhookIsTaken
<1>1. PaymentTypeOK /\ RowFirst /\ CountedWhenRecorded => WebhookIsTaken
  <2> SUFFICES ASSUME PaymentTypeOK, RowFirst, CountedWhenRecorded,
                      NEW o \in Order, NEW l \in Link, <<o, l>> \in paid
               PROVE  \/ \E k \in Link : settled[<<o, k>>] > 0
                      \/ NotRecorded(o, l) /\ Settleable(o)
    BY DEF WebhookIsTaken
  <2>1. l <= remote[o] /\ remote[o] \in Nat /\ l \in Nat /\ l > 0
    BY PaymentAssumption DEF RowFirst, PaymentTypeOK, Link
  <2>2. row[o] # "none"
    BY <2>1 DEF RowFirst
  <2>3. CASE row[o] = "PAID"
    BY <2>3 DEF RowFirst
  <2>4. CASE <<o, l>> \in recorded
    BY <2>4 DEF CountedWhenRecorded, Payment
  <2> QED BY <2>2, <2>3, <2>4
<1>2. Init => CountedWhenRecorded
  BY DEF Init, CountedWhenRecorded
<1> QED BY <1>1, <1>2, CountNext, RowsComeFirst, PaymentTypeCorrect, PTL DEF Spec

-----------------------------------------------------------------------------
(* CREATING is not a dead end.                                              *)

\* Whose row it is: the attempt that inserted it, before its last statement.
Owns(t, o) ==
  /\ OrderOf[t] = o
  /\ isNew[t]
  /\ at[t] \in {"evaluate", "create", "save", "saveFailed"}

CreatingIsOwned ==
  \A o \in Order : row[o] = "CREATING" => crashes > 0 \/ \E t \in Task : Owns(t, o)

\* A task takes no row of another, and leaves CREATING when it is done with its.
LEMMA OwnedStep ==
  ASSUME PaymentTypeOK, "db_error" \notin Env, CreatingIsOwned, NEW t \in Task, Step(t)
  PROVE  CreatingIsOwned'
<1> SUFFICES ASSUME NEW o \in Order, row'[o] = "CREATING"
             PROVE  crashes' > 0 \/ \E u \in Task : Owns(u, o)'
  BY DEF CreatingIsOwned
<1>o. OrderOf[t] \in Order /\ crashes' = crashes
  BY PaymentAssumption DEF Step, InsertRow, Evaluate, Query, Reconcile, Create, Save,
                           SaveFailed,
     DbError, Retry, Ack, NotStarted
<1>u. \A u \in Task \ {t} : at[u] # "none" => at'[u] = at[u] /\ isNew'[u] = isNew[u]
  BY DEF Step, InsertRow, Evaluate, Query, Reconcile, Create, Save, SaveFailed, DbError, Fail,
     Retry, Publish, Ack, NotStarted, Goto, PaymentTypeOK
<1>1. CASE row[o] # "CREATING"
  <2>1. InsertRow(t) /\ OrderOf[t] = o /\ row[o] = "none"
    BY <1>1, <1>o DEF Step, InsertRow, Evaluate, Query, Reconcile, Create, Save, SaveFailed,
       DbError, Retry, Ack, NotStarted, PublishLink, MarkFailed, PaymentTypeOK
  <2>2. Owns(t, o)'
    BY <2>1 DEF InsertRow, Owns, Goto, PaymentTypeOK
  <2> QED BY <2>2
<1>2. CASE row[o] = "CREATING" /\ crashes > 0
  BY <1>2, <1>o
<1>3. ASSUME row[o] = "CREATING", NEW u \in Task, Owns(u, o) PROVE Owns(u, o)'
  <2>1. CASE u # t
    BY <1>3, <1>u, <2>1 DEF Owns
  <2>2. CASE u = t
    <3>1. CASE Evaluate(t)
      BY <1>3, <2>2, <3>1 DEF Owns, Evaluate, Goto, PaymentTypeOK
    <3>2. CASE Create(t)
      BY <1>3, <2>2, <3>2 DEF Owns, Create, Goto, PaymentTypeOK
    <3>3. CASE Save(t) \/ SaveFailed(t)
      BY <1>3, <2>2, <3>3 DEF Owns, Save, SaveFailed, PublishLink, MarkFailed, PaymentTypeOK
    <3> QED BY <1>3, <2>2, <3>1, <3>2, <3>3 DEF Owns, Step, InsertRow, Query, Reconcile,
                                                DbError,
               Retry, Ack, NotStarted
  <2> QED BY <2>1, <2>2
<1> QED BY <1>1, <1>2, <1>3 DEF CreatingIsOwned

\* The safety half of OnlyCrashesOrphan: while Postgres answers and no worker
\* has died, a row in CREATING is in the hands of the attempt that made it,
\* however many tasks back off from it and whatever Razorpay answers.
THEOREM CreatingHasOwner == "db_error" \notin Env => (Spec => []CreatingIsOwned)
<1> SUFFICES ASSUME "db_error" \notin Env PROVE Spec => []CreatingIsOwned
  OBVIOUS
<1>1. Init => CreatingIsOwned
  BY DEF Init, CreatingIsOwned
<1>2. PaymentTypeOK /\ CreatingIsOwned /\ [Next]_vars => CreatingIsOwned'
  <2> SUFFICES ASSUME PaymentTypeOK, CreatingIsOwned, [Next]_vars PROVE CreatingIsOwned'
    OBVIOUS
  <2>1. ASSUME NEW t \in Task, Step(t) PROVE CreatingIsOwned'
    BY <2>1, OwnedStep
  <2>2. ASSUME NEW t \in Task, Crash(t) PROVE CreatingIsOwned'
    BY <2>2, PaymentAssumption DEF Crash, CreatingIsOwned, PaymentTypeOK
  <2>3. ASSUME NEW o \in Order, NEW l \in Link, Pay(o, l) \/ Deliver(o, l) PROVE CreatingIsOwned'
    BY <2>3 DEF Pay, Deliver, taskVars, CreatingIsOwned, Owns, PaymentTypeOK
  <2>4. CASE UNCHANGED vars
    BY <2>4 DEF vars, CreatingIsOwned, Owns
  <2> QED BY <2>1, <2>2, <2>3, <2>4 DEF Next, Ended
<1> QED BY <1>1, <1>2, PaymentTypeCorrect, PTL DEF Spec

-----------------------------------------------------------------------------
(* The CREATING row as a lock.  The attempt that inserted it is the only    *)
(* one to create a link, unless a creation fails and opens the row to every *)
(* task of the order.                                                       *)

\* Messages of an order that may still run, or did so well.
Live == Place \ {"none", "retried"}

\* A creation fails only for an order with one message, which no worker dies for
\* between the publishing of its retry and the acknowledgement, and where the
\* retry's look at Razorpay, and saving what it finds, do not fail in turn.
RetriesAreSafe ==
  \A o \in Flaky :
    /\ \A t, u \in First : OrderOf[t] = o /\ OrderOf[u] = o => t = u
    /\ o \notin Torn
    /\ Env \cap {"query_error", "db_error"} = {}

Linked(o) == row[o] \in {"PENDING_PREPAY", "PAID"}

\* Who may create: the attempt that found the row new, or the one that retries.
Retries(t) == OrderOf[t] \in Flaky /\ at[t] \in Live
Claims(t) == isNew[t] \/ Retries(t)

\* The inductive invariant.  What it says of a row ...
RowsInOrder ==
  \A o \in Order :
    /\ remote[o] <= 1
    /\ row[o] = "PENDING_PREPAY" => rowLink[o] # NoLink
    /\ row[o] = "LINK_CREATION_FAILED" => o \in Flaky

\* ... of a task ...
TaskInOrder(t) ==
  LET o == OrderOf[t] IN
  /\ at[t] \in {"query", "reconcile", "saveFailed"} => o \in Flaky
  /\ at[t] \in Outside => ~isNew[t]
  /\ at[t] \in {"create", "save"} => Claims(t)
  /\ isNew[t] => row[o] # "none"
  /\ at[t] = "evaluate" /\ isNew[t] => row[o] = "CREATING" /\ remote[o] = 0
  /\ at[t] = "create" => remote[o] = 0
  /\ at[t] \in {"done", "over"} => Linked(o) /\ rowLink[o] # NoLink

TasksInOrder == \A t \in Task : TaskInOrder(t)

\* ... and of two: only one attempt ever finds the row new, and a retry takes
\* the place of the message it is a retry of.
OneCreator ==
  \A t, u \in Task : isNew[t] /\ isNew[u] /\ OrderOf[t] = OrderOf[u] => t = u

OneLive ==
  \A t, u \in Task : Retries(t) /\ Retries(u) /\ OrderOf[t] = OrderOf[u] => t = u

SoleCreator == RowsInOrder /\ TasksInOrder /\ OneCreator /\ OneLive

\* What the invariant rests on.
Grounded == PaymentTypeOK /\ RowFirst /\ LinkIsReal

\* An attempt that found the row new is under way or ended well.
LEMMA NewIsLive ==
  ASSUME PaymentTypeOK, TasksInOrder, NEW t \in Task, isNew[t]
  PROVE  at[t] \in Live
  BY DEF PaymentTypeOK, TasksInOrder, TaskInOrder, Live, Outside

\* Two tasks of an order do not both claim its creation.
LEMMA NoRival ==
  ASSUME PaymentTypeOK, SoleCreator, NEW t \in Task, NEW u \in Task,
         Claims(t), Claims(u), OrderOf[t] = OrderOf[u]
  PROVE  t = u
<1>1. CASE isNew[t] /\ isNew[u]
  BY <1>1 DEF SoleCreator, OneCreator
<1>2. CASE Retries(t) \/ Retries(u)
  <2>1. OrderOf[t] \in Flaky
    BY <1>2 DEF Retries
  <2>2. at[t] \in Live /\ at[u] \in Live
    BY NewIsLive DEF SoleCreator, Claims, Retries
  <2> QED BY <2>1, <2>2 DEF SoleCreator, OneLive, Retries
<1> QED BY <1>1, <1>2 DEF Claims

\* A step that brings no message to life leaves one alive.
LEMMA LiveKept ==
  ASSUME SoleCreator, \A u \in Task : at'[u] \in Live => at[u] \in Live
  PROVE  OneLive'
  BY DEF SoleCreator, OneLive, Retries

\* A failed attempt gives up its claim, and may mark the row if it may retry.
LEMMA FailSole ==
  ASSUME PaymentTypeOK, SoleCreator, NEW t \in Task, Fail(t), at[t] \in Live,
         UNCHANGED row \/ (OrderOf[t] \in Flaky /\ MarkFailed(t)),
         UNCHANGED <<rowLink, remote>>
  PROVE  SoleCreator'
<1> DEFINE o == OrderOf[t]
<1>o. o \in Order /\ \A u \in Task : OrderOf[u] \in Order BY PaymentAssumption
<1>1. \A u \in Task :
        /\ at'[u] = IF u = t THEN "caught" ELSE at[u]
        /\ isNew'[u] = IF u = t THEN FALSE ELSE isNew[u]
  BY DEF PaymentTypeOK, Fail, Goto
<1>2. \A p \in Order :
        \/ row'[p] = row[p]
        \/ p = o /\ o \in Flaky /\ row'[p] = "LINK_CREATION_FAILED"
  BY DEF MarkFailed, PaymentTypeOK
<1>3. \A u \in Task : u # t => row'[OrderOf[u]] = row[OrderOf[u]] \/ at[u] \in {"none", "retried"}
  BY <1>2, <1>o DEF SoleCreator, OneLive, Retries, Live, PaymentTypeOK
<1>4. RowsInOrder'
  BY <1>2 DEF SoleCreator, RowsInOrder
<1>5. TasksInOrder'
  <2> SUFFICES ASSUME NEW u \in Task PROVE TaskInOrder(u)'
    BY DEF TasksInOrder
  <2>1. TaskInOrder(u)
    BY DEF SoleCreator, TasksInOrder
  <2>2. CASE u = t
    BY <1>1, <2>2 DEF TaskInOrder
  <2>3. CASE u # t /\ at[u] \in {"none", "retried"}
    BY <1>1, <2>1, <2>3 DEF TaskInOrder, Outside
  <2>4. CASE u # t /\ row'[OrderOf[u]] = row[OrderOf[u]]
    BY <1>1, <2>1, <2>4 DEF TaskInOrder, Claims, Retries, Linked
  <2> QED BY <1>3, <2>2, <2>3, <2>4
<1>6. OneCreator'
  BY <1>1 DEF SoleCreator, OneCreator
<1>7. OneLive'
  BY <1>1, LiveKept
<1> QED BY <1>4, <1>5, <1>6, <1>7 DEF SoleCreator

\* Publishing a link keeps the other rows and tasks in order, whether the task
\* then knows of its success or not.
LEMMA PublishSole ==
  ASSUME Grounded, SoleCreator, NEW t \in Task,
         at[t] \in {"save", "reconcile"}, PublishLink(t), UNCHANGED remote,
         Fail(t) \/ (Goto(t, "done") /\ UNCHANGED isNew)
  PROVE  SoleCreator'
<1> DEFINE o == OrderOf[t]
<1>o. o \in Order /\ \A u \in Task : OrderOf[u] \in Order BY PaymentAssumption
<1>1. found[t] # NoLink /\ at[t] \in Live /\ Claims(t)
  BY DEF Grounded, LinkIsReal, SoleCreator, TasksInOrder, TaskInOrder, Claims, Retries, Live,
     Place
<1>2. \A p \in Order :
        /\ row'[p] = IF p = o THEN "PENDING_PREPAY" ELSE row[p]
        /\ rowLink'[p] = IF p = o THEN found[t] ELSE rowLink[p]
  BY DEF PublishLink, Grounded, PaymentTypeOK
<1>3. \A u \in Task :
        /\ at'[u] = IF u = t THEN at'[t] ELSE at[u]
        /\ at'[t] = "done" \/ (at'[t] = "caught" /\ ~isNew'[t])
        /\ isNew'[u] => isNew[u]
        /\ u # t => isNew'[u] = isNew[u]
  BY DEF Grounded, PaymentTypeOK, Fail, Goto
<1>4. RowsInOrder'
  BY <1>1, <1>2 DEF SoleCreator, RowsInOrder
<1>5. ASSUME NEW u \in Task PROVE TaskInOrder(u)'
  <2>1. CASE u = t
    BY <2>1, <1>o, <1>1, <1>2, <1>3 DEF SoleCreator, TasksInOrder, TaskInOrder, Linked, Outside
  <2>2. CASE u # t
    <3>1. isNew[u] => OrderOf[u] # o
      BY <2>2, <1>1, NoRival DEF Claims, Grounded
    <3> QED BY <2>2, <3>1, <1>o, <1>1, <1>2, <1>3
            DEF SoleCreator, TasksInOrder, TaskInOrder, Claims, Retries, Linked
  <2> QED BY <2>1, <2>2
<1>6. OneCreator'
  BY <1>3 DEF SoleCreator, OneCreator
<1>7. OneLive'
  BY <1>1, <1>3, LiveKept
<1> QED BY <1>4, <1>5, <1>6, <1>7 DEF SoleCreator, TasksInOrder

\* The insert: the first attempt to find no row claims it.
LEMMA InsertSole ==
  ASSUME Grounded, SoleCreator, NEW t \in Task, InsertRow(t)
  PROVE  SoleCreator'
<1> DEFINE o == OrderOf[t]
<1>o. o \in Order /\ \A u \in Task : OrderOf[u] \in Order BY PaymentAssumption
<1>1. /\ \A p \in Order : row'[p] = IF p = o /\ row[o] = "none" THEN "CREATING" ELSE row[p]
      /\ \A u \in Task : isNew'[u] = IF u = t THEN row[o] = "none" ELSE isNew[u]
      /\ \A u \in Task : at'[u] = IF u = t THEN "evaluate" ELSE at[u]
      /\ UNCHANGED <<rowLink, remote>>
      /\ at[t] = "start"
  BY <1>o DEF InsertRow, Goto, Grounded, PaymentTypeOK
<1>2. row[o] = "none" => remote[o] = 0
  BY <1>o, PaymentAssumption DEF Grounded, RowFirst, PaymentTypeOK
<1>3. RowsInOrder'
  BY <1>1 DEF SoleCreator, RowsInOrder
<1>4. TasksInOrder'
  <2> SUFFICES ASSUME NEW u \in Task PROVE TaskInOrder(u)'
    BY DEF TasksInOrder
  <2>1. TaskInOrder(u)
    BY DEF SoleCreator, TasksInOrder
  <2>2. at[u] \in {"done", "over"} \/ isNew[u] => row[OrderOf[u]] # "none"
    BY <2>1 DEF TaskInOrder, Linked
  <2> QED BY <1>1, <1>2, <1>o, <2>1, <2>2 DEF TaskInOrder, Claims, Retries, Linked, Outside
<1>5. OneCreator'
  <2>1. \A u \in Task : u # t /\ isNew'[u] => isNew[u] /\ row[OrderOf[u]] # "none"
    BY <1>1 DEF SoleCreator, TasksInOrder, TaskInOrder
  <2>2. isNew'[t] => row[o] = "none"
    BY <1>1
  <2> QED BY <2>1, <2>2 DEF SoleCreator, OneCreator
<1>6. OneLive'
  BY <1>1, LiveKept DEF Live, Place
<1> QED BY <1>3, <1>4, <1>5, <1>6 DEF SoleCreator

\* The branch taken, when the attempt does not fail: a row marked as failed is
\* the retrying task's own.
LEMMA EvaluateSole ==
  ASSUME PaymentTypeOK, SoleCreator, NEW t \in Task, Evaluate(t)
  PROVE  SoleCreator'
<1> DEFINE o == OrderOf[t]
<1>o. o \in Order BY PaymentAssumption
<1>1. CASE Fail(t)
  BY <1>1, FailSole DEF Evaluate, Live, Place
<1>2. CASE ~Fail(t)
  <2>1. /\ UNCHANGED <<row, rowLink, remote, isNew>>
        /\ at[t] = "evaluate"
        /\ \A u \in Task : at'[u] = IF u = t THEN at'[t] ELSE at[u]
        /\ \/ Linked(o) /\ rowLink[o] # NoLink /\ at'[t] = "done"
           \/ isNew[t] /\ at'[t] = "create"
           \/ row[o] = "LINK_CREATION_FAILED" /\ at'[t] = "query"
    BY <1>2 DEF Evaluate, Goto, PaymentTypeOK, Linked
  <2>2. row[o] = "LINK_CREATION_FAILED" => o \in Flaky
    BY <1>o DEF SoleCreator, RowsInOrder
  <2>3. RowsInOrder' /\ OneCreator' /\ OneLive'
    BY <2>1, LiveKept DEF SoleCreator, RowsInOrder, OneCreator, Live, Place
  <2>4. TasksInOrder'
    BY <2>1, <2>2 DEF SoleCreator, TasksInOrder, TaskInOrder, Claims, Retries, Linked, Outside
  <2> QED BY <2>3, <2>4 DEF SoleCreator
<1> QED BY <1>1, <1>2

\* The look at Razorpay: a retry that finds nothing knows there is nothing.
LEMMA QuerySole ==
  ASSUME PaymentTypeOK, RetriesAreSafe, SoleCreator, NEW t \in Task, Query(t)
  PROVE  SoleCreator'
<1> DEFINE o == OrderOf[t]
<1>o. o \in Order BY PaymentAssumption
<1>1. o \in Flaky /\ at[t] = "query" /\ "query_error" \notin Env
  BY DEF Query, SoleCreator, TasksInOrder, TaskInOrder, RetriesAreSafe
<1>2. 1..remote[o] = {} => remote[o] = 0
  <2>1. remote[o] \in Nat BY <1>o, PaymentAssumption DEF PaymentTypeOK
  <2>2. remote[o] > 0 => 1 \in 1..remote[o] BY <2>1
  <2> QED BY <2>1, <2>2
<1>3. /\ UNCHANGED <<row, rowLink, remote, isNew>>
      /\ \A u \in Task : at'[u] = IF u = t THEN at'[t] ELSE at[u]
      /\ at'[t] = "reconcile" \/ (at'[t] = "create" /\ remote[o] = 0)
  BY <1>1, <1>2 DEF Query, Goto, PaymentTypeOK
<1>4. RowsInOrder' /\ OneCreator' /\ OneLive'
  BY <1>1, <1>3, LiveKept DEF SoleCreator, RowsInOrder, OneCreator, Live, Place
<1>5. TasksInOrder'
  BY <1>1, <1>3 DEF SoleCreator, TasksInOrder, TaskInOrder, Claims, Retries, Live, Place,
                    Linked,
     Outside
<1> QED BY <1>4, <1>5 DEF SoleCreator

\* The call to Razorpay: the first link of the order, reported or not.
LEMMA CreateSole ==
  ASSUME PaymentTypeOK, SoleCreator, NEW t \in Task, Create(t)
  PROVE  SoleCreator'
<1> DEFINE o == OrderOf[t]
<1>o. o \in Order /\ \A u \in Task : OrderOf[u] \in Order BY PaymentAssumption
<1>1. Claims(t) /\ remote[o] = 0
  BY DEF Create, SoleCreator, TasksInOrder, TaskInOrder
<1>2. /\ \A p \in Order : p # o => remote'[p] = remote[p]
      /\ remote'[o] \in {0, 1}
      /\ \A u \in Task : at'[u] = IF u = t THEN at'[t] ELSE at[u]
      /\ at'[t] = "save" \/ (at'[t] = "saveFailed" /\ o \in Flaky)
      /\ at[t] = "create"
      /\ UNCHANGED <<row, rowLink, isNew>>
  BY <1>1, <1>o DEF Create, Goto, PaymentTypeOK
<1>3. RowsInOrder'
  BY <1>2 DEF SoleCreator, RowsInOrder
<1>4. ASSUME NEW u \in Task PROVE TaskInOrder(u)'
  <2>1. TaskInOrder(u) BY DEF SoleCreator, TasksInOrder
  <2>2. CASE u = t
    BY <2>1, <2>2, <1>1, <1>2 DEF TaskInOrder, Claims, Retries, Live, Place, Linked, Outside
  <2>3. CASE u # t
    <3>1. Claims(u) => OrderOf[u] # o
      BY <2>3, <1>1, NoRival
    <3> QED BY <2>1, <2>3, <3>1, <1>2, <1>o DEF TaskInOrder, Claims, Retries, Linked
  <2> QED BY <2>2, <2>3
<1>5. OneCreator' /\ OneLive'
  BY <1>2, LiveKept DEF SoleCreator, OneCreator, Live, Place
<1> QED BY <1>3, <1>4, <1>5 DEF SoleCreator, TasksInOrder

\* What happens to a message outside of an attempt: a retry lives in place of
\* the message it is published by, and an acknowledged one is dead.
LEMMA QueueSole ==
  ASSUME PaymentTypeOK, SoleCreator, NEW t \in Task, Retry(t) \/ Ack(t) \/ NotStarted(t)
  PROVE  SoleCreator'
<1>1. UNCHANGED <<row, rowLink, remote, isNew>>
  BY DEF Retry, Ack, NotStarted
<1>2. RowsInOrder' /\ OneCreator'
  BY <1>1 DEF SoleCreator, RowsInOrder, OneCreator
<1>3. CASE Retry(t) /\ Publish(t)
  <2>1. PICK v \in Task : /\ at[v] = "none" /\ OrderOf[v] = OrderOf[t]
                          /\ at' = [at EXCEPT ![t] = "retried", ![v] = "start"]
    BY <1>3 DEF Publish
  <2>2. at[t] = "caught" /\ \A u \in Task :
          at'[u] = IF u = v THEN "start" ELSE IF u = t THEN "retried" ELSE at[u]
    BY <1>3, <2>1 DEF Retry, PaymentTypeOK
  <2>3. TasksInOrder'
    <3> SUFFICES ASSUME NEW u \in Task PROVE TaskInOrder(u)'
      BY DEF TasksInOrder
    <3>1. TaskInOrder(u)
      BY DEF SoleCreator, TasksInOrder
    <3>2. CASE u = v \/ u = t
      <4>1. at[u] \in {"none", "caught"} /\ at'[u] \in {"start", "retried"} /\ isNew'[u] = isNew[u]
        BY <1>1, <2>1, <2>2, <3>2
      <4> QED BY <3>1, <4>1 DEF TaskInOrder, Outside
    <3>3. CASE u # v /\ u # t
      BY <1>1, <2>2, <3>1, <3>3 DEF TaskInOrder, Claims, Retries, Linked
    <3> QED BY <3>2, <3>3
  <2>4. \A u \in Task : Retries(u)' => IF u = v THEN Retries(t) ELSE Retries(u) /\ u # t
    BY <2>1, <2>2 DEF Retries, Live, Place
  <2>5. OneLive'
    BY <2>1, <2>4 DEF SoleCreator, OneLive
  <2> QED BY <1>2, <2>3, <2>5 DEF SoleCreator
<1>4. CASE ~Publish(t)
  <2>1. /\ \A u \in Task : u # t => at'[u] = at[u]
        /\ \/ at[t] = "done" /\ at'[t] = "over"
           \/ at[t] \in {"retried", "dead"} /\ at'[t] = "none"
           \/ at[t] \in {"start", "caught"} /\ at'[t] = "dead"
    BY <1>4 DEF Retry, Ack, NotStarted, Goto, PaymentTypeOK
  <2>2. TasksInOrder'
    <3> SUFFICES ASSUME NEW u \in Task PROVE TaskInOrder(u)'
      BY DEF TasksInOrder
    <3>1. TaskInOrder(u)
      BY DEF SoleCreator, TasksInOrder
    <3>2. CASE u = t
      BY <1>1, <2>1, <3>1, <3>2 DEF TaskInOrder, Linked, Outside
    <3>3. CASE u # t
      BY <1>1, <2>1, <3>1, <3>3 DEF TaskInOrder, Claims, Retries, Linked
    <3> QED BY <3>2, <3>3
  <2>3. OneLive'
    BY <2>1, LiveKept DEF Live, Place
  <2> QED BY <1>2, <2>2, <2>3 DEF SoleCreator
<1>5. CASE ~Retry(t) /\ Publish(t)
  BY <1>5 DEF Ack, NotStarted, Goto, Publish, PaymentTypeOK
<1> QED BY <1>3, <1>4, <1>5

\* A step of a task keeps the invariant.
LEMMA StepSole ==
  ASSUME Grounded, RetriesAreSafe, SoleCreator, NEW t \in Task, Step(t)
  PROVE  SoleCreator'
<1>t. PaymentTypeOK BY DEF Grounded
<1>f. at[t] \in {"query", "reconcile", "saveFailed"} => OrderOf[t] \in Flaky /\ "db_error" \notin Env
  BY DEF SoleCreator, TasksInOrder, TaskInOrder, RetriesAreSafe
<1>1. CASE InsertRow(t) BY <1>1, InsertSole
<1>2. CASE Evaluate(t) BY <1>2, <1>t, EvaluateSole
<1>3. CASE Query(t) BY <1>3, <1>t, QuerySole
<1>4. CASE Reconcile(t) BY <1>4, <1>f, PublishSole DEF Reconcile
<1>5. CASE Create(t) BY <1>5, <1>t, CreateSole
<1>6. CASE Save(t) BY <1>6, PublishSole DEF Save
<1>7. CASE SaveFailed(t)
  BY <1>7, <1>f, <1>t, FailSole DEF SaveFailed, MarkFailed, Live, Place
<1>8. CASE DbError(t)
  <2>1. CASE UNCHANGED <<row, rowLink>>
    BY <1>8, <2>1, <1>t, FailSole DEF DbError, Live, Place
  <2>2. CASE at[t] = "save" /\ PublishLink(t)
    BY <1>8, <2>2, PublishSole DEF DbError
  <2> QED BY <1>8, <1>f, <2>1, <2>2 DEF DbError
<1>9. CASE Retry(t) \/ Ack(t) \/ NotStarted(t) BY <1>9, <1>t, QueueSole
<1> QED BY <1>1, <1>2, <1>3, <1>4, <1>5, <1>6, <1>7, <1>8, <1>9 DEF Step

\* Every step keeps the invariant.
LEMMA NextSole ==
  ASSUME Grounded, RetriesAreSafe, SoleCreator, [Next]_vars
  PROVE  SoleCreator'
<1>1. ASSUME NEW t \in Task, Step(t) PROVE SoleCreator'
  BY <1>1, StepSole
<1>2. ASSUME NEW t \in Task, Crash(t) PROVE SoleCreator'
  <2>1. /\ UNCHANGED <<row, rowLink, remote>>
        /\ \A u \in Task :
             /\ at'[u] = IF u = t THEN "start" ELSE at[u]
             /\ isNew'[u] = IF u = t THEN FALSE ELSE isNew[u]
    BY <1>2 DEF Crash, Goto, Grounded, PaymentTypeOK
  <2>2. RowsInOrder' /\ OneCreator'
    BY <2>1 DEF SoleCreator, RowsInOrder, OneCreator
  <2>4. OneLive'
    <3>1. OrderOf[t] \in Flaky => at[t] \in Live
      BY <1>2 DEF Crash, Unacknowledged, RetriesAreSafe, Live
    <3> QED BY <2>1, <3>1 DEF SoleCreator, OneLive, Retries
  <2>3. TasksInOrder'
    BY <2>1 DEF SoleCreator, TasksInOrder, TaskInOrder, Claims, Retries, Linked
  <2> QED BY <2>2, <2>3, <2>4 DEF SoleCreator
<1>3. ASSUME NEW o \in Order, NEW l \in Link, Deliver(o, l) PROVE SoleCreator'
  <2>1. \A u \in Task : OrderOf[u] = o => remote[OrderOf[u]] # 0
    BY <1>3, PaymentAssumption DEF Deliver, Grounded, RowFirst, PaymentTypeOK, Link
  <2>2. /\ \A p \in Order : row'[p] = IF p = o THEN "PAID" ELSE row[p]
        /\ UNCHANGED <<rowLink, remote, at, isNew>>
    BY <1>3 DEF Deliver, taskVars, Grounded, PaymentTypeOK
  <2>3. RowsInOrder' /\ OneCreator' /\ OneLive'
    BY <2>2 DEF SoleCreator, RowsInOrder, OneCreator, OneLive, Retries
  <2>4. TasksInOrder'
    BY <2>1, <2>2, PaymentAssumption
       DEF SoleCreator, TasksInOrder, TaskInOrder, Claims, Retries, Linked
  <2> QED BY <2>3, <2>4 DEF SoleCreator
<1>4. CASE UNCHANGED vars \/ \E o \in Order, l \in Link : Pay(o, l)
  <2>1. UNCHANGED <<row, rowLink, remote, at, isNew>>
    BY <1>4 DEF vars, Pay, taskVars
  <2> QED BY <2>1 DEF SoleCreator, RowsInOrder, TasksInOrder, TaskInOrder, OneCreator, OneLive,
            Claims, Retries, Linked
<1> QED BY <1>1, <1>2, <1>3, <1>4 DEF Next, Ended

\* What the invariant rests on holds whatever fails.
LEMMA GroundedHolds == Spec => []Grounded
<1>1. PaymentTypeOK /\ RowFirst /\ LinkIsReal => Grounded
  BY DEF Grounded
<1> QED BY <1>1, PaymentTypeCorrect, RowsComeFirst, LinksAreReal, PTL

\* The invariant holds as long as retries are safe.
LEMMA SoleCreatorHolds == RetriesAreSafe => (Spec => []SoleCreator)
<1> SUFFICES ASSUME RetriesAreSafe PROVE Spec => []SoleCreator
  OBVIOUS
<1>1. Init => SoleCreator
  <2> SUFFICES ASSUME Init PROVE SoleCreator OBVIOUS
  <2>1. RowsInOrder
    <3> SUFFICES ASSUME NEW o \in Order PROVE
          /\ remote[o] <= 1
          /\ row[o] # "PENDING_PREPAY"
          /\ row[o] # "LINK_CREATION_FAILED"
      BY Zenon DEF RowsInOrder
    <3> QED BY DEF Init
  <2>2. \A t \in Task : ~isNew[t] BY Zenon DEF Init
  <2>3. \A t \in Task : at[t] = IF t \in First THEN "start" ELSE "none" BY DEF Init
  <2>4. TasksInOrder BY <2>2, <2>3 DEF TasksInOrder, TaskInOrder
  <2>5. OneLive
    <3>1. \A t \in Task : at[t] \in Live => t \in First BY <2>3 DEF Live
    <3> QED BY <3>1 DEF OneLive, Retries, RetriesAreSafe
  <2> QED BY <2>1, <2>2, <2>4, <2>5 DEF SoleCreator, OneCreator
<1>2. Grounded /\ SoleCreator /\ [Next]_vars => SoleCreator'
  BY NextSole
<1> QED BY <1>1, <1>2, GroundedHolds, PTL DEF Spec

\* However many tasks and crashes, and however early a customer pays: one link
\* per order, as long as retries are safe.
THEOREM OneLinkPerOrder == RetriesAreSafe => (Spec => []OneLink)
<1> SUFFICES ASSUME RetriesAreSafe PROVE Spec => []OneLink
  OBVIOUS
<1>1. SoleCreator => OneLink
  BY DEF SoleCreator, RowsInOrder, OneLink
<1>2. Spec => []SoleCreator
  BY SoleCreatorHolds
<1> QED BY <1>1, <1>2, PTL

\* A task that ended well left a link on the row, and it stays there.
THEOREM EndedWell == RetriesAreSafe => (Spec => []DoneHasLink)
<1> SUFFICES ASSUME RetriesAreSafe PROVE Spec => []DoneHasLink
  OBVIOUS
<1>1. SoleCreator => DoneHasLink
  BY DEF SoleCreator, TasksInOrder, TaskInOrder, Linked, DoneHasLink
<1>2. Spec => []SoleCreator
  BY SoleCreatorHolds
<1> QED BY <1>1, <1>2, PTL

\* No step takes the link off a row.
LEMMA NextKeepsLink ==
  ASSUME Grounded, [Next]_vars, NEW o \in Order, rowLink[o] # NoLink
  PROVE  rowLink'[o] # NoLink
<1>1. ASSUME NEW t \in Task, Step(t) PROVE rowLink'[o] # NoLink
  <2>1. CASE UNCHANGED rowLink
    BY <2>1
  <2>2. CASE at[t] \in {"save", "reconcile"} /\ PublishLink(t)
    BY <2>2 DEF PublishLink, Grounded, PaymentTypeOK, LinkIsReal
  <2> QED BY <1>1, <2>1, <2>2 DEF Step, InsertRow, Evaluate, Query, Reconcile, Create, Save,
             SaveFailed, DbError, Retry, Ack, NotStarted, MarkFailed
<1>2. CASE UNCHANGED rowLink
  BY <1>2
<1> QED BY <1>1, <1>2 DEF Next, Crash, Pay, Deliver, Ended, vars

\* The link on the row is the one the customer was sent, for good: none of the
\* unconditional UPDATEs replaces it, as long as retries are safe.
THEOREM LinkStays ==
  RetriesAreSafe =>
    (Spec => [][\A o \in Order : rowLink[o] # NoLink => rowLink'[o] = rowLink[o]]_vars)
<1> DEFINE Kept == \A o \in Order : rowLink[o] # NoLink => rowLink'[o] = rowLink[o]
<1> SUFFICES ASSUME RetriesAreSafe PROVE Spec => [][Kept]_vars
  OBVIOUS
<1>1. ASSUME Grounded, SoleCreator, [Next]_vars PROVE [Kept]_vars
  <2>1. PaymentTypeOK' /\ SoleCreator' /\ LinkIsReal'
    BY <1>1, NextSole, NextTyped, NextReal DEF Grounded
  <2>2. \A o \in Order :
          /\ rowLink[o] \in 0..MaxLinks /\ rowLink[o] <= remote[o] /\ remote[o] <= 1
          /\ rowLink'[o] \in 0..MaxLinks /\ rowLink'[o] <= remote'[o] /\ remote'[o] <= 1
          /\ remote[o] \in Nat /\ remote'[o] \in Nat
    BY <1>1, <2>1, PaymentAssumption
       DEF Grounded, PaymentTypeOK, LinkIsReal, SoleCreator, RowsInOrder, Link, NoLink
  <2>3. \A o \in Order : rowLink[o] # 0 => rowLink'[o] # 0
    BY <1>1, NextKeepsLink DEF NoLink
  <2> QED BY <2>2, <2>3, PaymentAssumption DEF NoLink
<1>2. Spec => []SoleCreator
  BY SoleCreatorHolds
<1> QED BY <1>1, <1>2, GroundedHolds, PTL DEF Spec

-----------------------------------------------------------------------------
(* PAID as the end.  A customer who can only pay the link on the row pays   *)
(* when the creation is over, and nobody is left to overwrite PAID.         *)

PaidLast ==
  /\ \A o \in Order : ~Linked(o) => rowLink[o] = NoLink /\ \A l \in Link : <<o, l>> \notin paid
  /\ \A t \in Task :
       at[t] \in {"query", "reconcile", "create", "save", "saveFailed"} => ~Linked(OrderOf[t])

\* PaidLast, and what it forbids a step to do.
PaidLastStep == PaidLast' /\ \A o \in Order : row[o] = "PAID" => row'[o] = "PAID"

\* A step of a task, which holds its place in the creation alone.
LEMMA StepPaidLast ==
  ASSUME Grounded, RetriesAreSafe, SoleCreator, PaidLast, NEW t \in Task, Step(t)
  PROVE  PaidLastStep
<1> DEFINE o == OrderOf[t]
           Creating == {"query", "reconcile", "create", "save", "saveFailed"}
<1>o. o \in Order /\ \A u \in Task : OrderOf[u] \in Order BY PaymentAssumption
<1>t. TaskInOrder(t) BY DEF SoleCreator, TasksInOrder
<1>f. at[t] \in {"query", "reconcile", "saveFailed"} => o \in Flaky /\ "db_error" \notin Env
  BY <1>t DEF TaskInOrder, RetriesAreSafe
<1>r. ASSUME at[t] \in Creating, NEW u \in Task, u # t, at[u] \in Creating
      PROVE  OrderOf[u] # o
  <2>1. Claims(t) /\ Claims(u)
    BY <1>r DEF SoleCreator, TasksInOrder, TaskInOrder, Claims, Retries, Live, Place
  <2> QED BY <1>r, <2>1, NoRival DEF Grounded
<1> USE DEF Goto
<1>q. UNCHANGED paid
  BY DEF Step, InsertRow, Evaluate, Query, Reconcile, Create, Save, SaveFailed, DbError,
     Retry, Ack, NotStarted, hookVars
<1>1. CASE InsertRow(t)
  BY <1>1, <1>q, <1>o DEF InsertRow, Grounded, PaymentTypeOK, PaidLast, PaidLastStep, Linked
<1>2. ASSUME UNCHANGED <<row, rowLink>>,
             \A u \in Task : u # t => at'[u] = at[u],
             at'[t] \in Creating => ~Linked(o)
      PROVE  PaidLastStep
  BY <1>2, <1>q DEF PaidLast, PaidLastStep, Linked
<1>3. ASSUME Fail(t) PROVE /\ \A u \in Task : u # t => at'[u] = at[u]
                           /\ at'[t] \notin Creating
  BY <1>3 DEF Fail, Grounded, PaymentTypeOK
<1>4. CASE Evaluate(t)
  <2>1. /\ \A u \in Task : u # t => at'[u] = at[u]
        /\ at'[t] \in Creating => ~Linked(o)
    BY <1>3, <1>4 DEF Evaluate, Linked, Grounded, PaymentTypeOK
  <2> QED BY <1>2, <1>4, <2>1 DEF Evaluate
<1>5. CASE Query(t)
  BY <1>2, <1>5 DEF Query, PaidLast, Grounded, PaymentTypeOK
<1>6. CASE Create(t)
  BY <1>2, <1>6 DEF Create, PaidLast, Grounded, PaymentTypeOK
<1>7. ASSUME PublishLink(t), at[t] \in {"save", "reconcile"},
             \A u \in Task : u # t => at'[u] = at[u], at'[t] \notin Creating
      PROVE  PaidLastStep
  <2>1. /\ ~Linked(o)
        /\ \A p \in Order : p # o => row'[p] = row[p] /\ rowLink'[p] = rowLink[p]
        /\ row'[o] = "PENDING_PREPAY"
    BY <1>7, <1>o DEF PublishLink, Grounded, PaymentTypeOK, PaidLast
  <2>2. \A u \in Task : at'[u] \in Creating => OrderOf[u] # o
    BY <1>7, <1>r
  <2> QED BY <1>7, <1>o, <1>q, <2>1, <2>2 DEF PaidLast, PaidLastStep, Linked
<1>8. CASE Reconcile(t)
  BY <1>7, <1>8, <1>f DEF Reconcile, Grounded, PaymentTypeOK
<1>9. CASE Save(t)
  BY <1>7, <1>9 DEF Save, Grounded, PaymentTypeOK
<1>10. CASE SaveFailed(t)
  <2>1. /\ ~Linked(o)
        /\ \A p \in Order : p # o => row'[p] = row[p]
        /\ row'[o] = "LINK_CREATION_FAILED" /\ rowLink' = rowLink
    BY <1>10, <1>o DEF SaveFailed, MarkFailed, Grounded, PaymentTypeOK, PaidLast
  <2> QED BY <1>3, <1>10, <1>o, <1>q, <2>1 DEF SaveFailed, PaidLast, PaidLastStep, Linked
<1>11. CASE DbError(t)
  BY <1>2, <1>3, <1>7, <1>11, <1>f DEF DbError
<1>12. CASE Retry(t) \/ Ack(t) \/ NotStarted(t)
  <2>1. /\ UNCHANGED <<row, rowLink>>
        /\ \A u \in Task : at'[u] \in Creating => at'[u] = at[u]
    BY <1>12 DEF Retry, Publish, Ack, NotStarted, Grounded, PaymentTypeOK
  <2> QED BY <1>q, <2>1 DEF PaidLast, PaidLastStep, Linked
<1> QED BY <1>1, <1>4, <1>5, <1>6, <1>8, <1>9, <1>10, <1>11, <1>12 DEF Step

\* Every step keeps PaidLast and leaves PAID rows alone.
LEMMA NextPaidLast ==
  ASSUME Grounded, RetriesAreSafe, "early_payment" \notin Env, SoleCreator, PaidLast, [Next]_vars
  PROVE  PaidLastStep
<1>1. ASSUME NEW t \in Task, Step(t) PROVE PaidLastStep
  BY <1>1, StepPaidLast
<1>2. ASSUME NEW t \in Task, Crash(t) PROVE PaidLastStep
  BY <1>2 DEF Crash, Goto, hookVars, Grounded, PaymentTypeOK, PaidLast, PaidLastStep, Linked
<1>3. ASSUME NEW o \in Order, NEW l \in Link, Pay(o, l) PROVE PaidLastStep
  <2>1. rowLink[o] # NoLink
    BY <1>3 DEF Pay, Link, NoLink
  <2> QED BY <1>3, <2>1 DEF Pay, taskVars, PaidLast, PaidLastStep, Linked
<1>4. ASSUME NEW o \in Order, NEW l \in Link, Deliver(o, l) PROVE PaidLastStep
  <2>1. Linked(o)
    BY <1>4 DEF Deliver, PaidLast
  <2>2. /\ \A p \in Order : row'[p] = IF p = o THEN "PAID" ELSE row[p]
        /\ UNCHANGED <<rowLink, paid, at>>
    BY <1>4 DEF Deliver, taskVars, Grounded, PaymentTypeOK
  <2> QED BY <2>1, <2>2, PaymentAssumption DEF PaidLast, PaidLastStep, Linked
<1>5. CASE UNCHANGED vars
  BY <1>5 DEF vars, PaidLast, PaidLastStep, Linked
<1> QED BY <1>1, <1>2, <1>3, <1>4, <1>5 DEF Next, Ended

\* PaidLast holds as long as retries are safe and a customer pays only the link
\* on the row.
LEMMA PaidLastHolds ==
  RetriesAreSafe /\ "early_payment" \notin Env => (Spec => []PaidLast)
<1> SUFFICES ASSUME RetriesAreSafe, "early_payment" \notin Env PROVE Spec => []PaidLast
  OBVIOUS
<1>1. Init => PaidLast
  BY DEF Init, PaidLast
<1>2. Grounded /\ SoleCreator /\ PaidLast /\ [Next]_vars => PaidLast'
  BY NextPaidLast DEF PaidLastStep
<1>3. Spec => []SoleCreator
  BY SoleCreatorHolds
<1> QED BY <1>1, <1>2, <1>3, GroundedHolds, PTL DEF Spec

\* Then no task takes a PAID row back.
THEOREM PaidStaysPaid ==
  RetriesAreSafe /\ "early_payment" \notin Env =>
    (Spec => [][\A o \in Order : row[o] = "PAID" => row'[o] = "PAID"]_vars)
<1> DEFINE Kept == \A o \in Order : row[o] = "PAID" => row'[o] = "PAID"
<1> SUFFICES ASSUME RetriesAreSafe, "early_payment" \notin Env PROVE Spec => [][Kept]_vars
  OBVIOUS
<1>1. Grounded /\ SoleCreator /\ PaidLast /\ [Next]_vars => [Kept]_vars
  BY NextPaidLast DEF PaidLastStep
<1>2. Spec => []SoleCreator /\ []PaidLast
  BY SoleCreatorHolds, PaidLastHolds
<1> QED BY <1>1, <1>2, GroundedHolds, PTL DEF Spec

-----------------------------------------------------------------------------
(* The refinement.                                                          *)

\* A step that leaves the stage and the link of each order alone is a stutter.
Idle == \A o \in Order : StageOf(o)' = StageOf(o) /\ rowLink'[o] = rowLink[o]

LEMMA IdleStutters ==
  ASSUME PaymentTypeOK, PaymentTypeOK', Idle
  PROVE  UNCHANGED <<Stage, rowLink>>
<1>1. rowLink' = rowLink
  BY DEF PaymentTypeOK, Idle
<1>2. Stage' = Stage
  BY DEF Stage, Idle
<1> QED BY <1>1, <1>2

\* A step in which one order moves to another stage.
LEMMA StageMoves ==
  ASSUME NEW o \in Order, NEW s, StageOf(o)' = s,
         \A p \in Order : p # o => StageOf(p)' = StageOf(p)
  PROVE  Stage' = [Stage EXCEPT ![o] = s]
  BY DEF Stage

\* Publishing the link, when nobody has one yet, is the offer.
LEMMA PublishOffers ==
  ASSUME Grounded, PaidLast, NEW t \in Task, at[t] \in {"save", "reconcile"},
         PublishLink(t), UNCHANGED paid
  PROVE  Promise!Next
<1> DEFINE o == OrderOf[t]
<1>o. o \in Order BY PaymentAssumption
<1>1. ~Linked(o) /\ found[t] \in Link /\ found[t] # NoLink
  BY DEF PaidLast, Grounded, LinkIsReal, PaymentTypeOK
<1>2. StageOf(o) = "open"
  BY <1>o, <1>1 DEF PaidLast, StageOf, Linked
<1>3. /\ \A p \in Order : row'[p] = IF p = o THEN "PENDING_PREPAY" ELSE row[p]
      /\ rowLink' = [rowLink EXCEPT ![o] = found[t]]
      /\ \A p \in Order : rowLink'[p] = IF p = o THEN found[t] ELSE rowLink[p]
  BY DEF PublishLink, Grounded, PaymentTypeOK
<1>4. StageOf(o)' = "offered"
  BY <1>o, <1>1, <1>3 DEF PaidLast, StageOf
<1>5. \A p \in Order : p # o => StageOf(p)' = StageOf(p)
  BY <1>3 DEF StageOf
<1>6. Stage' = [Stage EXCEPT ![o] = "offered"]
  BY <1>o, <1>4, <1>5, StageMoves
<1>7. Promise!Offer(o, found[t])
  BY <1>o, <1>2, <1>3, <1>6 DEF Promise!Offer, Stage
<1> QED BY <1>o, <1>1, <1>7 DEF Promise!Next

\* A step of a task offers the link, or is none of the customer's business.
LEMMA StepKeepsPromise ==
  ASSUME Grounded, RetriesAreSafe, SoleCreator, PaidLast, NEW t \in Task, Step(t)
  PROVE  Promise!Next \/ Idle
<1> DEFINE o == OrderOf[t]
<1>o. o \in Order BY PaymentAssumption
<1>q. UNCHANGED paid
  BY DEF Step, InsertRow, Evaluate, Query, Reconcile, Create, Save, SaveFailed, DbError,
     Retry, Ack, NotStarted, hookVars
<1>1. CASE UNCHANGED <<row, rowLink>>
  BY <1>1, <1>q DEF Idle, StageOf
<1>2. CASE at[t] \in {"save", "reconcile"} /\ PublishLink(t)
  BY <1>2, <1>q, PublishOffers
<1>3. CASE InsertRow(t) \/ (at[t] = "saveFailed" /\ MarkFailed(t))
  <2>1. /\ UNCHANGED rowLink
        /\ \A p \in Order : row'[p] = "PAID" <=> row[p] = "PAID"
    BY <1>o, <1>3 DEF InsertRow, MarkFailed, PaidLast, Linked, Grounded, PaymentTypeOK
  <2> QED BY <1>q, <2>1 DEF Idle, StageOf
<1> QED BY <1>1, <1>2, <1>3
        DEF Step, Evaluate, Query, Reconcile, Create, Save, SaveFailed, DbError, Retry, Ack,
            NotStarted

\* Every step is one of the promise or a stutter.
LEMMA NextKeepsPromise ==
  ASSUME Grounded, RetriesAreSafe, "early_payment" \notin Env, SoleCreator, PaidLast, [Next]_vars
  PROVE  [Promise!Next]_<<Stage, rowLink>>
<1>t. PaymentTypeOK /\ PaymentTypeOK'
  BY NextTyped DEF Grounded
<1> SUFFICES Promise!Next \/ Idle
  BY <1>t, IdleStutters
<1>1. ASSUME NEW t \in Task, Step(t) PROVE Promise!Next \/ Idle
  BY <1>1, StepKeepsPromise
<1>2. ASSUME NEW o \in Order, NEW l \in Link, Pay(o, l) PROVE Promise!Next \/ Idle
  <2>1. /\ rowLink[o] = l /\ l # NoLink
        /\ paid' = paid \union {<<o, l>>}
        /\ UNCHANGED <<row, rowLink>>
    BY <1>2 DEF Pay, Link, NoLink
  <2>2. \A p \in Order : p # o => StageOf(p)' = StageOf(p)
    BY <2>1 DEF StageOf
  <2>3. CASE StageOf(o) = "offered"
    <3>1. StageOf(o)' = "paid"
      BY <2>1, <2>3 DEF StageOf
    <3>2. Promise!Pay(o)
      BY <2>1, <2>2, <2>3, <3>1, StageMoves DEF Promise!Pay, Stage
    <3> QED BY <3>2 DEF Promise!Next
  <2>4. CASE StageOf(o) # "offered"
    <3>1. StageOf(o)' = StageOf(o)
      BY <2>1, <2>4 DEF StageOf
    <3> QED BY <2>1, <2>2, <3>1 DEF Idle
  <2> QED BY <2>3, <2>4
<1>3. ASSUME NEW o \in Order, NEW l \in Link, Deliver(o, l) PROVE Promise!Next \/ Idle
  <2>1. /\ <<o, l>> \in paid /\ row[o] # "PAID"
        /\ \A p \in Order : row'[p] = IF p = o THEN "PAID" ELSE row[p]
        /\ UNCHANGED <<rowLink, paid>>
    BY <1>3 DEF Deliver, Grounded, PaymentTypeOK
  <2>2. /\ StageOf(o) = "paid" /\ StageOf(o)' = "settled"
        /\ \A p \in Order : p # o => StageOf(p)' = StageOf(p)
    BY <2>1 DEF StageOf
  <2>3. Promise!Settle(o)
    BY <2>1, <2>2, StageMoves DEF Promise!Settle, Stage
  <2> QED BY <2>3 DEF Promise!Next
<1>4. CASE UNCHANGED <<row, rowLink, paid>>
  BY <1>4 DEF Idle, StageOf
<1> QED BY <1>1, <1>2, <1>3, <1>4 DEF Next, Crash, Ended, vars, hookVars

\* PaymentLink implements PaymentPromise: an order is offered one link for good,
\* is paid, then settled, and nothing of it is taken back, through any number of
\* tasks, retries, crashes and webhooks, as long as retries are safe and a
\* customer pays only the link on the row.
THEOREM PaymentKeepsPromise ==
  RetriesAreSafe /\ "early_payment" \notin Env => (Spec => ImplementsPaymentPromise)
<1> SUFFICES ASSUME RetriesAreSafe, "early_payment" \notin Env
             PROVE  Spec => ImplementsPaymentPromise
  OBVIOUS
<1>1. Init => Promise!Init
  <2> SUFFICES ASSUME Init PROVE Promise!Init OBVIOUS
  <2>1. \A o \in Order : StageOf(o) = "open"
    BY DEF Init, StageOf, NoLink
  <2> QED BY <2>1 DEF Init, Promise!Init, Stage
<1>2. Grounded /\ SoleCreator /\ PaidLast /\ [Next]_vars => [Promise!Next]_<<Stage, rowLink>>
  BY NextKeepsPromise
<1>3. Spec => []SoleCreator /\ []PaidLast
  BY SoleCreatorHolds, PaidLastHolds
<1> QED BY <1>1, <1>2, <1>3, GroundedHolds, PTL DEF Spec, ImplementsPaymentPromise, Promise!Spec
=============================================================================
