----------------------------- MODULE PaymentLink -----------------------------
(***************************************************************************)
(* The Razorpay payment link of an order: create_payment_link_task         *)
(* (app/services/payment_tasks.py) running reconcile_or_create             *)
(* (app/services/razorpay_client.py), the webhook handler                  *)
(* (app/api/webhooks.py), the table payment_link_state they share, and     *)
(* Razorpay as far as they use it.                                         *)
(*                                                                         *)
(* A Task is one copy of a message of the queue.  An order may have several *)
(* copies: two events with one order_id (OrderPayload allows it), or one   *)
(* message that the broker delivered twice; and self.retry publishes a new *)
(* one before the old one, acknowledged late, is gone.  No transaction     *)
(* spans a call to Razorpay, and every UPDATE of a task is unconditional.  *)
(***************************************************************************)
EXTENDS Naturals

CONSTANTS
  Order,
  Task,
  OrderOf,      \* the order of each task
  First,        \* the tasks that scoring has queued; the others are free for retries
  MaxRetries,   \* max_retries of create_payment_link_task
  MaxLinks,     \* bound on the links of an order at Razorpay
  MaxCrashes,   \* bound on worker crashes
  Flaky,        \* the orders whose calls to create a link may fail
  Torn,         \* the orders a worker may die for when their retry is published
  Env           \* what else may go wrong, subset of EnvKind

EnvKind ==
  {"query_error", "db_error", "broker_error", "state_error", "worker_crash", "early_payment"}
RowState == {"none", "CREATING", "LINK_CREATION_FAILED", "PENDING_PREPAY", "PAID"}
Link == 1..MaxLinks
NoLink == 0
Payment == Order \X Link   \* a paid link, and the event id of its webhook

ASSUME PaymentAssumption ==
  /\ OrderOf \in [Task -> Order]
  /\ First \subseteq Task
  /\ MaxRetries \in Nat
  /\ MaxLinks \in Nat
  /\ MaxCrashes \in Nat
  /\ Flaky \subseteq Order
  /\ Torn \subseteq Order
  /\ Env \subseteq EnvKind

VARIABLES
  row,       \* payment_link_state.state of each order
  rowLink,   \* payment_link_state.razorpay_link_id
  remote,    \* number of links each order has at Razorpay: links 1..remote[o]
  paid,      \* the links customers have paid
  recorded,  \* webhook_events
  settled,   \* how often each webhook event turned a row to PAID
  at,        \* where each task is
  isNew,     \* is_new of its current attempt
  found,     \* the link it has created or found and is about to save
  retries,   \* request.retries of its message
  crashes    \* worker crashes so far

taskVars == <<at, isNew, found, retries>>
hookVars == <<paid, recorded, settled>>
vars == <<row, rowLink, remote, paid, recorded, settled, at, isNew, found, retries, crashes>>

\* "none": no such message; "over": acknowledged after a success.
Place == {"none", "start", "evaluate", "query", "reconcile", "create", "save", "saveFailed",
          "caught", "retried", "dead", "done", "over"}
Unacknowledged == Place \ {"none", "start", "over"}

Init ==
  /\ row = [o \in Order |-> "none"]
  /\ rowLink = [o \in Order |-> NoLink]
  /\ remote = [o \in Order |-> 0]
  /\ paid = {}
  /\ recorded = {}
  /\ settled = [e \in Payment |-> 0]
  /\ at = [t \in Task |-> IF t \in First THEN "start" ELSE "none"]
  /\ isNew = [t \in Task |-> FALSE]
  /\ found = [t \in Task |-> NoLink]
  /\ retries = [t \in Task |-> 0]
  /\ crashes = 0

Goto(t, place) == at' = [at EXCEPT ![t] = place]
Hold(t, l) == found' = [found EXCEPT ![t] = l]

\* An exception ends the attempt, in the except clause of create_payment_link_task.
Fail(t) ==
  /\ Goto(t, "caught")
  /\ isNew' = [isNew EXCEPT ![t] = FALSE]
  /\ Hold(t, NoLink)
  /\ UNCHANGED retries

\* Insert-and-catch of a CREATING row.
InsertRow(t) ==
  LET o == OrderOf[t] IN
  /\ at[t] = "start"
  /\ row' = [row EXCEPT ![o] = IF @ = "none" THEN "CREATING" ELSE @]
  /\ isNew' = [isNew EXCEPT ![t] = row[o] = "none"]
  /\ Goto(t, "evaluate")
  /\ UNCHANGED <<rowLink, remote, hookVars, found, retries, crashes>>

\* The branch that creates: the row is this attempt's own, or marked failed.
CreateUnlessPending(t) == row[OrderOf[t]] # "PENDING_PREPAY"  \* mutant: PAID forgotten
MayCreate(t) ==
  \/ row[OrderOf[t]] = "LINK_CREATION_FAILED"
  \/ row[OrderOf[t]] = "CREATING" /\ isNew[t]

\* The row is read again - refreshed, or fetched after the violation - and the
\* state machine takes its branch: a link exists, someone else is creating it,
\* or it is ours to create, after a look at Razorpay unless the row is new.
Evaluate(t) ==
  LET o == OrderOf[t] IN
  /\ at[t] = "evaluate"
  /\ \/ /\ row[o] \in {"PENDING_PREPAY", "PAID"}
        /\ rowLink[o] # NoLink
        /\ Goto(t, "done")
        /\ UNCHANGED <<isNew, found, retries>>
     \/ /\ \/ row[o] \in {"PENDING_PREPAY", "PAID"} /\ rowLink[o] = NoLink
           \/ row[o] = "CREATING" /\ ~isNew[t]
        /\ Fail(t)
     \/ /\ MayCreate(t)
        /\ Goto(t, IF isNew[t] THEN "create" ELSE "query")
        /\ UNCHANGED <<isNew, found, retries>>
  /\ UNCHANGED <<row, rowLink, remote, hookVars, crashes>>

\* What Razorpay lists for the reference_id of the order.
NoneListed(o) == {}   \* mutant: the list is not looked at
AnyListed(o) == Link  \* mutant: not filtered by reference_id
Listed(o) == 1..remote[o]

\* Ask Razorpay for a link with this reference; an error is swallowed.
Query(t) ==
  /\ at[t] = "query"
  /\ \/ \E l \in Listed(OrderOf[t]) : Hold(t, l) /\ Goto(t, "reconcile")
     \/ /\ Listed(OrderOf[t]) = {} \/ "query_error" \in Env
        /\ Goto(t, "create")
        /\ UNCHANGED found
  /\ UNCHANGED <<row, rowLink, remote, hookVars, isNew, retries, crashes>>

\* UPDATE ... SET state = 'PENDING_PREPAY', razorpay_link_id WHERE order_id.
PublishState(t) ==  \* mutant: without the link
  /\ row' = [row EXCEPT ![OrderOf[t]] = "PENDING_PREPAY"]
  /\ UNCHANGED rowLink
PublishLink(t) ==
  /\ row' = [row EXCEPT ![OrderOf[t]] = "PENDING_PREPAY"]
  /\ rowLink' = [rowLink EXCEPT ![OrderOf[t]] = found[t]]

\* Save a link found at Razorpay.  A database error, the update committed or
\* not, is swallowed with those of the query, and a link is created all the same.
Reconcile(t) ==
  /\ at[t] = "reconcile"
  /\ \/ PublishLink(t) /\ Goto(t, "done")
     \/ "db_error" \in Env /\ PublishLink(t) /\ Goto(t, "create")
     \/ "db_error" \in Env /\ Goto(t, "create") /\ UNCHANGED <<row, rowLink>>
  /\ Hold(t, NoLink)
  /\ UNCHANGED <<remote, hookVars, isNew, retries, crashes>>

\* create_payment_link; on an error, say a timeout, the link may exist or not.
Create(t) ==
  LET o == OrderOf[t] IN
  /\ at[t] = "create"
  /\ \/ /\ remote[o] < MaxLinks
        /\ remote' = [remote EXCEPT ![o] = @ + 1]
        /\ Hold(t, remote[o] + 1)
        /\ Goto(t, "save")
     \/ /\ o \in Flaky
        /\ \/ UNCHANGED remote
           \/ remote[o] < MaxLinks /\ remote' = [remote EXCEPT ![o] = @ + 1]
        /\ Goto(t, "saveFailed")
        /\ UNCHANGED found
  /\ UNCHANGED <<row, rowLink, hookVars, isNew, retries, crashes>>

Save(t) ==
  /\ at[t] = "save"
  /\ PublishLink(t)
  /\ Goto(t, "done")
  /\ Hold(t, NoLink)
  /\ UNCHANGED <<remote, hookVars, isNew, retries, crashes>>

LeaveCreating(t) == UNCHANGED <<row, rowLink>>  \* mutant: the row is not marked
MarkFailed(t) ==
  /\ row' = [row EXCEPT ![OrderOf[t]] = "LINK_CREATION_FAILED"]
  /\ UNCHANGED rowLink

SaveFailed(t) ==
  /\ at[t] = "saveFailed"
  /\ MarkFailed(t)
  /\ Fail(t)
  /\ UNCHANGED <<remote, hookVars, crashes>>

\* A database error outside of Reconcile, the statement committed or not.
DbError(t) ==
  /\ "db_error" \in Env
  /\ \/ at[t] \in {"start", "evaluate", "save", "saveFailed"} /\ UNCHANGED <<row, rowLink>>
     \/ at[t] = "save" /\ PublishLink(t)
     \/ at[t] = "saveFailed" /\ MarkFailed(t)
  /\ Fail(t)
  /\ UNCHANGED <<remote, hookVars, crashes>>

\* self.retry: a new message for the order, with one more retry.
Publish(t) ==
  \E u \in Task :
    /\ at[u] = "none" /\ OrderOf[u] = OrderOf[t]
    /\ at' = [at EXCEPT ![t] = "retried", ![u] = "start"]
    /\ retries' = [retries EXCEPT ![u] = retries[t] + 1]

\* At exhaustion self.retry raises exc itself, not MaxRetriesExceededError, so
\* that _handle_final_link_failure does not run and the task just ends; so does
\* a task whose retry cannot be published, which Celery rejects.
RetryForever(t) ==  \* mutant: no max_retries
  /\ at[t] = "caught"
  /\ Publish(t)
  /\ UNCHANGED <<row, rowLink, remote, hookVars, isNew, found, crashes>>
Retry(t) ==
  /\ at[t] = "caught"
  /\ \/ retries[t] < MaxRetries /\ Publish(t)
     \/ /\ retries[t] = MaxRetries \/ "broker_error" \in Env
        /\ Goto(t, "dead")
        /\ UNCHANGED retries
  /\ UNCHANGED <<row, rowLink, remote, hookVars, isNew, found, crashes>>

\* The message is acknowledged after all that, whether the task succeeded or not.
Ack(t) ==
  /\ \/ at[t] = "done" /\ Goto(t, "over")
     \/ at[t] \in {"retried", "dead"} /\ Goto(t, "none")
  /\ retries' = [retries EXCEPT ![t] = 0]
  /\ UNCHANGED <<row, rowLink, remote, hookVars, isNew, found, crashes>>

\* Celery could not store STARTED: the task ends before its body.
NotStarted(t) ==
  /\ "state_error" \in Env
  /\ at[t] = "start"
  /\ Goto(t, "dead")
  /\ UNCHANGED <<row, rowLink, remote, hookVars, isNew, found, retries, crashes>>

\* The worker dies, maybe after its last statement but before it acknowledges:
\* the message is delivered again, with the same retries, and if its retry was
\* published there are two now.
Crash(t) ==
  /\ "worker_crash" \in Env
  /\ at[t] \in Unacknowledged
  /\ at[t] = "retried" => OrderOf[t] \in Torn
  /\ crashes < MaxCrashes
  /\ crashes' = crashes + 1
  /\ Goto(t, "start")
  /\ isNew' = [isNew EXCEPT ![t] = FALSE]
  /\ Hold(t, NoLink)
  /\ UNCHANGED <<row, rowLink, remote, hookVars, retries>>

\* A customer pays a link: the one on the row or, early, one that exists at
\* Razorpay but is not on the row yet or any more.
Pay(o, l) ==
  /\ l <= remote[o] /\ <<o, l>> \notin paid
  /\ rowLink[o] = l \/ "early_payment" \in Env
  /\ paid' = paid \union {<<o, l>>}
  /\ UNCHANGED <<row, rowLink, remote, recorded, settled, taskVars, crashes>>

Always(o, l) == TRUE  \* mutant: event_id is not UNIQUE
NotRecorded(o, l) == <<o, l>> \notin recorded
OnlyPending(o) == row[o] = "PENDING_PREPAY"  \* mutant: other states are a conflict
Settleable(o) == row[o] \notin {"none", "PAID"}

\* handle_razorpay_webhook for payment_link.paid.  The insert of the event id,
\* SELECT ... FOR UPDATE and UPDATE are one transaction: a second delivery of
\* the event waits for the unique index, other writers for the row lock.  A
\* known event is absorbed; an unknown reference (404) or a row PAID already
\* (409) rolls back the insert.
Deliver(o, l) ==
  /\ <<o, l>> \in paid
  /\ NotRecorded(o, l)
  /\ Settleable(o)
  /\ row' = [row EXCEPT ![o] = "PAID"]
  /\ recorded' = recorded \union {<<o, l>>}
  /\ settled' = [settled EXCEPT ![<<o, l>>] = @ + 1]
  /\ UNCHANGED <<rowLink, remote, paid, taskVars, crashes>>

Step(t) ==
  \/ InsertRow(t) \/ Evaluate(t) \/ Query(t) \/ Reconcile(t) \/ Create(t)
  \/ Save(t) \/ SaveFailed(t) \/ DbError(t) \/ Retry(t) \/ Ack(t) \/ NotStarted(t)

\* All tasks have ended; a payment to come may or may not be made.
Ended ==
  /\ \A t \in Task : at[t] \in {"none", "over"}
  /\ UNCHANGED vars

Next ==
  \/ \E t \in Task : Step(t) \/ Crash(t)
  \/ \E o \in Order, l \in Link : Pay(o, l) \/ Deliver(o, l)
  \/ Ended

Spec == Init /\ [][Next]_vars

\* Workers run what is queued; Razorpay delivers a webhook until it is taken.
FairSpec ==
  /\ Spec
  /\ \A t \in Task : WF_vars(Step(t))
  /\ \A o \in Order, l \in Link : WF_vars(Deliver(o, l))

-----------------------------------------------------------------------------
\* Every variable keeps its type, and a task about to save a link has one.
PaymentTypeOK ==
  /\ row \in [Order -> RowState]
  /\ rowLink \in [Order -> Link \union {NoLink}]
  /\ remote \in [Order -> 0..MaxLinks]
  /\ paid \subseteq Payment
  /\ recorded \subseteq paid
  /\ settled \in [Payment -> Nat]
  /\ at \in [Task -> Place]
  /\ isNew \in [Task -> BOOLEAN]
  /\ found \in [Task -> Link \union {NoLink}]
  /\ retries \in [Task -> 0..MaxRetries]
  /\ crashes \in 0..MaxCrashes

\* Replaying a webhook never settles the order again, even when its row has
\* left PAID meanwhile: the UNIQUE event_id of webhook_events.
SettlesOnce == \A e \in Payment : settled[e] <= 1

\* The row and the tasks only ever name links that Razorpay has, and a task
\* that is about to save a link knows which.
LinkIsReal ==
  /\ \A o \in Order : rowLink[o] <= remote[o]
  /\ \A t \in Task :
       /\ found[t] <= remote[OrderOf[t]]
       /\ at[t] \in {"save", "reconcile"} => found[t] # NoLink

\* An order has one payment link at most, whatever is retried or run twice:
\* the reference_id and the CREATING row of reconcile_or_create.
OneLink == \A o \in Order : remote[o] <= 1

\* How far an order is, whatever its tasks are doing.
StageOf(o) ==
  IF row[o] = "PAID" THEN "settled"
  ELSE IF \E l \in Link : <<o, l>> \in paid THEN "paid"
  ELSE IF rowLink[o] # NoLink THEN "offered"
  ELSE "open"
Stage == [o \in Order |-> StageOf(o)]

Promise == INSTANCE PaymentPromise WITH stage <- Stage, link <- rowLink

\* An order is offered one link, for good, is paid, and settled after that; PAID
\* is the end.  No unconditional UPDATE of a task that comes late, runs twice or
\* is retried takes any of it back.
ImplementsPaymentPromise == Promise!Spec

\* A task that ended well leaves a link the customer can find on the row, for
\* as long as the order lives.
DoneHasLink ==
  \A t \in Task : at[t] \in {"done", "over"} =>
    /\ row[OrderOf[t]] \in {"PENDING_PREPAY", "PAID"}
    /\ rowLink[OrderOf[t]] # NoLink

\* No row stays CREATING, the state that makes every other task back off: while
\* Postgres answers, only the death of a worker can do it, not another task, nor
\* an error of Razorpay.
OnlyCrashesOrphan ==
  \A o \in Order : row[o] = "CREATING" ~> row[o] # "CREATING" \/ crashes > 0

\* A customer who has paid is not forgotten: the order is settled, however early
\* the webhook comes and whatever its link task goes through.
PaymentSettles ==
  \A o \in Order, l \in Link :
    <<o, l>> \in paid ~> \E k \in Link : settled[<<o, k>>] > 0
=============================================================================
