--------------------------- MODULE ScoringPipeline ---------------------------
(***************************************************************************)
(* The path of an order from POST /v1/orders/score to its audit_log row    *)
(* and the side effects that follow it: the handler score_order            *)
(* (app/api/routes.py), the Redis deduplication key, the RabbitMQ queue    *)
(* and the Celery task score_order_task (app/services/scoring.py).         *)
(*                                                                         *)
(* Every POST is a Request; the Celery task it enqueues keeps that         *)
(* Request as its task id through all its retries, so a message is a pair  *)
(* of a task and the number of retries already made.  Late acknowledgement *)
(* and reject_on_worker_lost make the queue an at-least-once one, hence    *)
(* a bag.                                                                  *)
(***************************************************************************)
EXTENDS Naturals

CONSTANTS
  Event,       \* event_id values: the clients' idempotency keys
  Request,     \* calls of POST /v1/orders/score, and the tasks they enqueue
  Worker,      \* prefork processes of the Celery worker
  MaxRetries,  \* MAX_RETRIES of scoring.py
  Env,         \* what the environment may do to the system, subset of EnvKind
  MaxOutages,  \* bound on crashes and lost connections of the workers
  NoTask       \* "no row": different from every request

Tier == {"ALLOW_COD", "NUDGE_PREPAY", "SOFT_GATE_COD"}
NoTier == "none"
Effect == {"link", "gate", "explanation"}
EnvKind == {"redis_error", "delete_error", "state_error", "broker_error", "db_error",
            "misread_error", "poll_error", "api_crash", "worker_crash", "connection_lost",
            "key_expiry"}

ASSUME ConstantAssumption ==
  /\ MaxRetries \in Nat
  /\ MaxOutages \in Nat
  /\ Env \subseteq EnvKind
  /\ NoTask \notin Request

Message == Request \X (0..MaxRetries)

Reply == {"accepted", "complete", "failed", "processing", "unavailable"}
RequestPC == {"new", "lookupAudit", "lookupFailure", "enqueue", "gone"} \union Reply
WorkerPC == {"idle", "score", "act", "explain", "free", "sentinel", "ack"}
TaskState == {"PENDING", "STARTED", "RETRY", "SUCCESS", "FAILURE"}

VARIABLES
  dedup,     \* the events whose key dedup:<event_id> is in Redis
  pc,        \* where each request is, or what it was answered
  event,     \* the event_id of each request
  queue,     \* number of copies of each message in RabbitMQ
  at,        \* where each worker process is in score_order_task
  msg,       \* the message it works on
  verdict,   \* the tier it has computed and persisted
  audit,     \* audit_log: the tier of the row of each event
  failures,  \* scoring_failures: the task of the row of each event
  result,    \* Celery result backend: the state of each task
  sent,      \* how often each side effect of each event was triggered
  outages    \* crashes and lost connections so far

apiVars == <<pc, event>>
workerVars == <<at, msg, verdict>>
vars == <<dedup, pc, event, queue, at, msg, verdict, audit, failures, result, sent, outages>>

Task(w) == msg[w][1]
Retries(w) == msg[w][2]
EventOf(w) == event[Task(w)]
NoMessage == <<NoTask, 0>>

Init ==
  /\ dedup = {}
  /\ pc = [r \in Request |-> "new"]
  /\ event \in [Request -> Event]
  /\ queue = [m \in Message |-> 0]
  /\ at = [w \in Worker |-> "idle"]
  /\ msg = [w \in Worker |-> NoMessage]
  /\ verdict = [w \in Worker |-> NoTier]
  /\ audit = [e \in Event |-> NoTier]
  /\ failures = [e \in Event |-> NoTask]
  /\ result = [r \in Request |-> "PENDING"]
  /\ sent = [e \in Event |-> [f \in Effect |-> 0]]
  /\ outages = 0

-----------------------------------------------------------------------------
(* The API: one call of score_order, from the SET NX to its answer.  The    *)
(* rate limit in front of it is the subject of RateLimiter.                 *)

Answer(r, reply) == pc' = [pc EXCEPT ![r] = reply]

\* SET dedup:<event_id> NX: the first request takes the key ...
TakeKey(r) ==
  /\ pc[r] = "new"
  /\ event[r] \notin dedup
  /\ dedup' = dedup \union {event[r]}
  /\ Answer(r, "enqueue")
  /\ UNCHANGED <<event, queue, workerVars, audit, failures, result, sent, outages>>

\* ... and any other one is a duplicate.
FindKey(r) ==
  /\ pc[r] = "new"
  /\ event[r] \in dedup
  /\ Answer(r, "lookupAudit")
  /\ UNCHANGED <<dedup, event, queue, workerVars, audit, failures, result, sent, outages>>

\* A RedisError, before or after Redis applied the SET: fall through.
RedisUnavailable(r) ==
  /\ "redis_error" \in Env
  /\ pc[r] = "new"
  /\ dedup' \in {dedup, dedup \union {event[r]}}
  /\ Answer(r, "enqueue")
  /\ UNCHANGED <<event, queue, workerVars, audit, failures, result, sent, outages>>

\* The duplicate branch: audit_log first; an error of Postgres is a 503.
LookupAudit(r) ==
  /\ pc[r] = "lookupAudit"
  /\ \/ audit[event[r]] # NoTier /\ Answer(r, "complete")
     \/ audit[event[r]] = NoTier /\ Answer(r, "lookupFailure")
     \/ "db_error" \in Env /\ Answer(r, "unavailable")
  /\ UNCHANGED <<dedup, event, queue, workerVars, audit, failures, result, sent, outages>>

\* ... then scoring_failures, where an error of Postgres counts as no row.
LookupFailure(r) ==
  /\ pc[r] = "lookupFailure"
  /\ \/ failures[event[r]] # NoTask /\ Answer(r, "failed")
     \/ (failures[event[r]] = NoTask \/ "db_error" \in Env) /\ Answer(r, "processing")
  /\ UNCHANGED <<dedup, event, queue, workerVars, audit, failures, result, sent, outages>>

Enqueue(r) ==
  /\ pc[r] = "enqueue"
  /\ queue' = [queue EXCEPT ![<<r, 0>>] = @ + 1]
  /\ Answer(r, "accepted")
  /\ UNCHANGED <<dedup, event, workerVars, audit, failures, result, sent, outages>>

\* delay() raised, the message lost or published all the same: 503, and the
\* key taken by TakeKey stays.
EnqueueFails(r) ==
  /\ "broker_error" \in Env
  /\ pc[r] = "enqueue"
  /\ queue' \in {queue, [queue EXCEPT ![<<r, 0>>] = @ + 1]}
  /\ Answer(r, "unavailable")
  /\ UNCHANGED <<dedup, event, workerVars, audit, failures, result, sent, outages>>

\* The API process dies, or the client's connection with it, before a reply.
ApiCrash(r) ==
  /\ "api_crash" \in Env
  /\ pc[r] \in {"lookupAudit", "lookupFailure", "enqueue"}
  /\ Answer(r, "gone")
  /\ UNCHANGED <<dedup, event, queue, workerVars, audit, failures, result, sent, outages>>

\* The key outlives its 24 hours.
KeyExpires(e) ==
  /\ "key_expiry" \in Env
  /\ e \in dedup
  /\ dedup' = dedup \ {e}
  /\ UNCHANGED <<apiVars, queue, workerVars, audit, failures, result, sent, outages>>

-----------------------------------------------------------------------------
(* The worker: score_order_task and what Celery does around it.             *)

Goto(w, place) == at' = [at EXCEPT ![w] = place]

\* Celery's result backend, which is Redis: a state SUCCESS is never overwritten.
Store(t, state) ==
  result' = IF result[t] = "SUCCESS" THEN result ELSE [result EXCEPT ![t] = state]

\* The last state a delivery stores.  An error of Redis leaves the former one, or
\* is itself what is stored; the message is acknowledged all the same.
Mark(t, state) ==
  \/ Store(t, state)
  \/ "state_error" \in Env /\ (UNCHANGED result \/ Store(t, "FAILURE"))

Take(w, m) ==
  /\ at[w] = "idle"
  /\ queue[m] > 0
  /\ queue' = [queue EXCEPT ![m] = @ - 1]
  /\ msg' = [msg EXCEPT ![w] = m]

Fetch(w, m) ==
  /\ Take(w, m)
  /\ Goto(w, "score")
  /\ Store(m[1], "STARTED")
  /\ UNCHANGED <<dedup, apiVars, verdict, audit, failures, sent, outages>>

\* task_track_started: STARTED is stored before score_order_task is called, and
\* when that fails it is not called at all.
FetchInVain(w, m) ==
  /\ "state_error" \in Env
  /\ Take(w, m)
  /\ Goto(w, "ack")
  /\ Mark(m[1], "STARTED")
  /\ UNCHANGED <<dedup, apiVars, verdict, audit, failures, sent, outages>>

\* What follows a successful _insert_audit_log_sync: the tier's action and
\* the explanation for a new row, nothing for a duplicate.
NoAction(tier) == "explain"  \* mutant: the tier's action is forgotten
FirstDispatch(tier) == IF tier = "ALLOW_COD" THEN "explain" ELSE "act"

\* is_new: the UNIQUE event_id of audit_log lets the first insert pass.
NeverDuplicate(w) == TRUE  \* mutant: the violation is not caught as one
IsNew(w) == audit[EventOf(w)] = NoTier

\* Features, model, SHAP and router, then insert-and-catch.
Insert(w, tier) ==
  /\ at[w] = "score"
  /\ IF IsNew(w)
       THEN /\ audit' = [audit EXCEPT ![EventOf(w)] = tier]
            /\ verdict' = [verdict EXCEPT ![w] = tier]
            /\ Goto(w, FirstDispatch(tier))
            /\ UNCHANGED result
       ELSE /\ Goto(w, "ack")
            /\ Mark(Task(w), "SUCCESS")
            /\ UNCHANGED <<audit, verdict>>
  /\ UNCHANGED <<dedup, apiVars, queue, msg, failures, sent, outages>>

\* The except clause: publish a retry, which keeps the task id, while any is
\* left, or start the final failure.  When self.retry() cannot publish, Celery
\* rejects the message for good.
CatchException(w) ==
  \/ /\ Retries(w) < MaxRetries
     /\ queue' = [queue EXCEPT ![<<Task(w), Retries(w) + 1>>] = @ + 1]
     /\ Mark(Task(w), "RETRY")
     /\ Goto(w, "ack")
  \/ /\ Retries(w) < MaxRetries
     /\ "broker_error" \in Env
     /\ Goto(w, "ack")
     /\ UNCHANGED <<queue, result>>
  \/ /\ Retries(w) = MaxRetries
     /\ Goto(w, "free")
     /\ UNCHANGED <<queue, result>>

\* Any exception before the row is written.
ScoringFails(w) ==
  /\ at[w] = "score"
  /\ CatchException(w)
  /\ UNCHANGED <<dedup, apiVars, msg, verdict, audit, failures, sent, outages>>

\* commit() or refresh() raised although Postgres has the row.
InsertFails(w, tier) ==
  /\ "db_error" \in Env
  /\ at[w] = "score"
  /\ audit[EventOf(w)] = NoTier
  /\ audit' = [audit EXCEPT ![EventOf(w)] = tier]
  /\ CatchException(w)
  /\ UNCHANGED <<dedup, apiVars, msg, verdict, failures, sent, outages>>

\* A database error whose text has the word "unique" in it, be it in a parameter
\* it quotes: the row, written or not, passes for a duplicate, and the task for
\* done.
TakenForDuplicate(w, tier) ==
  /\ "misread_error" \in Env
  /\ at[w] = "score"
  /\ audit' \in {audit, [audit EXCEPT ![EventOf(w)] = IF @ = NoTier THEN tier ELSE @]}
  /\ Goto(w, "ack")
  /\ Mark(Task(w), "SUCCESS")
  /\ UNCHANGED <<dedup, apiVars, queue, msg, verdict, failures, sent, outages>>

Trigger(e, f) == sent' = [sent EXCEPT ![e][f] = @ + 1]

\* The side effect of a tier.
SwappedAction(tier) == IF tier = "NUDGE_PREPAY" THEN "gate" ELSE "link"  \* mutant
ActionOf(tier) == IF tier = "NUDGE_PREPAY" THEN "link" ELSE "gate"

\* create_payment_link_task.delay or apply_soft_gate.
Act(w) ==
  /\ at[w] = "act"
  /\ Trigger(EventOf(w), ActionOf(verdict[w]))
  /\ Goto(w, "explain")
  /\ UNCHANGED <<dedup, apiVars, queue, msg, verdict, audit, failures, result, outages>>

\* explain_order_task.delay, and the task returns its result.
Explain(w) ==
  /\ at[w] = "explain"
  /\ Trigger(EventOf(w), "explanation")
  /\ Goto(w, "ack")
  /\ Mark(Task(w), "SUCCESS")
  /\ UNCHANGED <<dedup, apiVars, queue, msg, verdict, audit, failures, outages>>

\* One of the two delay() calls raised, its message lost or published.
DispatchFails(w) ==
  /\ "broker_error" \in Env
  /\ \/ /\ at[w] = "act" /\ verdict[w] = "NUDGE_PREPAY"
        /\ \/ Trigger(EventOf(w), "link")
           \/ UNCHANGED sent
     \/ /\ at[w] = "explain"
        /\ \/ Trigger(EventOf(w), "explanation")
           \/ UNCHANGED sent
  /\ CatchException(w)
  /\ UNCHANGED <<dedup, apiVars, msg, verdict, audit, failures, outages>>

KeepKey(w) == UNCHANGED dedup  \* mutant: the 24h blackhole
DeleteKey(w) == dedup' = dedup \ {EventOf(w)}

\* _delete_redis_dedup_key, best effort: an error of Redis is swallowed.
FreeKey(w) ==
  /\ at[w] = "free"
  /\ \/ DeleteKey(w)
     \/ "delete_error" \in Env /\ UNCHANGED dedup
  /\ Goto(w, "sentinel")
  /\ UNCHANGED <<apiVars, queue, msg, verdict, audit, failures, result, sent, outages>>

ForgetFailure(w) == UNCHANGED failures  \* mutant: the failure stays silent
RecordFailure(w) ==
  failures' = [failures EXCEPT ![EventOf(w)] = IF @ = NoTask THEN Task(w) ELSE @]

\* _write_scoring_failure_sync: the first row stays, every error is swallowed.
WriteSentinel(w) ==
  /\ at[w] = "sentinel"
  /\ \/ RecordFailure(w)
     \/ "db_error" \in Env /\ UNCHANGED failures
  /\ Goto(w, "ack")
  /\ Mark(Task(w), "FAILURE")
  /\ UNCHANGED <<dedup, apiVars, queue, msg, verdict, audit, sent, outages>>

\* mutant: a process goes on without its message
LoseMessage(w) ==
  /\ Goto(w, "score")
  /\ msg' = [msg EXCEPT ![w] = NoMessage]
  /\ verdict' = [verdict EXCEPT ![w] = NoTier]
BecomeIdle(w) ==
  /\ Goto(w, "idle")
  /\ msg' = [msg EXCEPT ![w] = NoMessage]
  /\ verdict' = [verdict EXCEPT ![w] = NoTier]

\* acks_late: the message leaves the broker only now.
Ack(w) ==
  /\ at[w] = "ack"
  /\ BecomeIdle(w)
  /\ UNCHANGED <<dedup, apiVars, queue, audit, failures, result, sent, outages>>

EarlyAck(w) ==  \* mutant: the message left the broker when it was received
  /\ at[w] # "idle"
  /\ outages < MaxOutages
  /\ outages' = outages + 1
  /\ UNCHANGED queue
Redeliver(w) ==
  /\ at[w] # "idle"
  /\ outages < MaxOutages
  /\ outages' = outages + 1
  /\ queue' = [queue EXCEPT ![msg[w]] = @ + 1]

\* reject_on_worker_lost: the message of a dead process is queued again.
WorkerCrash(w) ==
  /\ "worker_crash" \in Env
  /\ Redeliver(w)
  /\ BecomeIdle(w)
  /\ UNCHANGED <<dedup, apiVars, audit, failures, result, sent>>

\* The broker gives the message to someone else while w works on it still.
ConnectionLost(w) ==
  /\ "connection_lost" \in Env
  /\ Redeliver(w)
  /\ UNCHANGED <<dedup, apiVars, workerVars, audit, failures, result, sent>>

-----------------------------------------------------------------------------
Api(r) ==
  \/ TakeKey(r) \/ FindKey(r) \/ RedisUnavailable(r)
  \/ LookupAudit(r) \/ LookupFailure(r)
  \/ Enqueue(r) \/ EnqueueFails(r) \/ ApiCrash(r)

Work(w) ==
  \/ \E m \in Message : Fetch(w, m) \/ FetchInVain(w, m)
  \/ \E tier \in Tier : Insert(w, tier) \/ InsertFails(w, tier) \/ TakenForDuplicate(w, tier)
  \/ ScoringFails(w) \/ Act(w) \/ Explain(w) \/ DispatchFails(w)
  \/ FreeKey(w) \/ WriteSentinel(w) \/ Ack(w)

\* All calls are answered, all messages consumed: nothing is left to do.
Quiescent ==
  /\ \A r \in Request : pc[r] \in Reply \union {"gone"}
  /\ \A w \in Worker : at[w] = "idle"
  /\ \A m \in Message : queue[m] = 0
  /\ UNCHANGED vars

Next ==
  \/ \E r \in Request : Api(r)
  \/ \E e \in Event : KeyExpires(e)
  \/ \E w \in Worker : Work(w) \/ WorkerCrash(w) \/ ConnectionLost(w)
  \/ Quiescent

Spec == Init /\ [][Next]_vars

\* A prefork process that has work does it: the pool replaces a dead process,
\* and messages, retries and outages are finite in number.
Fairness == \A w \in Worker : WF_vars(Work(w))

FairSpec == Spec /\ Fairness

-----------------------------------------------------------------------------
\* Every variable keeps its type; a worker that is not idle holds a message.
TypeOK ==
  /\ dedup \subseteq Event
  /\ pc \in [Request -> RequestPC]
  /\ event \in [Request -> Event]
  /\ queue \in [Message -> Nat]
  /\ at \in [Worker -> WorkerPC]
  /\ msg \in [Worker -> Message \union {NoMessage}]
  /\ verdict \in [Worker -> Tier \union {NoTier}]
  /\ audit \in [Event -> Tier \union {NoTier}]
  /\ failures \in [Event -> Request \union {NoTask}]
  /\ result \in [Request -> TaskState]
  /\ sent \in [Event -> [Effect -> Nat]]
  /\ outages \in 0..MaxOutages
  /\ \A w \in Worker : at[w] # "idle" => msg[w] \in Message

\* No side effect of an event happens twice, whatever is retried, redelivered,
\* resubmitted or run in parallel: the is_new gate of score_order_task.
AtMostOnce == \A e \in Event : \A f \in Effect : sent[e][f] <= 1

\* A side effect belongs to the tier on record: a payment link is only created
\* and the soft gate only applied for an order audited with that tier, and no
\* explanation exists for an order that has no audit_log row.
EffectsMatchAudit ==
  \A e \in Event :
    /\ sent[e]["link"] > 0 => audit[e] = "NUDGE_PREPAY"
    /\ sent[e]["gate"] > 0 => audit[e] = "SOFT_GATE_COD"
    /\ sent[e]["explanation"] > 0 => audit[e] # NoTier

\* The worker is between its insert, which was new, and its last dispatch.
Serving(w) == at[w] \in {"act", "explain"}

\* The is_new gate hands the side effects of an event to one worker only, which
\* has persisted the tier it acts on and finds every effect it has yet to
\* trigger untouched.
Ownership ==
  /\ \A e \in Event : audit[e] = NoTier => \A f \in Effect : sent[e][f] = 0
  /\ \A v, w \in Worker :
       Serving(v) /\ Serving(w) /\ EventOf(v) = EventOf(w) => v = w
  /\ \A w \in Worker :
       Serving(w) => verdict[w] \in Tier /\ audit[EventOf(w)] = verdict[w]
  /\ \A w \in Worker : at[w] = "act" =>
       verdict[w] # "ALLOW_COD" /\ \A f \in Effect : sent[EventOf(w)][f] = 0
  /\ \A w \in Worker : at[w] = "explain" =>
       /\ sent[EventOf(w)]["explanation"] = 0
       /\ verdict[w] = "NUDGE_PREPAY" => sent[EventOf(w)]["link"] = 1
       /\ verdict[w] = "SOFT_GATE_COD" => sent[EventOf(w)]["gate"] = 1

\* Work on event e is on its way: about to be enqueued, queued, or in a worker
\* at one of the given places.
LiveWork(e, places) ==
  \/ \E r \in Request : event[r] = e /\ pc[r] = "enqueue"
  \/ \E m \in Message : event[m[1]] = e /\ queue[m] > 0
  \/ \E w \in Worker : at[w] \in places /\ EventOf(w) = e

Pending(e) == LiveWork(e, WorkerPC \ {"idle"})

\* A key in Redis is backed by a result or by work that will produce one, so
\* that a client is never told "already submitted" of an order nobody scores:
\* the 24h blackhole of the header of scoring.py.
NoBlackhole == \A e \in dedup : audit[e] # NoTier \/ Pending(e)

\* A copy of the message of task t is queued, or in a worker at one of the places.
TaskInHand(t, places) ==
  \/ \E m \in Message : m[1] = t /\ queue[m] > 0
  \/ \E w \in Worker : at[w] \in places /\ Task(w) = t

\* An accepted order that is neither audited nor on record as failed is still in
\* the hands of its own task, which has yet to write one or the other.  So when
\* the queue is empty and the workers are idle, every accepted order has an end.
AcceptedIsBacked ==
  \A r \in Request : pc[r] = "accepted" =>
    \/ audit[event[r]] # NoTier
    \/ failures[event[r]] # NoTask
    \/ TaskInHand(r, {"score", "free", "sentinel"})

\* audit_log is append-only: a row, once there, is never changed or removed.
AuditAppendOnly ==
  [][\A e \in Event : audit[e] # NoTier => audit'[e] = audit[e]]_vars

\* Answering "processing" to a duplicate is true at that moment: the order has
\* just been scored or work on it is on its way.
ProcessingIsTrue ==
  [][\A r \in Request : pc[r] # "processing" /\ pc'[r] = "processing"
       => audit[event[r]] # NoTier \/ Pending(event[r])]_vars

\* get_unrecovered_failures and its count (app/db/queries.py): the failures on
\* record that no audit_log row has made up for since.
Unrecovered == {e \in Event : failures[e] # NoTask /\ audit[e] = NoTier}

\* An accepted order is never lost from sight: it ends with an audit_log row, or
\* among the failures that operators are shown as not recovered.
AcceptedIsSettled ==
  \A r \in Request :
    pc[r] = "accepted" ~> audit[event[r]] # NoTier \/ event[r] \in Unrecovered

\* The order has got the action of its tier and its explanation.
Served(e) ==
  /\ sent[e]["explanation"] = 1
  /\ audit[e] = "NUDGE_PREPAY" => sent[e]["link"] = 1
  /\ audit[e] = "SOFT_GATE_COD" => sent[e]["gate"] = 1

\* Failed attempts, duplicates and expired keys never keep an audited order from
\* its side effects.  Only the loss of a worker may: a redelivered message finds
\* the row of its first delivery and, not being new, skips what was left to do.
ServedUnlessOutage ==
  \A e \in Event : audit[e] # NoTier ~> Served(e) \/ outages > 0

-----------------------------------------------------------------------------
\* The side effects triggered so far, forgetting how often.
Done == [e \in Event |-> {f \in Effect : sent[e][f] > 0}]

Promise == INSTANCE ScoringPromise WITH record <- audit, done <- Done

\* The pipeline implements the promise: nothing but a first recording, a first
\* action and a first explanation, in this order, is ever visible.
ImplementsPromise == Promise!Spec
=============================================================================
