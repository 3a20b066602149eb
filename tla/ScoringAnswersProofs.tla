-------------------------- MODULE ScoringAnswersProofs --------------------------
(***************************************************************************)
(* Proofs about what clients of the scoring API are told, in               *)
(* ScoringPipeline and ResultPolling: a deduplication key stands for a     *)
(* result or for work under way, and a duplicate told "processing" was     *)
(* told the truth; an accepted order is never dropped; a poll that answers *)
(* "processing" is right, and an answer with a row behind it is never      *)
(* taken back.  Each theorem names the faults it excludes.  Workers may    *)
(* crash, messages be delivered again and keys expire in all of them.      *)
(***************************************************************************)
EXTENDS ScoringPipelineProofs, ResultPolling

USE DEF IsNew, ActionOf, DeleteKey, RecordFailure

\* No task is dropped by an error of the broker, by one that is misread, or because
\* its state STARTED cannot be stored.
TasksAreKept == Env \cap {"broker_error", "misread_error", "state_error"} = {}
KeysAreSafe == TasksAreKept /\ Env \cap {"redis_error", "api_crash"} = {}

\* Places of a worker from which an event whose key is still there will be
\* seen through: serving workers are not among them, their event is audited.
BeforeRelease == {"score", "free"}
BeforeRecord == {"score", "free", "sentinel"}

\* The inductive strengthening of NoBlackhole: a worker that is only about to
\* acknowledge its message does not count as work.
KeyInv == \A e \in dedup : audit[e] # NoTier \/ LiveWork(e, BeforeRelease)

\* What remains of it when the delete of a key may fail: the failure row that is
\* written next answers for the key.
FailedKeyInv ==
  \A e \in dedup : audit[e] # NoTier \/ failures[e] # NoTask \/ LiveWork(e, BeforeRecord)

\* What a duplicate has learnt by finding the key outlives the key itself.
DuplicateInv ==
  \A r \in Request : pc[r] \in {"lookupAudit", "lookupFailure"} =>
    \/ audit[event[r]] # NoTier
    \/ failures[event[r]] # NoTask
    \/ LiveWork(event[r], BeforeRecord)

-----------------------------------------------------------------------------
\* event_id values never change, and an audited event stays audited.
LEMMA Stable ==
  ASSUME TypeOK, [Next]_vars
  PROVE  event' = event /\ \A e \in Event : audit[e] # NoTier => audit'[e] # NoTier
<1>1. event' = event
  BY DEF Next, Api, TakeKey, FindKey, RedisUnavailable, LookupAudit, LookupFailure, Enqueue,
         EnqueueFails, ApiCrash, KeyExpires, Work, Fetch, FetchInVain, Take, Insert,
         InsertFails, TakenForDuplicate,
         ScoringFails, Act, Explain, DispatchFails, FreeKey, WriteSentinel, Ack, WorkerCrash,
         ConnectionLost,
         Quiescent, vars, apiVars
<1>2. \A e \in Event : audit[e] # NoTier => audit'[e] # NoTier
  BY AuditStep DEF TypeOK, Tier, NoTier
<1>3. QED
  BY <1>1, <1>2

\* A request about to enqueue stays there until its message is queued.
LEMMA EnqueueStep ==
  ASSUME TypeOK, KeysAreSafe, [Next]_vars, NEW r \in Request, pc[r] = "enqueue"
  PROVE  pc'[r] = "enqueue" \/ (<<r, 0>> \in Message /\ queue'[<<r, 0>>] > 0)
<1>m. <<r, 0>> \in Message
  BY ConstantAssumption DEF Message
<1>1. ASSUME NEW q \in Request, Api(q), q # r PROVE pc'[r] = "enqueue"
  BY <1>1 DEF Api, TakeKey, FindKey, RedisUnavailable, LookupAudit, LookupFailure, Enqueue,
              EnqueueFails, ApiCrash, Answer, TypeOK
<1>2. ASSUME Api(r) PROVE queue'[<<r, 0>>] > 0
  <2>1. Enqueue(r)
    BY <1>2 DEF Api, TakeKey, FindKey, RedisUnavailable, LookupAudit, LookupFailure,
                EnqueueFails, ApiCrash, KeysAreSafe, TasksAreKept
  <2>2. QED
    BY <1>m, <2>1 DEF Enqueue, TypeOK
<1>3. ASSUME NEW w \in Worker, Work(w) PROVE pc' = pc
  BY <1>3 DEF Work, Fetch, FetchInVain, Take, Insert, InsertFails, TakenForDuplicate,
              ScoringFails, Act, Explain,
              DispatchFails,
              FreeKey, WriteSentinel, Ack, apiVars
<1>4. QED
  BY <1>1, <1>2, <1>3, <1>m DEF Next, KeyExpires, WorkerCrash, ConnectionLost, Quiescent, vars,
                                apiVars

\* A step of a worker other than Fetch only adds messages, and a retry is one of
\* its own task, unless the broker fails.
LEMMA CatchQueues ==
  ASSUME TypeOK, NEW w \in Worker, at[w] # "idle", CatchException(w)
  PROVE  /\ \A m \in Message : queue'[m] >= queue[m]
         /\ \/ at'[w] = "free"
            \/ \E m \in Message : m[1] = Task(w) /\ queue'[m] > 0
            \/ "broker_error" \in Env
<1>1. Task(w) \in Request /\ Retries(w) \in 0..MaxRetries
  BY WorkerTask
<1>2. queue \in [Message -> Nat] /\ at \in [Worker -> WorkerPC]
  BY DEF TypeOK
<1>3. CASE Goto(w, "free") /\ UNCHANGED queue
  BY <1>2, <1>3 DEF Goto
<1>4. CASE /\ Retries(w) < MaxRetries
           /\ queue' = [queue EXCEPT ![<<Task(w), Retries(w) + 1>>] = @ + 1]
  <2> DEFINE n == <<Task(w), Retries(w) + 1>>
  <2>1. n \in Message /\ n[1] = Task(w)
    BY <1>1, <1>4, ConstantAssumption DEF Message
  <2>2. queue'[n] > 0 /\ \A m \in Message : queue'[m] >= queue[m]
    BY <1>2, <1>4, <2>1
  <2>3. QED
    BY <2>1, <2>2
<1>5. CASE "broker_error" \in Env /\ UNCHANGED queue
  BY <1>2, <1>5
<1>6. QED
  BY <1>3, <1>4, <1>5 DEF CatchException

\* A queued message stays queued until a worker is scoring it, whatever fails but
\* the store of its state STARTED.
LEMMA QueueStep ==
  ASSUME TypeOK, "state_error" \notin Env, [Next]_vars, NEW m \in Message, queue[m] > 0
  PROVE  queue'[m] > 0 \/ \E w \in Worker : at'[w] = "score" /\ msg'[w] = m
<1>t. queue \in [Message -> Nat] /\ at \in [Worker -> WorkerPC]
      /\ msg \in [Worker -> Message \union {NoMessage}]
  BY DEF TypeOK
<1>1. ASSUME NEW r \in Request, Api(r) PROVE queue'[m] > 0
  <2>1. <<r, 0>> \in Message
    BY ConstantAssumption DEF Message
  <2>2. CASE UNCHANGED queue \/ queue' = [queue EXCEPT ![<<r, 0>>] = @ + 1]
    BY <1>t, <2>1, <2>2
  <2>3. QED
    BY <1>1, <2>2 DEF Api, TakeKey, FindKey, RedisUnavailable, LookupAudit, LookupFailure,
                      Enqueue, EnqueueFails, ApiCrash
<1>2. ASSUME NEW w \in Worker, Work(w)
      PROVE  queue'[m] > 0 \/ (at'[w] = "score" /\ msg'[w] = m)
  <2>1. ASSUME NEW n \in Message, Fetch(w, n)
        PROVE  queue'[m] > 0 \/ (at'[w] = "score" /\ msg'[w] = m)
    <3>1. CASE n = m
      BY <1>t, <2>1, <3>1 DEF Fetch, Take, Goto
    <3>2. CASE n # m
      <4>1. queue' = [queue EXCEPT ![n] = @ - 1]
        BY <2>1 DEF Fetch, Take
      <4>2. queue'[m] = queue[m]
        BY <1>t, <3>2, <4>1
      <4>3. QED
        BY <4>2
    <3>3. QED
      BY <3>1, <3>2
  <2>2. ASSUME at[w] # "idle", CatchException(w) PROVE queue'[m] > 0
    <3>1. queue'[m] >= queue[m] /\ queue'[m] \in Nat
      BY <2>2, CatchQueues, CatchTyped
    <3>2. QED
      BY <1>t, <3>1
  <2>3. ASSUME UNCHANGED queue PROVE queue'[m] > 0
    BY <2>3
  <2>4. QED
    BY <1>2, <2>1, <2>2, <2>3 DEF Work, FetchInVain, Insert, InsertFails, TakenForDuplicate,
                                  ScoringFails, Act, Explain,
                                  DispatchFails, FreeKey, WriteSentinel, Ack
<1>3. ASSUME NEW w \in Worker, WorkerCrash(w) \/ ConnectionLost(w) PROVE queue'[m] > 0
  <2>1. msg[w] \in Message /\ queue' = [queue EXCEPT ![msg[w]] = @ + 1]
    BY <1>3 DEF WorkerCrash, ConnectionLost, Redeliver, TypeOK
  <2>2. QED
    BY <1>t, <2>1
<1>4. QED
  BY <1>1, <1>2, <1>3 DEF Next, KeyExpires, Quiescent, vars

\* The message of a worker that dies is in the queue again.
LEMMA CrashQueues ==
  ASSUME TypeOK, NEW w \in Worker, WorkerCrash(w)
  PROVE  \E m \in Message : m[1] = Task(w) /\ queue'[m] > 0
<1>1. /\ msg[w] \in Message /\ Task(w) = msg[w][1]
      /\ queue' = [queue EXCEPT ![msg[w]] = @ + 1]
  BY DEF TypeOK, Task, WorkerCrash, Redeliver
<1>2. queue'[msg[w]] > 0
  BY <1>1 DEF TypeOK
<1>3. QED
  BY <1>1, <1>2

\* Where a step takes a worker that has neither a row nor a failure to show yet.
LEMMA PlaceStep ==
  ASSUME TypeOK, TasksAreKept, [Next]_vars, NEW w \in Worker, at[w] \in BeforeRecord
  PROVE  \/ at'[w] = at[w] /\ msg'[w] = msg[w]
         \/ audit'[EventOf(w)] # NoTier
         \/ \E m \in Message : m[1] = Task(w) /\ queue'[m] > 0
         \/ at[w] = "score" /\ at'[w] = "free" /\ msg'[w] = msg[w]
         \/ at[w] = "free" /\ FreeKey(w)
         \/ at[w] = "sentinel" /\ WriteSentinel(w)
<1>t. at[w] # "idle" /\ EventOf(w) \in Event /\ audit \in [Event -> Tier \union {NoTier}]
  BY WorkerTask DEF BeforeRecord, TypeOK
<1>1. CASE at[w] = "score" /\ Work(w)
  <2>1. ASSUME NEW tier \in Tier, Insert(w, tier) \/ InsertFails(w, tier)
        PROVE  audit'[EventOf(w)] # NoTier
    BY <1>t, <2>1 DEF Insert, InsertFails, Tier, NoTier
  <2>2. ASSUME ScoringFails(w)
        PROVE  \/ at'[w] = "free" /\ msg'[w] = msg[w]
               \/ \E m \in Message : m[1] = Task(w) /\ queue'[m] > 0
    BY <1>t, <2>2, CatchQueues DEF ScoringFails, TasksAreKept
  <2>3. ASSUME NEW tier \in Tier PROVE ~TakenForDuplicate(w, tier)
    BY DEF TakenForDuplicate, TasksAreKept
  <2>4. QED
    BY <1>1, <2>1, <2>2, <2>3 DEF Work, Fetch, FetchInVain, Take, Act, Explain, DispatchFails,
                                  FreeKey, WriteSentinel, Ack
<1>2. CASE at[w] = "free" /\ Work(w)
  BY <1>2 DEF Work, Fetch, FetchInVain, Take, Insert, InsertFails, TakenForDuplicate,
              ScoringFails, Act, Explain,
              DispatchFails, FreeKey, WriteSentinel, Ack
<1>3. CASE at[w] = "sentinel" /\ Work(w)
  BY <1>3 DEF Work, Fetch, FetchInVain, Take, Insert, InsertFails, TakenForDuplicate,
              ScoringFails, Act, Explain,
              DispatchFails, FreeKey, WriteSentinel, Ack
<1>4. QED
  BY <1>t, <1>1, <1>2, <1>3, OwnStep, CrashQueues DEF BeforeRecord

\* Work on an event goes on until the event is audited, its key released, or
\* its failure recorded.
LEMMA WorkGoesOn ==
  ASSUME IInv, TypeOK', KeysAreSafe, [Next]_vars, NEW e \in Event,
         NEW places \in {BeforeRelease, BeforeRecord}, LiveWork(e, places),
         places = BeforeRelease => "delete_error" \notin Env
  PROVE  \/ LiveWork(e, places)'
         \/ audit'[e] # NoTier
         \/ places = BeforeRelease /\ e \notin dedup'
         \/ places = BeforeRecord /\ ("db_error" \in Env \/ failures'[e] # NoTask)
<1>t. TypeOK /\ event' = event
  BY Stable DEF IInv
<1>1. ASSUME NEW r \in Request, event[r] = e, pc[r] = "enqueue" PROVE LiveWork(e, places)'
  <2>1. CASE pc'[r] = "enqueue"
    BY <1>1, <1>t, <2>1 DEF LiveWork
  <2>2. CASE <<r, 0>> \in Message /\ queue'[<<r, 0>>] > 0
    BY <1>1, <1>t, <2>2 DEF LiveWork
  <2>3. QED
    BY <1>1, <1>t, <2>1, <2>2, EnqueueStep
<1>q. ASSUME NEW m \in Message, event[m[1]] = e, queue'[m] > 0 PROVE LiveWork(e, places)'
  BY <1>q, <1>t DEF LiveWork
<1>2. ASSUME NEW m \in Message, event[m[1]] = e, queue[m] > 0 PROVE LiveWork(e, places)'
  <2>1. ASSUME NEW w \in Worker, at'[w] = "score", msg'[w] = m PROVE LiveWork(e, places)'
    <3>1. EventOf(w)' = e /\ at'[w] \in places
      BY <1>2, <1>t, <2>1 DEF EventOf, Task, BeforeRelease, BeforeRecord
    <3>2. QED
      BY <3>1 DEF LiveWork
  <2>2. QED
    BY <1>2, <1>t, <1>q, <2>1, QueueStep DEF KeysAreSafe, TasksAreKept
<1>3. ASSUME NEW w \in Worker, at[w] \in places, EventOf(w) = e
      PROVE  \/ LiveWork(e, places)'
             \/ audit'[e] # NoTier
             \/ places = BeforeRelease /\ e \notin dedup'
             \/ places = BeforeRecord /\ ("db_error" \in Env \/ failures'[e] # NoTask)
  <2>0. at[w] \in BeforeRecord /\ Task(w) \in Request
    BY <1>3, <1>t, WorkerTask DEF BeforeRelease, BeforeRecord
  <2>1. ASSUME at'[w] \in places, msg'[w] = msg[w] PROVE LiveWork(e, places)'
    <3>1. EventOf(w)' = e
      BY <1>3, <1>t, <2>1 DEF EventOf, Task
    <3>2. QED
      BY <2>1, <3>1 DEF LiveWork
  <2>2. ASSUME NEW m \in Message, m[1] = Task(w), queue'[m] > 0 PROVE LiveWork(e, places)'
    BY <1>3, <1>q, <2>2 DEF EventOf
  <2>3. CASE at[w] = "free" /\ FreeKey(w)
    <3>1. at' = [at EXCEPT ![w] = "sentinel"] /\ msg' = msg
      BY <2>3 DEF FreeKey, Goto
    <3>2. CASE places = BeforeRelease
      BY <1>3, <2>3, <3>2 DEF FreeKey
    <3>3. CASE places = BeforeRecord
      BY <1>t, <2>1, <3>1, <3>3 DEF BeforeRecord, TypeOK
    <3>4. QED
      BY <3>2, <3>3
  <2>4. CASE at[w] = "sentinel" /\ WriteSentinel(w)
    <3>1. places = BeforeRecord
      BY <1>3, <2>4 DEF BeforeRelease
    <3>2. failures'[e] # NoTask \/ "db_error" \in Env
      BY <1>3, <1>t, <2>0, <2>4, ConstantAssumption DEF WriteSentinel, TypeOK
    <3>3. QED
      BY <3>1, <3>2
  <2>5. CASE at[w] = "score" /\ at'[w] = "free" /\ msg'[w] = msg[w]
    BY <2>1, <2>5 DEF BeforeRelease, BeforeRecord
  <2>6. QED
    BY <1>3, <1>t, <2>0, <2>1, <2>2, <2>3, <2>4, <2>5, PlaceStep DEF KeysAreSafe
<1>4. QED
  BY <1>1, <1>2, <1>3 DEF LiveWork

-----------------------------------------------------------------------------
(* The key.                                                                 *)

LEMMA KeyInit == Init => KeyInv
BY DEF Init, KeyInv

\* Where Redis answers, only TakeKey sets a key, on the way to the queue.
LEMMA NewKey ==
  ASSUME TypeOK, KeysAreSafe, [Next]_vars, NEW e \in dedup' \ dedup
  PROVE  \E r \in Request : pc'[r] = "enqueue" /\ event'[r] = e
<1>1. PICK r \in Request : TakeKey(r) /\ event[r] = e
  <2>1. ASSUME NEW r \in Request, Api(r) PROVE TakeKey(r) /\ event[r] = e
    BY <2>1 DEF Api, TakeKey, FindKey, RedisUnavailable, LookupAudit, LookupFailure,
                Enqueue, EnqueueFails, ApiCrash, KeysAreSafe, TasksAreKept
  <2>2. ASSUME NEW w \in Worker, Work(w) PROVE dedup' \subseteq dedup
    BY <2>2 DEF Work, Fetch, FetchInVain, Take, Insert, InsertFails, TakenForDuplicate,
                ScoringFails, Act, Explain,
                DispatchFails, FreeKey, WriteSentinel, Ack
  <2>3. QED
    BY <2>1, <2>2 DEF Next, KeyExpires, WorkerCrash, ConnectionLost, Quiescent, vars
<1>2. pc'[r] = "enqueue" /\ event'[r] = e
  BY <1>1, Stable DEF TakeKey, Answer, TypeOK
<1>3. QED
  BY <1>2

LEMMA KeyNext ==
  ASSUME IInv, TypeOK', KeysAreSafe, "delete_error" \notin Env, KeyInv, [Next]_vars
  PROVE  KeyInv'
<1> SUFFICES ASSUME NEW e \in dedup' PROVE audit'[e] # NoTier \/ LiveWork(e, BeforeRelease)'
  BY DEF KeyInv
<1>t. TypeOK /\ e \in Event
  BY DEF IInv, TypeOK
<1>1. CASE e \in dedup
  <2>1. audit[e] # NoTier \/ LiveWork(e, BeforeRelease)
    BY <1>1 DEF KeyInv
  <2>2. QED
    <3>1. BeforeRelease # BeforeRecord
      BY DEF BeforeRelease, BeforeRecord
    <3>2. CASE audit[e] # NoTier
      BY <1>t, <3>2, Stable
    <3>3. CASE LiveWork(e, BeforeRelease)
      BY <1>t, <3>1, <3>3, WorkGoesOn
    <3>4. QED
      BY <2>1, <3>2, <3>3
<1>2. CASE e \notin dedup
  BY <1>t, <1>2, NewKey DEF LiveWork
<1>3. QED
  BY <1>1, <1>2

\* Without failures of Redis or the broker, misread errors and a crash of the
\* API, a deduplication key never shuts out an order that nobody is scoring.
THEOREM KeysAreBacked == KeysAreSafe /\ "delete_error" \notin Env => (Spec => []NoBlackhole)
<1> SUFFICES ASSUME KeysAreSafe, "delete_error" \notin Env PROVE Spec => []NoBlackhole
  OBVIOUS
<1>1. IInv /\ TypeOK' /\ KeyInv /\ [Next]_vars => KeyInv'
  BY KeyNext
<1>2. TypeOK /\ KeyInv => NoBlackhole
  BY DEF KeyInv, NoBlackhole, LiveWork, Pending, BeforeRelease, WorkerPC
<1>3. QED
  BY KeyInit, <1>1, <1>2, Invariant, TypeCorrect, PTL DEF Spec

-----------------------------------------------------------------------------
(* The answer to a duplicate.                                               *)

LEMMA DuplicateInit == Init => FailedKeyInv /\ DuplicateInv
BY DEF Init, FailedKeyInv, DuplicateInv

LEMMA FailuresStay ==
  ASSUME TypeOK, [Next]_vars, NEW e \in Event, failures[e] # NoTask
  PROVE  failures'[e] # NoTask
<1>1. ASSUME NEW r \in Request, Api(r) PROVE UNCHANGED failures
  BY <1>1 DEF Api, TakeKey, FindKey, RedisUnavailable, LookupAudit, LookupFailure,
              Enqueue, EnqueueFails, ApiCrash
<1>2. ASSUME NEW w \in Worker, Work(w), failures' # failures PROVE failures'[e] = failures[e]
  BY <1>2 DEF TypeOK, Work, Fetch, FetchInVain, Take, Insert, InsertFails, TakenForDuplicate,
              ScoringFails, Act, Explain,
              DispatchFails, FreeKey, WriteSentinel, Ack
<1>3. QED
  BY <1>1, <1>2 DEF Next, KeyExpires, WorkerCrash, ConnectionLost, Quiescent, vars

LEMMA FailedKeyNext ==
  ASSUME IInv, TypeOK', KeysAreSafe, "db_error" \notin Env, FailedKeyInv, [Next]_vars
  PROVE  FailedKeyInv'
<1> SUFFICES ASSUME NEW e \in dedup'
             PROVE  audit'[e] # NoTier \/ failures'[e] # NoTask \/ LiveWork(e, BeforeRecord)'
  BY DEF FailedKeyInv
<1>t. TypeOK /\ e \in Event
  BY DEF IInv, TypeOK
<1>1. CASE e \notin dedup
  BY <1>t, <1>1, NewKey DEF LiveWork
<1>2. CASE e \in dedup
  <2>1. audit[e] # NoTier \/ failures[e] # NoTask \/ LiveWork(e, BeforeRecord)
    BY <1>2 DEF FailedKeyInv
  <2>2. BeforeRelease # BeforeRecord
    BY DEF BeforeRelease, BeforeRecord
  <2>3. QED
    BY <1>t, <2>1, <2>2, Stable, FailuresStay, WorkGoesOn
<1>3. QED
  BY <1>1, <1>2

LEMMA DuplicateNext ==
  ASSUME IInv, TypeOK', KeysAreSafe, "db_error" \notin Env, FailedKeyInv, DuplicateInv,
         [Next]_vars
  PROVE  DuplicateInv'
<1> SUFFICES ASSUME NEW r \in Request, pc'[r] \in {"lookupAudit", "lookupFailure"}
             PROVE  \/ audit'[event'[r]] # NoTier
                    \/ failures'[event'[r]] # NoTask
                    \/ LiveWork(event[r], BeforeRecord)'
  BY Stable DEF DuplicateInv, IInv
<1> DEFINE e == event[r]
<1>t. TypeOK /\ e \in Event /\ event' = event
  BY Stable DEF IInv, TypeOK
<1>1. audit[e] # NoTier \/ failures[e] # NoTask \/ LiveWork(e, BeforeRecord)
  <2>1. CASE pc[r] \in {"lookupAudit", "lookupFailure"}
    BY <2>1 DEF DuplicateInv
  <2>2. CASE pc[r] \notin {"lookupAudit", "lookupFailure"}
    <3>1. FindKey(r)
      <4>1. ASSUME NEW q \in Request, Api(q) PROVE FindKey(r)
        BY <1>t, <2>2, <4>1 DEF Api, TakeKey, FindKey, RedisUnavailable, LookupAudit,
              LookupFailure, Enqueue, EnqueueFails, ApiCrash, Answer, TypeOK
      <4>2. ASSUME NEW w \in Worker, Work(w) PROVE UNCHANGED pc
        BY <4>2 DEF Work, Fetch, FetchInVain, Take, Insert, InsertFails, TakenForDuplicate,
                    ScoringFails, Act, Explain,
                    DispatchFails,
                    FreeKey, WriteSentinel, Ack, apiVars
      <4>3. QED
        BY <2>2, <4>1, <4>2
           DEF Next, KeyExpires, WorkerCrash, ConnectionLost, Quiescent, vars, apiVars
    <3>2. QED
      BY <3>1 DEF FindKey, FailedKeyInv
  <2>3. QED
    BY <2>1, <2>2
<1>2. CASE audit[e] # NoTier
  BY <1>t, <1>2, Stable
<1>3. CASE failures[e] # NoTask
  BY <1>t, <1>3, FailuresStay
<1>4. CASE LiveWork(e, BeforeRecord)
  <2>1. BeforeRelease # BeforeRecord
    BY DEF BeforeRelease, BeforeRecord
  <2>2. QED
    BY <1>t, <1>4, <2>1, WorkGoesOn
<1>5. QED
  BY <1>1, <1>2, <1>3, <1>4

LEMMA DuplicateAnswered ==
  ASSUME TypeOK, "db_error" \notin Env, DuplicateInv, [Next]_vars, NEW r \in Request,
         pc[r] # "processing", pc'[r] = "processing"
  PROVE  audit[event[r]] # NoTier \/ Pending(event[r])
<1>1. pc[r] = "lookupFailure" /\ failures[event[r]] = NoTask
  <2>1. ASSUME NEW q \in Request, Api(q)
        PROVE  pc[r] = "lookupFailure" /\ failures[event[r]] = NoTask
    BY <2>1 DEF Api, TakeKey, FindKey, RedisUnavailable, LookupAudit, LookupFailure, Enqueue,
                EnqueueFails, ApiCrash, Answer, TypeOK
  <2>2. ASSUME NEW w \in Worker, Work(w) PROVE UNCHANGED pc
    BY <2>2 DEF Work, Fetch, FetchInVain, Take, Insert, InsertFails, TakenForDuplicate,
                ScoringFails, Act, Explain,
                DispatchFails,
                FreeKey, WriteSentinel, Ack, apiVars
  <2>3. QED
    BY <2>1, <2>2 DEF Next, KeyExpires, WorkerCrash, ConnectionLost, Quiescent, vars, apiVars
<1>2. audit[event[r]] # NoTier \/ LiveWork(event[r], BeforeRecord)
  BY <1>1 DEF DuplicateInv
<1>3. LiveWork(event[r], BeforeRecord) => Pending(event[r])
  BY DEF LiveWork, Pending, BeforeRecord, WorkerPC
<1>4. QED
  BY <1>2, <1>3

\* Where Postgres answers too, a duplicate that is told "processing" is told the
\* truth: the order is being scored, or has just been.  This holds although the
\* delete of a key may fail.
THEOREM DuplicatesLearnTheTruth ==
  KeysAreSafe /\ "db_error" \notin Env => (Spec => ProcessingIsTrue)
<1> SUFFICES ASSUME KeysAreSafe, "db_error" \notin Env PROVE Spec => ProcessingIsTrue
  OBVIOUS
<1>1. IInv /\ TypeOK' /\ FailedKeyInv /\ [Next]_vars => FailedKeyInv'
  BY FailedKeyNext
<1>2. IInv /\ TypeOK' /\ FailedKeyInv /\ DuplicateInv /\ [Next]_vars => DuplicateInv'
  BY DuplicateNext
<1>3. TypeOK /\ DuplicateInv /\ [Next]_vars =>
        [\A r \in Request : pc[r] # "processing" /\ pc'[r] = "processing"
           => audit[event[r]] # NoTier \/ Pending(event[r])]_vars
  BY DuplicateAnswered
<1>4. QED
  BY DuplicateInit, <1>1, <1>2, <1>3, Invariant, TypeCorrect, PTL
     DEF Spec, ProcessingIsTrue

-----------------------------------------------------------------------------
(* What follows an accepted order.  A 202 is backed by the task itself, so  *)
(* errors of the deduplication keys and deaths of the API do no harm here;  *)
(* an error of Redis as the result backend does, before the task starts.    *)

\* An answer "accepted" stays, and only Enqueue gives it.
LEMMA AcceptedStep ==
  ASSUME TypeOK, [Next]_vars, NEW r \in Request
  PROVE  pc[r] # "accepted" /\ pc'[r] = "accepted" => Enqueue(r)
<1> SUFFICES ASSUME pc[r] # "accepted", pc'[r] = "accepted" PROVE Enqueue(r)
  OBVIOUS
<1>1. ASSUME NEW q \in Request, Api(q) PROVE Enqueue(r)
  BY <1>1 DEF Api, TakeKey, FindKey, RedisUnavailable, LookupAudit, LookupFailure,
              EnqueueFails, ApiCrash, Enqueue, Answer, TypeOK
<1>2. ASSUME NEW w \in Worker, Work(w) PROVE UNCHANGED pc
  BY <1>2 DEF Work, Fetch, FetchInVain, Take, Insert, InsertFails, TakenForDuplicate,
              ScoringFails, Act, Explain,
              DispatchFails, FreeKey, WriteSentinel, Ack, apiVars
<1>3. QED
  BY <1>1, <1>2 DEF Next, KeyExpires, WorkerCrash, ConnectionLost, Quiescent, vars, apiVars

\* A request that is told "accepted" has its message in the queue.
LEMMA AcceptedIsQueued ==
  ASSUME TypeOK, [Next]_vars, NEW r \in Request, pc[r] # "accepted", pc'[r] = "accepted"
  PROVE  \E m \in Message : m[1] = r /\ queue'[m] > 0
<1>1. <<r, 0>> \in Message
  BY ConstantAssumption DEF Message
<1>2. Enqueue(r)
  BY AcceptedStep
<1>3. queue'[<<r, 0>>] > 0
  BY <1>1, <1>2 DEF Enqueue, TypeOK
<1>4. QED
  BY <1>1, <1>3

\* A task before its last word goes on, unless it writes a row or its failure.
LEMMA TaskGoesOn ==
  ASSUME TypeOK, TasksAreKept, "db_error" \notin Env, [Next]_vars, NEW t \in Request,
         TaskInHand(t, BeforeRecord)
  PROVE  \/ TaskInHand(t, BeforeRecord)'
         \/ audit'[event[t]] # NoTier
         \/ failures'[event[t]] # NoTask
<1>1. ASSUME NEW m \in Message, m[1] = t, queue[m] > 0 PROVE TaskInHand(t, BeforeRecord)'
  <2>1. ASSUME NEW w \in Worker, at'[w] = "score", msg'[w] = m PROVE TaskInHand(t, BeforeRecord)'
    BY <1>1, <2>1 DEF TaskInHand, Task, BeforeRecord
  <2>2. QED
    BY <1>1, <2>1, QueueStep DEF TaskInHand, TasksAreKept
<1>2. ASSUME NEW w \in Worker, at[w] \in BeforeRecord, Task(w) = t
      PROVE  \/ TaskInHand(t, BeforeRecord)'
             \/ audit'[event[t]] # NoTier
             \/ failures'[event[t]] # NoTask
  <2>1. ASSUME at'[w] \in BeforeRecord, msg'[w] = msg[w] PROVE TaskInHand(t, BeforeRecord)'
    BY <1>2, <2>1 DEF TaskInHand, Task
  <2>2. CASE at[w] = "free" /\ FreeKey(w)
    BY <2>1, <2>2 DEF FreeKey, Goto, TypeOK, BeforeRecord
  <2>3. CASE at[w] = "sentinel" /\ WriteSentinel(w)
    BY <1>2, <2>3, ConstantAssumption DEF WriteSentinel, EventOf, TypeOK
  <2>4. QED
    BY <1>2, <2>1, <2>2, <2>3, PlaceStep DEF TaskInHand, BeforeRecord, EventOf
<1>3. QED
  BY <1>1, <1>2 DEF TaskInHand

LEMMA BackedNext ==
  ASSUME TypeOK, TasksAreKept, "db_error" \notin Env, AcceptedIsBacked, [Next]_vars
  PROVE  AcceptedIsBacked'
<1> SUFFICES ASSUME NEW r \in Request, pc'[r] = "accepted"
             PROVE  \/ audit'[event'[r]] # NoTier
                    \/ failures'[event'[r]] # NoTask
                    \/ TaskInHand(r, BeforeRecord)'
  BY DEF AcceptedIsBacked, BeforeRecord
<1>1. event' = event /\ event[r] \in Event
  BY Stable DEF TypeOK
<1>2. CASE pc[r] # "accepted"
  BY <1>2, AcceptedIsQueued DEF TaskInHand
<1>3. CASE pc[r] = "accepted"
  <2>1. \/ audit[event[r]] # NoTier
        \/ failures[event[r]] # NoTask
        \/ TaskInHand(r, BeforeRecord)
    BY <1>3 DEF AcceptedIsBacked, BeforeRecord
  <2>2. QED
    BY <1>1, <2>1, Stable, FailuresStay, TaskGoesOn
<1>4. QED
  BY <1>2, <1>3

\* Where the broker, the result backend and Postgres answer, no accepted order is
\* ever dropped, whichever worker dies, however often its message is delivered,
\* its key expires or cannot be set or deleted: it has a row, a recorded failure,
\* or its own task still before its last word.
THEOREM AcceptedIsNeverDropped ==
  TasksAreKept /\ "db_error" \notin Env => (Spec => []AcceptedIsBacked)
<1> SUFFICES ASSUME TasksAreKept, "db_error" \notin Env PROVE Spec => []AcceptedIsBacked
  OBVIOUS
<1>1. Init => AcceptedIsBacked
  BY DEF Init, AcceptedIsBacked
<1>2. TypeOK /\ AcceptedIsBacked /\ [Next]_vars => AcceptedIsBacked'
  BY BackedNext
<1>3. QED
  BY <1>1, <1>2, TypeCorrect, PTL DEF Spec

\* Nothing is queued and no worker has a message.
AtRest == (\A m \in Message : queue[m] = 0) /\ (\A w \in Worker : at[w] = "idle")

\* The safety half of AcceptedIsSettled: when the pipeline comes to rest, each
\* accepted order has its row or is shown to operators as not recovered.
THEOREM RestIsSettled ==
  TasksAreKept /\ "db_error" \notin Env =>
    (Spec => [](AtRest => \A r \in Request : pc[r] = "accepted" =>
                            audit[event[r]] # NoTier \/ event[r] \in Unrecovered))
<1> SUFFICES ASSUME TasksAreKept, "db_error" \notin Env
             PROVE  Spec => [](AtRest => \A r \in Request : pc[r] = "accepted" =>
                                 audit[event[r]] # NoTier \/ event[r] \in Unrecovered)
  OBVIOUS
<1>1. TypeOK /\ AcceptedIsBacked =>
        (AtRest => \A r \in Request : pc[r] = "accepted" =>
                     audit[event[r]] # NoTier \/ event[r] \in Unrecovered)
  BY DEF AtRest, AcceptedIsBacked, TaskInHand, Unrecovered, TypeOK
<1>2. Spec => []AcceptedIsBacked
  BY AcceptedIsNeverDropped
<1>3. QED
  BY <1>1, <1>2, TypeCorrect, PTL

-----------------------------------------------------------------------------
(* Polling.  A poll changes nothing of the pipeline, so PollSpec has every  *)
(* property of Spec.                                                        *)

LEMMA PollStep == [PollNext]_allVars => [Next]_vars
BY DEF PollNext, Poll, PollAudit, PollFailure, PollCelery, allVars

\* GET only reads: with any number of clients polling, the pipeline does what
\* it does without them.
THEOREM PollingReadsOnly == PollSpec => Spec
<1>1. PollInit => Init
  BY DEF PollInit
<1>2. QED
  BY <1>1, PollStep, PTL DEF PollSpec, Spec

LEMMA PollTypedNext == PollTypeOK /\ [PollNext]_allVars => PollTypeOK'
<1> SUFFICES ASSUME PollTypeOK, [PollNext]_allVars PROVE PollTypeOK'
  OBVIOUS
<1>1. TypeOK'
  BY PollStep, NextTyped DEF PollTypeOK
<1>2. CASE UNCHANGED pollVars
  BY <1>1, <1>2 DEF pollVars, PollTypeOK
<1>3. ASSUME NEW p \in Poller, Poll(p) PROVE PollTypeOK'
  <2>1. UNCHANGED <<target, hasId>>
    BY <1>3 DEF Poll, PollAudit, PollFailure, PollCelery
  <2>2. step' \in [Poller -> {"idle", "failure", "celery"}]
    BY <1>3 DEF Poll, PollAudit, PollFailure, PollCelery, Return, Continue, PollTypeOK
  <2>3. last' \in [Poller -> PollAnswer \union {"none"}]
    BY <1>3 DEF Poll, PollAudit, PollFailure, PollCelery, Return, Continue, PollTypeOK,
                PollAnswer
  <2>4. QED
    BY <1>1, <2>1, <2>2, <2>3 DEF PollTypeOK
<1>4. QED
  BY <1>2, <1>3 DEF PollNext, allVars

\* The states of PollSpec are well typed.
THEOREM PollTypeCorrect == PollSpec => []PollTypeOK
<1>1. PollInit => PollTypeOK
  BY InitTyped DEF PollInit, PollTypeOK
<1>2. QED
  BY <1>1, PollTypedNext, PTL DEF PollSpec

\* What is behind the latest answer of each client, and what its current call
\* can therefore not have found.
RowBehindAnswer ==
  \A p \in Poller :
    /\ last[p] = "complete" => step[p] = "idle" /\ Scored(p)
    /\ last[p] = "failed" => step[p] # "celery" /\ failures[TargetEvent(p)] # NoTask

\* What the steps of the pipeline never take back.
LEMMA RowsStay ==
  ASSUME PollTypeOK, [PollNext]_allVars, UNCHANGED target, NEW p \in Poller
  PROVE  /\ TargetEvent(p)' = TargetEvent(p)
         /\ Scored(p) => Scored(p)'
         /\ failures[TargetEvent(p)] # NoTask => failures'[TargetEvent(p)] # NoTask
<1>1. TypeOK /\ [Next]_vars /\ TargetEvent(p) \in Event
  BY PollStep DEF PollTypeOK, TypeOK, TargetEvent
<1>2. TargetEvent(p)' = TargetEvent(p)
  BY <1>1, Stable DEF TargetEvent
<1>3. QED
  BY <1>1, <1>2, Stable, FailuresStay DEF Scored

\* One call of GET, by the client's own record: the other clients are not
\* touched, and its answer is one its latest answer allows.
LEMMA PollOfOne ==
  ASSUME PollTypeOK, RowBehindAnswer, NEW q \in Poller, Poll(q), NEW p \in Poller
  PROVE  /\ last[p] = "complete" => last'[p] \in {"complete", "unavailable"}
         /\ last[p] = "failed" => last'[p] \in {"failed", "complete", "unavailable"}
         /\ last'[p] = "complete" => step'[p] = "idle" /\ Scored(p)
         /\ last'[p] = "failed" => step'[p] # "celery" /\ failures[TargetEvent(p)] # NoTask
<1>t. step \in [Poller -> {"idle", "failure", "celery"}]
      /\ last \in [Poller -> PollAnswer \union {"none"}]
  BY DEF PollTypeOK
<1>1. CASE p # q
  <2>1. last'[p] = last[p] /\ step'[p] = step[p]
    BY <1>t, <1>1 DEF Poll, PollAudit, PollFailure, PollCelery, Return, Continue
  <2>2. QED
    BY <2>1 DEF RowBehindAnswer
<1>2. CASE p = q /\ PollAudit(p)
  BY <1>t, <1>2 DEF PollAudit, Return, Continue, RowBehindAnswer
<1>3. CASE p = q /\ PollFailure(p)
  BY <1>t, <1>3 DEF PollFailure, Return, Continue, RowBehindAnswer
<1>4. CASE p = q /\ PollCelery(p)
  BY <1>t, <1>4 DEF PollCelery, Return, RowBehindAnswer
<1>5. QED
  BY <1>1, <1>2, <1>3, <1>4 DEF Poll

LEMMA RowBehindNext ==
  ASSUME PollTypeOK, RowBehindAnswer, [PollNext]_allVars
  PROVE  RowBehindAnswer'
<1> SUFFICES ASSUME NEW p \in Poller
             PROVE  /\ last'[p] = "complete" => step'[p] = "idle" /\ Scored(p)'
                    /\ last'[p] = "failed" =>
                         step'[p] # "celery" /\ failures'[TargetEvent(p)'] # NoTask
  BY DEF RowBehindAnswer
<1>1. UNCHANGED target
  BY DEF PollNext, Poll, PollAudit, PollFailure, PollCelery, pollVars, allVars
<1>2. CASE UNCHANGED <<step, last>>
  BY <1>1, <1>2, RowsStay DEF RowBehindAnswer
<1>3. ASSUME NEW q \in Poller, Poll(q)
      PROVE  /\ last'[p] = "complete" => step'[p] = "idle" /\ Scored(p)'
             /\ last'[p] = "failed" =>
                  step'[p] # "celery" /\ failures'[TargetEvent(p)'] # NoTask
  BY <1>1, <1>3, PollOfOne, RowsStay
<1>4. QED
  BY <1>2, <1>3 DEF PollNext, pollVars, allVars

\* An answer with a row behind it is never taken back, whatever fails, although
\* a call reads the two tables one after the other while the workers write.
THEOREM AnswersStay == PollSpec => AnswersNeverRegress
<1>1. PollInit => RowBehindAnswer
  BY DEF PollInit, RowBehindAnswer
<1>2. PollTypeOK /\ RowBehindAnswer /\ [PollNext]_allVars => RowBehindAnswer'
  BY RowBehindNext
<1>3. PollTypeOK /\ RowBehindAnswer /\ [PollNext]_allVars =>
        [\A p \in Poller :
           /\ last[p] = "complete" => last'[p] \in {"complete", "unavailable"}
           /\ last[p] = "failed" => last'[p] \in {"failed", "complete", "unavailable"}]_allVars
  BY PollOfOne DEF PollNext, pollVars
<1>4. QED
  BY <1>1, <1>2, <1>3, PollTypeCorrect, PTL DEF PollSpec, AnswersNeverRegress

-----------------------------------------------------------------------------
(* The Celery state.  FAILURE may be overwritten, by the worker of a copy   *)
(* delivered a second time, so it says nothing of the task for good; what   *)
(* is always true is that a task without an end state has not been let go.  *)

Busy == WorkerPC \ {"idle", "ack"}
EndState == {"SUCCESS", "FAILURE"}

\* What the client's task may be in when its state is read.
StateInv ==
  \A r \in Request : pc[r] = "accepted" => result[r] \in EndState \/ TaskInHand(r, Busy)

PolledInv == \A p \in Poller : step[p] # "idle" => pc[target[p]] = "accepted"

LEMMA AcceptedStays ==
  ASSUME TypeOK, [Next]_vars, NEW r \in Request, pc[r] = "accepted"
  PROVE  pc'[r] = "accepted"
<1>1. ASSUME NEW q \in Request, Api(q) PROVE pc'[r] = "accepted"
  BY <1>1 DEF Api, TakeKey, FindKey, RedisUnavailable, LookupAudit, LookupFailure, Enqueue,
              EnqueueFails, ApiCrash, Answer, TypeOK
<1>2. ASSUME NEW w \in Worker, Work(w) PROVE UNCHANGED pc
  BY <1>2 DEF Work, Fetch, FetchInVain, Take, Insert, InsertFails, TakenForDuplicate,
              ScoringFails, Act, Explain,
              DispatchFails, FreeKey, WriteSentinel, Ack, apiVars
<1>3. QED
  BY <1>1, <1>2 DEF Next, KeyExpires, WorkerCrash, ConnectionLost, Quiescent, vars, apiVars

\* The result backend stores what it is told to, and the broker takes retries.
StatesAreKept == Env \cap {"broker_error", "state_error"} = {}

LEMMA MarkIs ==
  ASSUME TypeOK, StatesAreKept, NEW t \in Request, NEW state \in TaskState,
         Store(t, state) \/ Mark(t, state)
  PROVE  /\ state \in EndState => result'[t] \in EndState
         /\ \A r \in Request : r # t => result'[r] = result[r]
BY DEF TypeOK, StatesAreKept, Mark, Store, EndState

\* A worker leaves its task with an end state, or a retry in the queue.
LEMMA LetGo ==
  ASSUME TypeOK, StatesAreKept, NEW w \in Worker, at[w] \in Busy, Work(w)
  PROVE  \/ at'[w] \in Busy /\ msg'[w] = msg[w]
         \/ result'[Task(w)] \in EndState
         \/ \E m \in Message : m[1] = Task(w) /\ queue'[m] > 0
<1>t. Task(w) \in Request /\ at \in [Worker -> WorkerPC] /\ at[w] # "idle"
  BY WorkerTask DEF Busy, TypeOK
<1>1. ASSUME CatchException(w), UNCHANGED msg
      PROVE  \/ at'[w] \in Busy /\ msg'[w] = msg[w]
             \/ \E m \in Message : m[1] = Task(w) /\ queue'[m] > 0
  BY <1>t, <1>1, CatchQueues DEF Busy, WorkerPC, StatesAreKept
<1>2. ASSUME Mark(Task(w), "SUCCESS") \/ Mark(Task(w), "FAILURE")
      PROVE  result'[Task(w)] \in EndState
  BY <1>t, <1>2, MarkIs DEF EndState, TaskState
<1>3. ASSUME NEW place \in Busy, Goto(w, place), UNCHANGED msg
      PROVE  at'[w] \in Busy /\ msg'[w] = msg[w]
  BY <1>t, <1>3 DEF Goto
<1>4. \A tier \in Tier : FirstDispatch(tier) \in Busy
  BY DEF FirstDispatch, Busy, WorkerPC
<1>5. "explain" \in Busy /\ "sentinel" \in Busy
  BY DEF Busy, WorkerPC
<1>6. CASE FreeKey(w) \/ Act(w)
  BY <1>3, <1>5, <1>6 DEF FreeKey, Act
<1>7. CASE \E tier \in Tier : Insert(w, tier)
  BY <1>2, <1>3, <1>4, <1>7 DEF Insert
<1>8. CASE Explain(w) \/ WriteSentinel(w) \/ \E tier \in Tier : TakenForDuplicate(w, tier)
  BY <1>2, <1>8 DEF Explain, WriteSentinel, TakenForDuplicate
<1>9. CASE ScoringFails(w) \/ DispatchFails(w) \/ \E tier \in Tier : InsertFails(w, tier)
  BY <1>1, <1>9 DEF ScoringFails, DispatchFails, InsertFails
<1>10. QED
  BY <1>6, <1>7, <1>8, <1>9 DEF Work, Fetch, FetchInVain, Take, Ack, Busy

\* An end state is only overwritten by a worker that has the task in hand.
LEMMA EndStateStep ==
  ASSUME TypeOK, TypeOK', StatesAreKept, [Next]_vars, NEW t \in Request,
         result[t] \in EndState
  PROVE  result'[t] \in EndState \/ TaskInHand(t, Busy)'
<1>1. ASSUME NEW w \in Worker, NEW m \in Message, Fetch(w, m)
      PROVE  result'[t] \in EndState \/ TaskInHand(t, Busy)'
  <2>1. m[1] \in Request /\ at'[w] = "score" /\ msg'[w] = m
    BY <1>1, MessageParts DEF Fetch, Take, Goto, TypeOK
  <2>2. CASE m[1] = t
    BY <2>1, <2>2 DEF TaskInHand, Task, Busy, WorkerPC
  <2>3. CASE m[1] # t
    BY <1>1, <2>1, <2>3, MarkIs DEF Fetch, TaskState
  <2>4. QED
    BY <2>2, <2>3
<1>2. ASSUME NEW w \in Worker, at[w] # "idle", CatchException(w)
      PROVE  result'[t] \in EndState \/ TaskInHand(t, Busy)'
  <2>1. Task(w) \in Request /\ (result' = result \/ Mark(Task(w), "RETRY"))
    BY <1>2, WorkerTask DEF CatchException
  <2>2. CASE Task(w) # t
    BY <2>1, <2>2, MarkIs DEF TaskState
  <2>3. CASE Task(w) = t
    <3>1. CASE UNCHANGED result
      BY <3>1
    <3>2. CASE \E m \in Message : m[1] = t /\ queue'[m] > 0
      BY <3>2 DEF TaskInHand
    <3>3. CASE at'[w] = "free" /\ ~ UNCHANGED result
      BY <1>2, <3>3 DEF CatchException, Goto, TypeOK
    <3>4. QED
      BY <1>2, <2>3, <3>1, <3>2, <3>3, CatchQueues DEF StatesAreKept
  <2>4. QED
    BY <2>2, <2>3
<1>3. ASSUME NEW w \in Worker, at[w] # "idle",
             Mark(Task(w), "SUCCESS") \/ Mark(Task(w), "FAILURE")
      PROVE  result'[t] \in EndState
  <2>1. Task(w) \in Request
    BY <1>3, WorkerTask
  <2>2. QED
    BY <1>3, <2>1, MarkIs DEF TaskState, EndState
<1>4. ASSUME NEW w \in Worker, Work(w)
      PROVE  result'[t] \in EndState \/ TaskInHand(t, Busy)'
  <2>1. CASE UNCHANGED result
    BY <2>1
  <2>2. CASE ~ UNCHANGED result
    BY <1>1, <1>2, <1>3, <1>4, <2>2
       DEF StatesAreKept, Work, FetchInVain, Insert, InsertFails, TakenForDuplicate,
           ScoringFails, Act, Explain,
           DispatchFails, FreeKey, WriteSentinel, Ack
  <2>3. QED
    BY <2>1, <2>2
<1>5. ASSUME NEW r \in Request, Api(r) PROVE UNCHANGED result
  BY <1>5 DEF Api, TakeKey, FindKey, RedisUnavailable, LookupAudit, LookupFailure, Enqueue,
              EnqueueFails, ApiCrash
<1>6. QED
  BY <1>4, <1>5 DEF Next, KeyExpires, WorkerCrash, ConnectionLost, Quiescent, vars

LEMMA StateNext ==
  ASSUME TypeOK, TypeOK', StatesAreKept, StateInv, [Next]_vars
  PROVE  StateInv'
<1> SUFFICES ASSUME NEW r \in Request, pc'[r] = "accepted"
             PROVE  result'[r] \in EndState \/ TaskInHand(r, Busy)'
  BY DEF StateInv
<1>1. CASE pc[r] # "accepted"
  BY <1>1, AcceptedIsQueued DEF TaskInHand
<1>2. CASE pc[r] = "accepted" /\ result[r] \in EndState
  BY <1>2, EndStateStep
<1>3. ASSUME NEW m \in Message, m[1] = r, queue[m] > 0 PROVE TaskInHand(r, Busy)'
  <2>1. ASSUME NEW w \in Worker, at'[w] = "score", msg'[w] = m PROVE TaskInHand(r, Busy)'
    BY <1>3, <2>1 DEF TaskInHand, Task, Busy, WorkerPC
  <2>2. QED
    BY <1>3, <2>1, QueueStep DEF TaskInHand, StatesAreKept
<1>4. ASSUME NEW w \in Worker, at[w] \in Busy, Task(w) = r
      PROVE  result'[r] \in EndState \/ TaskInHand(r, Busy)'
  <2>1. at[w] # "idle"
    BY <1>4 DEF Busy
  <2>2. ASSUME at'[w] \in Busy, msg'[w] = msg[w] PROVE TaskInHand(r, Busy)'
    BY <1>4, <2>2 DEF TaskInHand, Task
  <2>3. ASSUME NEW m \in Message, m[1] = r, queue'[m] > 0 PROVE TaskInHand(r, Busy)'
    BY <2>3 DEF TaskInHand
  <2>4. QED
    BY <1>4, <2>1, <2>2, <2>3, OwnStep, CrashQueues, LetGo
<1>5. QED
  BY <1>1, <1>2, <1>3, <1>4 DEF StateInv, TaskInHand

\* Where the broker answers and the result backend stores what it is told to, a
\* "processing" is always true: a task whose state the client reads as unfinished
\* is queued, or a worker has it.  This holds whatever the database, the
\* deduplication keys or a worker does meanwhile.
THEOREM ProcessingMeansWork ==
  StatesAreKept => (PollSpec => PollProcessingIsTrue)
<1> SUFFICES ASSUME StatesAreKept PROVE PollSpec => PollProcessingIsTrue
  OBVIOUS
<1>1. PollInit => StateInv /\ PolledInv
  BY DEF PollInit, Init, StateInv, PolledInv
<1>2. PollTypeOK /\ PollTypeOK' /\ StateInv /\ PolledInv /\ [PollNext]_allVars
        => StateInv' /\ PolledInv'
  <2> SUFFICES ASSUME PollTypeOK, PollTypeOK', StateInv, PolledInv, [PollNext]_allVars
               PROVE  StateInv' /\ PolledInv'
    OBVIOUS
  <2>1. TypeOK /\ TypeOK' /\ [Next]_vars
    BY PollStep DEF PollTypeOK
  <2>2. StateInv'
    BY <2>1, StateNext
  <2>3. ASSUME NEW p \in Poller, step'[p] # "idle" PROVE pc'[target'[p]] = "accepted"
    <3>1. UNCHANGED target /\ target[p] \in Request
      BY DEF PollNext, Poll, PollAudit, PollFailure, PollCelery, pollVars, allVars, PollTypeOK
    <3>2. pc[target[p]] = "accepted"
      <4>1. CASE UNCHANGED step
        BY <2>3, <4>1 DEF PolledInv
      <4>2. ASSUME NEW q \in Poller, Poll(q) PROVE pc[target[p]] = "accepted"
        BY <2>3, <4>2 DEF Poll, PollAudit, PollFailure, PollCelery, Return, Continue,
                          PolledInv, PollTypeOK
      <4>3. QED
        BY <4>1, <4>2 DEF PollNext, pollVars, allVars
    <3>3. QED
      BY <2>1, <3>1, <3>2, AcceptedStays
  <2>4. QED
    BY <2>2, <2>3 DEF PolledInv
<1>3. PollTypeOK /\ StateInv /\ PolledInv /\ [PollNext]_allVars =>
        [\A p \in Poller :
           step[p] = "celery" /\ step'[p] = "idle" /\ last'[p] = "processing"
             => TaskLives(target[p])]_allVars
  <2> SUFFICES ASSUME PollTypeOK, StateInv, PolledInv, PollNext, NEW p \in Poller,
                      step[p] = "celery", step'[p] = "idle", last'[p] = "processing"
               PROVE  TaskLives(target[p])
    OBVIOUS
  <2>1. target[p] \in Request /\ result[target[p]] \in TaskState
    BY DEF PollTypeOK, TypeOK
  <2>2. Running(p)
    BY DEF PollNext, pollVars, Poll, PollAudit, PollFailure, PollCelery, Return, Continue,
           PollTypeOK
  <2>3. TaskInHand(target[p], Busy)
    BY <2>1, <2>2 DEF StateInv, PolledInv, Running, Unfinished, EndState
  <2>4. QED
    BY <2>3 DEF TaskLives, TaskInHand, Busy
<1>4. QED
  BY <1>1, <1>2, <1>3, PollTypeCorrect, PTL DEF PollSpec, PollProcessingIsTrue

-----------------------------------------------------------------------------
(* What an end state is worth.                                              *)

\* No error of Postgres is swallowed by a task or misread by it, and none of the
\* result backend is stored as a failure of the task.
ErrorsAreSeen == Env \cap {"db_error", "misread_error", "state_error"} = {}

\* A state the result backend stores is the only one it changes.
LEMMA MarkStores ==
  ASSUME TypeOK, ErrorsAreSeen, NEW t \in Request, NEW state \in TaskState, Mark(t, state)
  PROVE  Store(t, state) /\ \A r \in Request : r # t => result'[r] = result[r]
BY DEF TypeOK, ErrorsAreSeen, Mark, Store

\* A task that Celery reports as ended has left a trace: its event is audited,
\* or on record as failed.
EndIsOnRecord ==
  \A t \in Request : result[t] \in EndState =>
    audit[event[t]] # NoTier \/ failures[event[t]] # NoTask

\* The rows are there before the state is set: score_order_task returns or
\* raises only after its insert, _write_scoring_failure_sync before the raise.
LEMMA EndWritten ==
  ASSUME IInv, ErrorsAreSeen, NEW w \in Worker, Work(w), NEW t \in Request,
         result[t] \notin EndState, result'[t] \in EndState
  PROVE  audit[event[t]] # NoTier \/ failures'[event[t]] # NoTask
<1>t. TypeOK /\ (at[w] # "idle" => Task(w) \in Request /\ EventOf(w) \in Event)
  BY WorkerTask DEF IInv
<1>1. ASSUME NEW r \in Request, NEW state \in TaskState \ EndState,
             Store(r, state) \/ Mark(r, state)
      PROVE  FALSE
  BY <1>t, <1>1, MarkStores DEF Store, TypeOK, EndState
<1>2. CASE \E m \in Message : Fetch(w, m)
  <2>1. PICK m \in Message : Fetch(w, m)
    BY <1>2
  <2>2. m[1] \in Request /\ Store(m[1], "STARTED")
    BY <2>1, MessageParts DEF Fetch, Take
  <2>3. QED
    BY <1>1, <2>2 DEF TaskState, EndState
<1>3. ASSUME at[w] # "idle", CatchException(w) PROVE FALSE
  BY <1>t, <1>1, <1>3 DEF CatchException, TaskState, EndState
<1>4. ASSUME at[w] # "idle", Mark(Task(w), "SUCCESS") \/ Mark(Task(w), "FAILURE")
      PROVE  event[t] = EventOf(w)
  <2>1. Task(w) = t
    BY <1>t, <1>4, MarkStores DEF TaskState
  <2>2. QED
    BY <2>1 DEF EventOf
<1>5. CASE \E tier \in Tier : Insert(w, tier)
  BY <1>4, <1>5 DEF Insert, IsNew
<1>6. CASE Explain(w)
  <2>1. audit[EventOf(w)] # NoTier
    BY <1>6 DEF Explain, IInv, Ownership, Serving, Tier, NoTier
  <2>2. QED
    BY <1>4, <1>6, <2>1 DEF Explain
<1>7. CASE WriteSentinel(w)
  <2>1. failures'[EventOf(w)] # NoTask
    BY <1>t, <1>7, ConstantAssumption DEF WriteSentinel, ErrorsAreSeen, TypeOK
  <2>2. QED
    BY <1>4, <1>7, <2>1 DEF WriteSentinel
<1>8. CASE ScoringFails(w) \/ DispatchFails(w) \/ \E tier \in Tier : InsertFails(w, tier)
  BY <1>3, <1>8 DEF ScoringFails, DispatchFails, InsertFails
<1>9. CASE FreeKey(w) \/ Act(w) \/ Ack(w)
  BY <1>9 DEF FreeKey, Act, Ack
<1>10. QED
  BY <1>2, <1>5, <1>6, <1>7, <1>8, <1>9
     DEF Work, FetchInVain, TakenForDuplicate, ErrorsAreSeen

LEMMA EndNext ==
  ASSUME IInv, ErrorsAreSeen, EndIsOnRecord, [Next]_vars
  PROVE  EndIsOnRecord'
<1> SUFFICES ASSUME NEW t \in Request, result'[t] \in EndState
             PROVE  audit'[event[t]] # NoTier \/ failures'[event[t]] # NoTask
  BY Stable DEF EndIsOnRecord, IInv
<1>1. TypeOK /\ event[t] \in Event
  BY DEF IInv, TypeOK
<1>2. CASE result[t] \in EndState
  BY <1>1, <1>2, Stable, FailuresStay DEF EndIsOnRecord
<1>3. CASE result[t] \notin EndState
  <2>1. ASSUME NEW r \in Request, Api(r) PROVE UNCHANGED result
    BY <2>1 DEF Api, TakeKey, FindKey, RedisUnavailable, LookupAudit, LookupFailure, Enqueue,
                EnqueueFails, ApiCrash
  <2>2. PICK w \in Worker : Work(w)
    BY <1>3, <2>1 DEF Next, KeyExpires, WorkerCrash, ConnectionLost, Quiescent, vars
  <2>3. QED
    BY <1>1, <1>3, <2>2, EndWritten, Stable
<1>4. QED
  BY <1>2, <1>3

\* Where the result backend stores what it is told to, a state SUCCESS or FAILURE
\* in it always has a row behind it, of its own task or of another one of the
\* event, whatever the broker, the deduplication keys or the workers do.
THEOREM EndsAreOnRecord == ErrorsAreSeen => (Spec => []EndIsOnRecord)
<1> SUFFICES ASSUME ErrorsAreSeen PROVE Spec => []EndIsOnRecord
  OBVIOUS
<1>1. Init => EndIsOnRecord
  BY DEF Init, EndIsOnRecord, EndState
<1>2. IInv /\ EndIsOnRecord /\ [Next]_vars => EndIsOnRecord'
  BY EndNext
<1>3. QED
  BY <1>1, <1>2, Invariant, PTL DEF Spec

\* The safety half of PollingEnds: a client with a task id gets a 404 for its
\* accepted order only if the task ended between the reads of the call, so that
\* the row it looked for is there by now and its next call finds it.
THEOREM UnknownIsOvertaken ==
  ErrorsAreSeen =>
    (PollSpec =>
       [][\A p \in Poller :
            step[p] = "celery" /\ step'[p] = "idle" /\ last'[p] = "unknown" /\ hasId[p]
              => Scored(p) \/ failures[TargetEvent(p)] # NoTask]_allVars)
<1> SUFFICES ASSUME ErrorsAreSeen
             PROVE  PollSpec =>
                      [][\A p \in Poller :
                           step[p] = "celery" /\ step'[p] = "idle" /\ last'[p] = "unknown"
                             /\ hasId[p]
                           => Scored(p) \/ failures[TargetEvent(p)] # NoTask]_allVars
  OBVIOUS
<1>1. PollTypeOK /\ EndIsOnRecord /\ [PollNext]_allVars =>
        [\A p \in Poller :
           step[p] = "celery" /\ step'[p] = "idle" /\ last'[p] = "unknown" /\ hasId[p]
             => Scored(p) \/ failures[TargetEvent(p)] # NoTask]_allVars
  <2> SUFFICES ASSUME PollTypeOK, EndIsOnRecord, PollNext, NEW p \in Poller,
                      step[p] = "celery", step'[p] = "idle", last'[p] = "unknown", hasId[p]
               PROVE  Scored(p) \/ failures[TargetEvent(p)] # NoTask
    OBVIOUS
  <2>1. target[p] \in Request /\ result[target[p]] \in TaskState
    BY DEF PollTypeOK, TypeOK
  <2>2. ~Running(p)
    BY DEF PollNext, pollVars, Poll, PollAudit, PollFailure, PollCelery, Return, Continue,
           PollTypeOK, ErrorsAreSeen
  <2>3. result[target[p]] \in EndState
    BY <2>1, <2>2 DEF Running, Unfinished, TaskState, EndState
  <2>4. QED
    BY <2>1, <2>3 DEF EndIsOnRecord, Scored, TargetEvent
<1>2. PollSpec => []EndIsOnRecord
  BY PollingReadsOnly, EndsAreOnRecord
<1>3. QED
  BY <1>1, <1>2, PollTypeCorrect, PTL DEF PollSpec
=============================================================================
