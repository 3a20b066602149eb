------------------------ MODULE ScoringPipelineProofs ------------------------
(***************************************************************************)
(* Proofs about ScoringPipeline for any number of events, requests and     *)
(* workers, any MaxRetries, any number of outages and the most hostile     *)
(* environment.                                                            *)
(***************************************************************************)
EXTENDS ScoringPipeline, TLAPS

USE DEF IsNew, ActionOf, DeleteKey, RecordFailure

-----------------------------------------------------------------------------
(* Type correctness.                                                        *)

\* The steps of the API leave everything well typed.
LEMMA ApiTyped ==
  ASSUME TypeOK, NEW r \in Request, Api(r)
  PROVE  TypeOK'
<1> USE DEF TypeOK, workerVars, Answer, RequestPC, Reply
<1>m. <<r, 0>> \in Message
  BY ConstantAssumption DEF Message
<1>1. CASE TakeKey(r)
  BY <1>1 DEF TakeKey
<1>2. CASE FindKey(r)
  BY <1>2 DEF FindKey
<1>3. CASE RedisUnavailable(r)
  BY <1>3 DEF RedisUnavailable
<1>4. CASE LookupAudit(r)
  BY <1>4 DEF LookupAudit
<1>5. CASE LookupFailure(r)
  BY <1>5 DEF LookupFailure
<1>6. CASE Enqueue(r)
  BY <1>6, <1>m DEF Enqueue
<1>7. CASE EnqueueFails(r)
  <2>1. [queue EXCEPT ![<<r, 0>>] = @ + 1] \in [Message -> Nat]
    BY <1>m
  <2>2. queue' \in [Message -> Nat]
    BY <1>7, <2>1 DEF EnqueueFails
  <2>3. QED
    BY <1>7, <2>2 DEF EnqueueFails
<1>8. CASE ApiCrash(r)
  BY <1>8 DEF ApiCrash
<1>9. QED
  BY <1>1, <1>2, <1>3, <1>4, <1>5, <1>6, <1>7, <1>8 DEF Api

\* A message names a request and a retry number.
LEMMA MessageParts ==
  ASSUME NEW m \in Message
  PROVE  m[1] \in Request /\ m[2] \in 0..MaxRetries /\ m = <<m[1], m[2]>>
BY DEF Message

LEMMA MarkTyped ==
  ASSUME TypeOK, NEW t \in Request, NEW state \in TaskState, Mark(t, state) \/ Store(t, state)
  PROVE  result' \in [Request -> TaskState]
BY DEF TypeOK, Mark, Store, TaskState

\* A worker that is not idle works for a request and an event.
LEMMA WorkerTask ==
  ASSUME TypeOK, NEW w \in Worker, at[w] # "idle"
  PROVE  Task(w) \in Request /\ Retries(w) \in 0..MaxRetries /\ EventOf(w) \in Event
<1>1. msg[w] \in Message
  BY DEF TypeOK
<1>2. QED
  BY <1>1, MessageParts DEF TypeOK, Task, Retries, EventOf

LEMMA CatchTyped ==
  ASSUME TypeOK, NEW w \in Worker, at[w] # "idle", CatchException(w)
  PROVE  /\ at' \in [Worker -> WorkerPC]
         /\ at'[w] \in {"ack", "free"}
         /\ \A v \in Worker \ {w} : at'[v] = at[v]
         /\ queue' \in [Message -> Nat]
         /\ result' \in [Request -> TaskState]
<1>1. Task(w) \in Request /\ Retries(w) \in 0..MaxRetries
  BY WorkerTask
<1>2. at \in [Worker -> WorkerPC] /\ queue \in [Message -> Nat] /\ result \in [Request -> TaskState]
  BY DEF TypeOK
<1>3. CASE Goto(w, "ack") /\ UNCHANGED <<queue, result>>
  BY <1>2, <1>3 DEF Goto, WorkerPC
<1>4. CASE Goto(w, "free") /\ UNCHANGED <<queue, result>>
  BY <1>2, <1>4 DEF Goto, WorkerPC
<1>5. CASE /\ Retries(w) < MaxRetries
           /\ queue' = [queue EXCEPT ![<<Task(w), Retries(w) + 1>>] = @ + 1]
           /\ Mark(Task(w), "RETRY")
           /\ Goto(w, "ack")
  <2>1. <<Task(w), Retries(w) + 1>> \in Message
    BY <1>1, <1>5, ConstantAssumption DEF Message
  <2>2. queue' \in [Message -> Nat]
    BY <1>2, <1>5, <2>1
  <2>3. result' \in [Request -> TaskState]
    BY <1>1, <1>5, MarkTyped DEF TaskState
  <2>4. QED
    BY <1>2, <1>5, <2>2, <2>3 DEF Goto, WorkerPC
<1>6. QED
  BY <1>3, <1>4, <1>5 DEF CatchException

\* An error taken for a duplicate leaves the table alone, or with a first row.
LEMMA TakenAudit ==
  ASSUME TypeOK, NEW w \in Worker, NEW tier \in Tier, TakenForDuplicate(w, tier)
  PROVE  \/ UNCHANGED audit
         \/ /\ EventOf(w) \in Event
            /\ audit[EventOf(w)] = NoTier
            /\ audit' = [audit EXCEPT ![EventOf(w)] = tier]
<1>1. EventOf(w) \in Event /\ audit \in [Event -> Tier \union {NoTier}]
  BY WorkerTask DEF TakenForDuplicate, TypeOK
<1>2. CASE audit[EventOf(w)] = NoTier
  BY <1>1, <1>2 DEF TakenForDuplicate
<1>3. CASE audit[EventOf(w)] # NoTier
  BY <1>1, <1>3 DEF TakenForDuplicate
<1>4. QED
  BY <1>2, <1>3

LEMMA TriggerTyped ==
  ASSUME TypeOK, NEW e \in Event, NEW f \in Effect, Trigger(e, f)
  PROVE  /\ sent' \in [Event -> [Effect -> Nat]]
         /\ \A d \in Event, g \in Effect :
              sent'[d][g] = IF d = e /\ g = f THEN sent[d][g] + 1 ELSE sent[d][g]
<1>1. sent \in [Event -> [Effect -> Nat]]
  BY DEF TypeOK
<1>2. [sent[e] EXCEPT ![f] = @ + 1] \in [Effect -> Nat]
  BY <1>1
<1>3. sent' = [sent EXCEPT ![e] = [sent[e] EXCEPT ![f] = @ + 1]]
  BY DEF Trigger
<1>4. QED
  BY <1>1, <1>2, <1>3

\* The steps of a worker leave everything well typed.
LEMMA WorkTyped ==
  ASSUME TypeOK, NEW w \in Worker, Work(w)
  PROVE  TypeOK'
<1>a. /\ at \in [Worker -> WorkerPC]
      /\ msg \in [Worker -> Message \union {NoMessage}]
      /\ verdict \in [Worker -> Tier \union {NoTier}]
      /\ audit \in [Event -> Tier \union {NoTier}]
      /\ queue \in [Message -> Nat]
      /\ \A v \in Worker : at[v] # "idle" => msg[v] \in Message
  BY DEF TypeOK
<1>1. ASSUME NEW m \in Message, Fetch(w, m) \/ FetchInVain(w, m) PROVE TypeOK'
  <2>1. queue' \in [Message -> Nat] /\ msg' \in [Worker -> Message \union {NoMessage}]
    BY <1>1, <1>a DEF Fetch, FetchInVain, Take
  <2>2. at' \in [Worker -> WorkerPC]
    BY <1>1, <1>a DEF Fetch, FetchInVain, Goto, WorkerPC
  <2>3. result' \in [Request -> TaskState]
    BY <1>1, MessageParts, MarkTyped DEF Fetch, FetchInVain, TaskState
  <2>4. \A v \in Worker : at'[v] # "idle" => msg'[v] \in Message
    BY <1>1, <1>a DEF Fetch, FetchInVain, Take, Goto
  <2>5. QED
    BY <1>1, <2>1, <2>2, <2>3, <2>4 DEF Fetch, FetchInVain, TypeOK, apiVars
<1>2. ASSUME NEW tier \in Tier, Insert(w, tier) PROVE TypeOK'
  <2>1. at[w] = "score" /\ Task(w) \in Request /\ EventOf(w) \in Event
    BY <1>2, WorkerTask DEF Insert
  <2>2. audit' \in [Event -> Tier \union {NoTier}] /\ verdict' \in [Worker -> Tier \union {NoTier}]
    BY <1>2, <1>a, <2>1 DEF Insert
  <2>3. at' \in [Worker -> WorkerPC]
    BY <1>2, <1>a DEF Insert, Goto, FirstDispatch, WorkerPC
  <2>4. result' \in [Request -> TaskState]
    BY <1>2, <2>1, MarkTyped DEF Insert, TaskState, TypeOK
  <2>5. \A v \in Worker : at'[v] # "idle" => msg'[v] \in Message
    BY <1>2, <1>a, <2>1 DEF Insert, Goto
  <2>6. QED
    BY <1>2, <2>2, <2>3, <2>4, <2>5 DEF Insert, TypeOK, apiVars
<1>c. ASSUME at[w] # "idle", CatchException(w), UNCHANGED msg
      PROVE  \A v \in Worker : at'[v] # "idle" => msg'[v] \in Message
  BY <1>a, <1>c, CatchTyped
<1>3. ASSUME NEW tier \in Tier, InsertFails(w, tier) PROVE TypeOK'
  <2>1. at[w] # "idle" /\ EventOf(w) \in Event /\ CatchException(w)
    BY <1>3, WorkerTask DEF InsertFails
  <2>2. audit' \in [Event -> Tier \union {NoTier}]
    BY <1>3, <1>a, <2>1 DEF InsertFails
  <2>3. QED
    BY <1>3, <1>c, <2>1, <2>2, CatchTyped DEF InsertFails, TypeOK, apiVars
<1>4. CASE ScoringFails(w)
  <2>1. at[w] # "idle" /\ CatchException(w)
    BY <1>4 DEF ScoringFails
  <2>2. QED
    BY <1>4, <1>c, <2>1, CatchTyped DEF ScoringFails, TypeOK, apiVars
<1>5. CASE Act(w)
  <2>1. at[w] = "act" /\ EventOf(w) \in Event
    BY <1>5, WorkerTask DEF Act
  <2>2. sent' \in [Event -> [Effect -> Nat]]
    BY <1>5, <2>1, TriggerTyped DEF Act, Effect
  <2>3. at' \in [Worker -> WorkerPC] /\ \A v \in Worker : at'[v] # "idle" => msg'[v] \in Message
    BY <1>5, <1>a, <2>1 DEF Act, Goto, WorkerPC
  <2>4. QED
    BY <1>5, <2>2, <2>3 DEF Act, TypeOK, apiVars
<1>6. CASE Explain(w)
  <2>1. at[w] = "explain" /\ EventOf(w) \in Event /\ Task(w) \in Request
    BY <1>6, WorkerTask DEF Explain
  <2>2. sent' \in [Event -> [Effect -> Nat]]
    BY <1>6, <2>1, TriggerTyped DEF Explain, Effect
  <2>3. at' \in [Worker -> WorkerPC] /\ \A v \in Worker : at'[v] # "idle" => msg'[v] \in Message
    BY <1>6, <1>a, <2>1 DEF Explain, Goto, WorkerPC
  <2>4. result' \in [Request -> TaskState]
    BY <1>6, <2>1, MarkTyped DEF Explain, TaskState
  <2>5. QED
    BY <1>6, <2>2, <2>3, <2>4 DEF Explain, TypeOK, apiVars
<1>7. CASE DispatchFails(w)
  <2>1. at[w] # "idle" /\ EventOf(w) \in Event /\ CatchException(w)
    BY <1>7, WorkerTask DEF DispatchFails
  <2>2. sent' \in [Event -> [Effect -> Nat]]
    BY <1>7, <2>1, TriggerTyped DEF DispatchFails, Effect, TypeOK
  <2>3. QED
    BY <1>7, <1>c, <2>1, <2>2, CatchTyped DEF DispatchFails, TypeOK, apiVars
<1>8. CASE FreeKey(w)
  BY <1>8 DEF FreeKey, TypeOK, Goto, WorkerPC, apiVars
<1>9. CASE WriteSentinel(w)
  <2>1. at[w] = "sentinel" /\ Task(w) \in Request
    BY <1>9, WorkerTask DEF WriteSentinel
  <2>2. failures' \in [Event -> Request \union {NoTask}]
    BY <1>9, <2>1 DEF WriteSentinel, TypeOK
  <2>3. result' \in [Request -> TaskState]
    BY <1>9, <2>1, MarkTyped DEF WriteSentinel, TaskState
  <2>4. at' \in [Worker -> WorkerPC] /\ \A v \in Worker : at'[v] # "idle" => msg'[v] \in Message
    BY <1>9, <1>a, <2>1 DEF WriteSentinel, Goto, WorkerPC
  <2>5. QED
    BY <1>9, <2>2, <2>3, <2>4 DEF WriteSentinel, TypeOK, apiVars
<1>10. CASE Ack(w)
  BY <1>10 DEF Ack, BecomeIdle, Goto, WorkerPC, TypeOK, apiVars
<1>11. ASSUME NEW tier \in Tier, TakenForDuplicate(w, tier) PROVE TypeOK'
  <2>1. at[w] = "score" /\ Task(w) \in Request /\ audit' \in [Event -> Tier \union {NoTier}]
    BY <1>11, <1>a, WorkerTask, TakenAudit DEF TakenForDuplicate
  <2>2. at' \in [Worker -> WorkerPC] /\ \A v \in Worker : at'[v] # "idle" => msg'[v] \in Message
    BY <1>11, <1>a, <2>1 DEF TakenForDuplicate, Goto, WorkerPC
  <2>3. result' \in [Request -> TaskState]
    BY <1>11, <2>1, MarkTyped DEF TakenForDuplicate, TaskState
  <2>4. QED
    BY <1>11, <2>1, <2>2, <2>3 DEF TakenForDuplicate, TypeOK, apiVars
<1>12. QED
  BY <1>1, <1>2, <1>3, <1>4, <1>5, <1>6, <1>7, <1>8, <1>9, <1>10, <1>11 DEF Work

LEMMA OutageTyped ==
  ASSUME TypeOK, NEW w \in Worker, WorkerCrash(w) \/ ConnectionLost(w)
  PROVE  TypeOK'
<1>1. at[w] # "idle" /\ msg[w] \in Message /\ Redeliver(w)
  BY DEF WorkerCrash, ConnectionLost, Redeliver, TypeOK
<1>2. queue' \in [Message -> Nat] /\ outages' \in 0..MaxOutages
  BY <1>1, ConstantAssumption DEF Redeliver, TypeOK
<1>3. CASE WorkerCrash(w)
  BY <1>2, <1>3 DEF WorkerCrash, BecomeIdle, Goto, WorkerPC, TypeOK, apiVars
<1>4. CASE ConnectionLost(w)
  BY <1>2, <1>4 DEF ConnectionLost, TypeOK, apiVars, workerVars
<1>5. QED
  BY <1>3, <1>4

LEMMA InitTyped == Init => TypeOK
BY ConstantAssumption DEF Init, TypeOK, RequestPC, WorkerPC, TaskState, Effect

LEMMA NextTyped == TypeOK /\ [Next]_vars => TypeOK'
<1> SUFFICES ASSUME TypeOK, [Next]_vars PROVE TypeOK'
  OBVIOUS
<1>1. ASSUME NEW e \in Event, KeyExpires(e) PROVE TypeOK'
  BY <1>1 DEF KeyExpires, TypeOK, apiVars, workerVars
<1>2. CASE UNCHANGED vars
  BY <1>2 DEF vars, TypeOK
<1>3. QED
  BY <1>1, <1>2, ApiTyped, WorkTyped, OutageTyped DEF Next, Quiescent

\* Every reachable state of the pipeline is well typed, for every environment.
THEOREM TypeCorrect == Spec => []TypeOK
BY InitTyped, NextTyped, PTL DEF Spec

-----------------------------------------------------------------------------
(* At most one of each side effect.  AtMostOnce is not inductive: a worker  *)
(* about to dispatch must know that nobody else is and that nothing has     *)
(* been sent, which is what Ownership adds.                                 *)

IInv == TypeOK /\ Ownership /\ AtMostOnce /\ EffectsMatchAudit

\* A step that starts no new service, neither records nor triggers anything,
\* and leaves the workers that go on serving alone preserves the invariant.
LEMMA Bystander ==
  ASSUME IInv, TypeOK', UNCHANGED <<event, audit, sent>>,
         \A v \in Worker : Serving(v)' =>
           at'[v] = at[v] /\ msg'[v] = msg[v] /\ verdict'[v] = verdict[v]
  PROVE  IInv'
<1>1. \A v \in Worker : Serving(v)' =>
         /\ Serving(v) /\ at'[v] = at[v]
         /\ EventOf(v)' = EventOf(v) /\ verdict'[v] = verdict[v]
  BY DEF Serving, EventOf, Task
<1>2. Ownership'
  BY <1>1 DEF IInv, Ownership, Serving
<1>3. AtMostOnce' /\ EffectsMatchAudit'
  BY DEF IInv, AtMostOnce, EffectsMatchAudit
<1>4. QED
  BY <1>2, <1>3 DEF IInv

LEMMA InitOwnership == Init => IInv
<1> SUFFICES ASSUME Init PROVE IInv
  OBVIOUS
<1>1. Ownership
  BY DEF Init, Ownership, Serving
<1>2. AtMostOnce /\ EffectsMatchAudit
  BY DEF Init, AtMostOnce, EffectsMatchAudit, Effect
<1>3. QED
  BY <1>1, <1>2, InitTyped DEF IInv

LEMMA InsertOwnership ==
  ASSUME IInv, TypeOK', NEW w \in Worker, NEW tier \in Tier, Insert(w, tier)
  PROVE  IInv'
<1>1. /\ at[w] = "score" /\ EventOf(w) \in Event
      /\ audit \in [Event -> Tier \union {NoTier}]
      /\ verdict \in [Worker -> Tier \union {NoTier}]
      /\ at \in [Worker -> WorkerPC]
      /\ \A v \in Worker : Serving(v) => EventOf(v) \in Event
  BY WorkerTask DEF Insert, IInv, TypeOK, Serving
<1>2. CASE audit[EventOf(w)] # NoTier
  BY <1>1, <1>2, Bystander DEF Insert, Goto, Serving, apiVars
<1>3. CASE audit[EventOf(w)] = NoTier
  <2> DEFINE E == EventOf(w)
  <2>1. /\ audit' = [audit EXCEPT ![E] = tier]
        /\ verdict' = [verdict EXCEPT ![w] = tier]
        /\ at' = [at EXCEPT ![w] = FirstDispatch(tier)]
        /\ UNCHANGED <<event, msg, sent>>
    BY <1>3 DEF Insert, Goto, apiVars
  <2>2. \A v \in Worker : EventOf(v)' = EventOf(v)
    BY <2>1 DEF EventOf, Task
  <2>3. \A v \in Worker : Serving(v) => EventOf(v) # E
    BY <1>1, <1>3 DEF IInv, Ownership, Tier, NoTier
  <2>4. \A v \in Worker \ {w} : at'[v] = at[v] /\ verdict'[v] = verdict[v]
    BY <1>1, <2>1
  <2>5. \A f \in Effect : sent[E][f] = 0
    BY <1>1, <1>3 DEF IInv, Ownership
  <2>6. at'[w] = FirstDispatch(tier) /\ verdict'[w] = tier /\ audit'[E] = tier
    BY <1>1, <2>1
  <2>7. \A v \in Worker \ {w} : Serving(v)' => Serving(v) /\ audit'[EventOf(v)] = audit[EventOf(v)]
    BY <1>1, <2>1, <2>3, <2>4 DEF Serving
  <2>8. /\ \A e \in Event : audit'[e] = NoTier => \A f \in Effect : sent'[e][f] = 0
        /\ \A u, v \in Worker :
             Serving(u)' /\ Serving(v)' /\ EventOf(u)' = EventOf(v)' => u = v
    <3>1. \A e \in Event : audit'[e] = NoTier => \A f \in Effect : sent'[e][f] = 0
      BY <1>1, <2>1 DEF IInv, Ownership, Tier, NoTier
    <3>2. ASSUME NEW u \in Worker, NEW v \in Worker,
                 Serving(u)', Serving(v)', EventOf(u)' = EventOf(v)'
          PROVE  u = v
      <4>1. EventOf(u) = EventOf(v)
        BY <2>2, <3>2
      <4>2. u # w => Serving(u) /\ EventOf(u) # E
        BY <2>3, <2>7, <3>2
      <4>3. v # w => Serving(v) /\ EventOf(v) # E
        BY <2>3, <2>7, <3>2
      <4>4. QED
        BY <4>1, <4>2, <4>3 DEF IInv, Ownership
    <3>3. QED
      BY <3>1, <3>2
  <2>9. ASSUME NEW v \in Worker, Serving(v)'
        PROVE  verdict'[v] \in Tier /\ audit'[EventOf(v)'] = verdict'[v]
    BY <2>2, <2>4, <2>6, <2>7, <2>9 DEF IInv, Ownership
  <2>10. ASSUME NEW v \in Worker, at'[v] = "act"
         PROVE  verdict'[v] # "ALLOW_COD" /\ \A f \in Effect : sent'[EventOf(v)'][f] = 0
    <3>1. CASE v = w
      BY <2>1, <2>2, <2>5, <2>6, <2>10, <3>1 DEF FirstDispatch
    <3>2. CASE v # w
      BY <2>1, <2>2, <2>4, <2>10, <3>2 DEF IInv, Ownership
    <3>3. QED
      BY <3>1, <3>2
  <2>11. ASSUME NEW v \in Worker, at'[v] = "explain"
         PROVE  /\ sent'[EventOf(v)']["explanation"] = 0
                /\ verdict'[v] = "NUDGE_PREPAY" => sent'[EventOf(v)']["link"] = 1
                /\ verdict'[v] = "SOFT_GATE_COD" => sent'[EventOf(v)']["gate"] = 1
    <3>1. CASE v = w
      BY <2>1, <2>2, <2>5, <2>6, <2>11, <3>1 DEF FirstDispatch, Effect
    <3>2. CASE v # w
      BY <2>1, <2>2, <2>4, <2>11, <3>2 DEF IInv, Ownership
    <3>3. QED
      BY <3>1, <3>2
  <2>12. Ownership'
    BY <2>8, <2>9, <2>10, <2>11 DEF Ownership
  <2>13. AtMostOnce' /\ EffectsMatchAudit'
    <3>1. AtMostOnce'
      BY <2>1 DEF IInv, AtMostOnce
    <3>2. ASSUME NEW e \in Event, NEW f \in Effect, sent'[e][f] > 0
          PROVE  audit'[e] = audit[e]
      BY <1>1, <2>1, <2>5, <3>2
    <3>3. QED
      BY <2>1, <3>1, <3>2 DEF IInv, EffectsMatchAudit, Effect
  <2>14. QED
    BY <2>12, <2>13 DEF IInv
<1>4. QED
  BY <1>2, <1>3

\* The row is there but the worker gives up: it becomes no owner, nor does
\* anybody else.
LEMMA RowWithoutOwner ==
  ASSUME IInv, TypeOK', NEW w \in Worker, NEW tier \in Tier, at[w] = "score",
         audit[EventOf(w)] = NoTier,
         audit' = [audit EXCEPT ![EventOf(w)] = tier],
         UNCHANGED <<event, msg, verdict, sent>>,
         at'[w] \in {"ack", "free"}, \A v \in Worker \ {w} : at'[v] = at[v]
  PROVE  IInv'
<1>1. /\ EventOf(w) \in Event
      /\ audit \in [Event -> Tier \union {NoTier}]
      /\ audit[EventOf(w)] = NoTier
      /\ audit' = [audit EXCEPT ![EventOf(w)] = tier]
      /\ UNCHANGED <<event, msg, verdict, sent>>
      /\ \A v \in Worker : Serving(v) => EventOf(v) \in Event
  BY WorkerTask DEF IInv, TypeOK, Serving
<1>2. at'[w] \in {"ack", "free"} /\ \A v \in Worker \ {w} : at'[v] = at[v]
  OBVIOUS
<1>3. \A v \in Worker : EventOf(v)' = EventOf(v)
  BY <1>1 DEF EventOf, Task
<1>4. \A v \in Worker : Serving(v)' => v # w /\ Serving(v) /\ at'[v] = at[v]
  BY <1>2 DEF Serving
<1>5. \A v \in Worker : Serving(v) => audit'[EventOf(v)] = audit[EventOf(v)]
  BY <1>1 DEF IInv, Ownership, Tier, NoTier
<1>6. /\ \A e \in Event : audit'[e] = NoTier => audit[e] = NoTier
      /\ \A e \in Event, f \in Effect : sent[e][f] > 0 => audit'[e] = audit[e]
  BY <1>1 DEF IInv, Ownership, Tier, NoTier
<1>7. Ownership'
  <2>1. \A e \in Event : audit'[e] = NoTier => \A f \in Effect : sent'[e][f] = 0
    BY <1>1, <1>6 DEF IInv, Ownership
  <2>2. \A u, v \in Worker :
          Serving(u)' /\ Serving(v)' /\ EventOf(u)' = EventOf(v)' => u = v
    BY <1>3, <1>4 DEF IInv, Ownership
  <2>3. \A v \in Worker : Serving(v)' =>
          verdict'[v] \in Tier /\ audit'[EventOf(v)'] = verdict'[v]
    BY <1>1, <1>3, <1>4, <1>5 DEF IInv, Ownership
  <2>4. \A v \in Worker : at'[v] = "act" =>
          verdict'[v] # "ALLOW_COD" /\ \A f \in Effect : sent'[EventOf(v)'][f] = 0
    BY <1>1, <1>2, <1>3 DEF IInv, Ownership
  <2>5. \A v \in Worker : at'[v] = "explain" =>
          /\ sent'[EventOf(v)']["explanation"] = 0
          /\ verdict'[v] = "NUDGE_PREPAY" => sent'[EventOf(v)']["link"] = 1
          /\ verdict'[v] = "SOFT_GATE_COD" => sent'[EventOf(v)']["gate"] = 1
    BY <1>1, <1>2, <1>3 DEF IInv, Ownership
  <2>6. QED
    BY <2>1, <2>2, <2>3, <2>4, <2>5 DEF Ownership
<1>8. AtMostOnce' /\ EffectsMatchAudit'
  BY <1>1, <1>6 DEF IInv, AtMostOnce, EffectsMatchAudit, Effect
<1>9. QED
  BY <1>7, <1>8 DEF IInv

LEMMA InsertFailsOwnership ==
  ASSUME IInv, TypeOK', NEW w \in Worker, NEW tier \in Tier, InsertFails(w, tier)
  PROVE  IInv'
<1>1. at[w] = "score" /\ CatchException(w)
  BY DEF InsertFails
<1>2. at'[w] \in {"ack", "free"} /\ \A v \in Worker \ {w} : at'[v] = at[v]
  BY <1>1, CatchTyped DEF IInv
<1>3. QED
  BY <1>1, <1>2, RowWithoutOwner DEF InsertFails, apiVars

LEMMA TakenForDuplicateOwnership ==
  ASSUME IInv, TypeOK', NEW w \in Worker, NEW tier \in Tier, TakenForDuplicate(w, tier)
  PROVE  IInv'
<1>1. at[w] = "score" /\ at' = [at EXCEPT ![w] = "ack"] /\ UNCHANGED <<event, msg, verdict, sent>>
  BY DEF TakenForDuplicate, Goto, apiVars
<1>2. at'[w] = "ack" /\ \A v \in Worker \ {w} : at'[v] = at[v]
  BY <1>1 DEF IInv, TypeOK
<1>3. CASE UNCHANGED audit
  BY <1>1, <1>2, <1>3, Bystander DEF Serving
<1>4. QED
  BY <1>1, <1>2, <1>3, TakenAudit, RowWithoutOwner DEF IInv

\* The effect a serving worker triggers next.
NextEffect(w) ==
  CASE at[w] = "explain" -> "explanation"
    [] at[w] = "act" /\ verdict[w] = "NUDGE_PREPAY" -> "link"
    [] at[w] = "act" /\ verdict[w] # "NUDGE_PREPAY" -> "gate"

\* A serving worker triggers its next effect and moves on, or gives up.
LEMMA TriggerOwnership ==
  ASSUME IInv, TypeOK', NEW w \in Worker, Serving(w),
         Trigger(EventOf(w), NextEffect(w)),
         UNCHANGED <<event, msg, verdict, audit>>,
         \A v \in Worker \ {w} : at'[v] = at[v],
         at'[w] # "act",
         at'[w] = "explain" => at[w] = "act"
  PROVE  IInv'
<1> DEFINE E == EventOf(w)
<1>1. E \in Event /\ NextEffect(w) \in Effect
  BY WorkerTask DEF IInv, Serving, NextEffect, Effect
<1>2. \A e \in Event, f \in Effect :
        sent'[e][f] = IF e = E /\ f = NextEffect(w) THEN sent[e][f] + 1 ELSE sent[e][f]
  BY <1>1, TriggerTyped DEF IInv
<1>3. \A v \in Worker : EventOf(v)' = EventOf(v)
  BY DEF EventOf, Task
<1>4. verdict[w] \in Tier /\ audit[E] = verdict[w] /\ (at[w] = "act" => verdict[w] # "ALLOW_COD")
  BY DEF IInv, Ownership
<1>5. \A v \in Worker : Serving(v) /\ v # w => EventOf(v) # E
  BY DEF IInv, Ownership
<1>6. sent[E][NextEffect(w)] = 0
  BY <1>1 DEF IInv, Ownership, NextEffect, Serving
<1>7. \A v \in Worker : Serving(v)' => Serving(v)
  BY DEF Serving
<1>8. \A v \in Worker, f \in Effect :
        Serving(v) /\ v # w => sent'[EventOf(v)][f] = sent[EventOf(v)][f]
  BY <1>2, <1>5, WorkerTask DEF IInv, Serving
<1>9. Ownership'
  <2>1. \A e \in Event : audit'[e] = NoTier => \A f \in Effect : sent'[e][f] = 0
    BY <1>2, <1>4 DEF IInv, Ownership, Tier, NoTier
  <2>2. \A u, v \in Worker :
          Serving(u)' /\ Serving(v)' /\ EventOf(u)' = EventOf(v)' => u = v
    BY <1>3, <1>7 DEF IInv, Ownership
  <2>3. \A v \in Worker : Serving(v)' =>
          verdict'[v] \in Tier /\ audit'[EventOf(v)'] = verdict'[v]
    BY <1>3, <1>7 DEF IInv, Ownership
  <2>4. ASSUME NEW v \in Worker, at'[v] = "act"
        PROVE  verdict'[v] # "ALLOW_COD" /\ \A f \in Effect : sent'[EventOf(v)'][f] = 0
    <3>1. v # w /\ at[v] = "act" /\ Serving(v)
      BY <2>4 DEF Serving
    <3>2. QED
      BY <1>3, <1>8, <3>1 DEF IInv, Ownership
  <2>5. ASSUME NEW v \in Worker, at'[v] = "explain"
        PROVE  /\ sent'[EventOf(v)']["explanation"] = 0
               /\ verdict'[v] = "NUDGE_PREPAY" => sent'[EventOf(v)']["link"] = 1
               /\ verdict'[v] = "SOFT_GATE_COD" => sent'[EventOf(v)']["gate"] = 1
    <3>1. CASE v = w
      <4>1. at[w] = "act" /\ \A f \in Effect : sent[E][f] = 0
        BY <2>5, <3>1 DEF IInv, Ownership
      <4>2. QED
        BY <1>1, <1>2, <1>3, <1>4, <3>1, <4>1 DEF NextEffect, Effect, Tier
    <3>2. CASE v # w
      <4>1. at[v] = "explain" /\ Serving(v)
        BY <2>5, <3>2 DEF Serving
      <4>2. QED
        BY <1>3, <1>8, <3>2, <4>1 DEF IInv, Ownership, Effect
    <3>3. QED
      BY <3>1, <3>2
  <2>6. QED
    BY <2>1, <2>2, <2>3, <2>4, <2>5 DEF Ownership
<1>10. AtMostOnce'
  BY <1>2, <1>6 DEF IInv, AtMostOnce
<1>11. EffectsMatchAudit'
  BY <1>1, <1>2, <1>4 DEF IInv, EffectsMatchAudit, Effect, NextEffect, Serving, Tier, NoTier
<1>12. QED
  BY <1>9, <1>10, <1>11 DEF IInv

\* Every step of a worker preserves the invariant.
LEMMA WorkOwnership ==
  ASSUME IInv, TypeOK', NEW w \in Worker, Work(w)
  PROVE  IInv'
<1>t. at \in [Worker -> WorkerPC]
  BY DEF IInv, TypeOK
<1>1. ASSUME NEW m \in Message, Fetch(w, m) \/ FetchInVain(w, m) PROVE IInv'
  BY <1>1, <1>t, Bystander DEF Fetch, FetchInVain, Take, Goto, Serving, apiVars, IInv, TypeOK
<1>2. ASSUME CatchException(w), at[w] # "idle"
      PROVE  at'[w] \in {"ack", "free"} /\ \A v \in Worker \ {w} : at'[v] = at[v]
  BY <1>2, CatchTyped DEF IInv
<1>3. CASE ScoringFails(w)
  BY <1>2, <1>3, Bystander DEF ScoringFails, Serving, apiVars
<1>4. CASE Act(w)
  <2>1. at[w] = "act" /\ at' = [at EXCEPT ![w] = "explain"]
    BY <1>4 DEF Act, Goto
  <2>2. NextEffect(w) = IF verdict[w] = "NUDGE_PREPAY" THEN "link" ELSE "gate"
    BY <2>1 DEF NextEffect
  <2>3. QED
    BY <1>4, <1>t, <2>1, <2>2, TriggerOwnership DEF Act, Serving, apiVars
<1>5. CASE Explain(w)
  <2>1. at[w] = "explain" /\ at' = [at EXCEPT ![w] = "ack"]
    BY <1>5 DEF Explain, Goto
  <2>2. NextEffect(w) = "explanation"
    BY <2>1 DEF NextEffect
  <2>3. QED
    BY <1>5, <1>t, <2>1, <2>2, TriggerOwnership DEF Explain, Serving, apiVars
<1>6. CASE DispatchFails(w)
  <2>1. /\ Serving(w)
        /\ Trigger(EventOf(w), NextEffect(w)) \/ UNCHANGED sent
        /\ UNCHANGED <<event, msg, verdict, audit>>
    BY <1>6 DEF DispatchFails, Serving, NextEffect, apiVars
  <2>2. at'[w] \in {"ack", "free"} /\ \A v \in Worker \ {w} : at'[v] = at[v]
    BY <1>2, <1>6 DEF DispatchFails
  <2>3. CASE UNCHANGED sent
    BY <2>1, <2>2, <2>3, Bystander DEF Serving
  <2>4. CASE Trigger(EventOf(w), NextEffect(w))
    BY <2>1, <2>2, <2>4, TriggerOwnership
  <2>5. QED
    BY <2>1, <2>3, <2>4
<1>7. CASE FreeKey(w)
  BY <1>7, <1>t, Bystander DEF FreeKey, Goto, Serving, apiVars
<1>8. CASE WriteSentinel(w)
  BY <1>8, <1>t, Bystander DEF WriteSentinel, Goto, Serving, apiVars
<1>9. CASE Ack(w)
  BY <1>9, <1>t, Bystander DEF Ack, BecomeIdle, Goto, Serving, apiVars, IInv, TypeOK
<1>10. QED
  BY <1>1, <1>3, <1>4, <1>5, <1>6, <1>7, <1>8, <1>9, InsertOwnership, InsertFailsOwnership,
     TakenForDuplicateOwnership DEF Work

LEMMA NextOwnership == IInv /\ [Next]_vars => IInv'
<1> SUFFICES ASSUME IInv, [Next]_vars PROVE IInv'
  OBVIOUS
<1>1. TypeOK'
  BY NextTyped DEF IInv
<1>2. ASSUME NEW r \in Request, Api(r) PROVE IInv'
  <2>1. UNCHANGED <<event, audit, sent, workerVars>>
    BY <1>2 DEF Api, TakeKey, FindKey, RedisUnavailable, LookupAudit, LookupFailure,
                Enqueue, EnqueueFails, ApiCrash
  <2>2. QED
    BY <1>1, <2>1, Bystander DEF workerVars
<1>3. ASSUME NEW e \in Event, KeyExpires(e) PROVE IInv'
  BY <1>1, <1>3, Bystander DEF KeyExpires, apiVars, workerVars
<1>4. ASSUME NEW w \in Worker, Work(w) PROVE IInv'
  BY <1>1, <1>4, WorkOwnership
<1>5. ASSUME NEW w \in Worker, WorkerCrash(w) PROVE IInv'
  BY <1>1, <1>5, Bystander DEF WorkerCrash, BecomeIdle, Goto, Serving, apiVars, IInv, TypeOK
<1>6. ASSUME NEW w \in Worker, ConnectionLost(w) PROVE IInv'
  BY <1>1, <1>6, Bystander DEF ConnectionLost, apiVars, workerVars
<1>7. CASE UNCHANGED vars
  BY <1>1, <1>7, Bystander DEF vars
<1>8. QED
  BY <1>2, <1>3, <1>4, <1>5, <1>6, <1>7 DEF Next, Quiescent

LEMMA Invariant == Spec => []IInv
BY InitOwnership, NextOwnership, PTL DEF Spec

\* No payment link, soft gate or explanation is triggered twice for one event,
\* whatever crashes, is redelivered, retried, resubmitted or expires.
THEOREM EffectsAtMostOnce == Spec => []AtMostOnce
BY Invariant, PTL DEF IInv

\* Every side effect is the one of the tier on the audit_log row.
THEOREM EffectsFollowTheRecord == Spec => []EffectsMatchAudit
BY Invariant, PTL DEF IInv

\* Between its insert and its last dispatch a worker has the event to itself.
THEOREM OneOwner == Spec => []Ownership
BY Invariant, PTL DEF IInv

-----------------------------------------------------------------------------
(* The audit log.                                                           *)

\* The only steps that change audit_log fill an empty row.
LEMMA AuditStep ==
  ASSUME TypeOK, [Next]_vars
  PROVE  \/ UNCHANGED audit
         \/ \E e \in Event, tier \in Tier :
              audit[e] = NoTier /\ audit' = [audit EXCEPT ![e] = tier]
<1>1. ASSUME NEW r \in Request, Api(r) PROVE UNCHANGED audit
  BY <1>1 DEF Api, TakeKey, FindKey, RedisUnavailable, LookupAudit, LookupFailure,
              Enqueue, EnqueueFails, ApiCrash
<1>2. ASSUME NEW w \in Worker, Work(w)
      PROVE  \/ UNCHANGED audit
             \/ \E e \in Event, tier \in Tier :
                  audit[e] = NoTier /\ audit' = [audit EXCEPT ![e] = tier]
  <2>1. ASSUME NEW tier \in Tier, Insert(w, tier) \/ InsertFails(w, tier)
        PROVE  \/ UNCHANGED audit
               \/ \E e \in Event : audit[e] = NoTier /\ audit' = [audit EXCEPT ![e] = tier]
    <3>1. EventOf(w) \in Event
      BY <2>1, WorkerTask DEF Insert, InsertFails
    <3>2. QED
      BY <2>1, <3>1 DEF Insert, InsertFails
  <2>2. ASSUME NEW tier \in Tier, TakenForDuplicate(w, tier)
        PROVE  \/ UNCHANGED audit
               \/ \E e \in Event : audit[e] = NoTier /\ audit' = [audit EXCEPT ![e] = tier]
    BY <2>2, TakenAudit
  <2>3. QED
    BY <1>2, <2>1, <2>2 DEF Work, Fetch, FetchInVain, Take, ScoringFails, Act, Explain,
                            DispatchFails, FreeKey,
                      WriteSentinel, Ack
<1>3. QED
  BY <1>1, <1>2 DEF Next, KeyExpires, WorkerCrash, ConnectionLost, Quiescent, vars

\* No row of audit_log is ever changed or removed.
THEOREM AuditIsAppendOnly == Spec => AuditAppendOnly
<1>1. TypeOK /\ [Next]_vars => [\A e \in Event : audit[e] # NoTier => audit'[e] = audit[e]]_vars
  BY AuditStep DEF TypeOK
<1>2. QED
  BY <1>1, TypeCorrect, PTL DEF Spec, AuditAppendOnly

-----------------------------------------------------------------------------
(* The effects that an audited order still has to get.                      *)

\* A worker with a message stays where it is, takes a step of its own, or dies.
LEMMA OwnStep ==
  ASSUME TypeOK, [Next]_vars, NEW w \in Worker, at[w] # "idle"
  PROVE  (at'[w] = at[w] /\ msg'[w] = msg[w]) \/ Work(w) \/ WorkerCrash(w)
<1>t. /\ at \in [Worker -> WorkerPC]
      /\ msg \in [Worker -> Message \union {NoMessage}]
  BY DEF TypeOK
<1> DEFINE Stays == at'[w] = at[w] /\ msg'[w] = msg[w]
<1>1. ASSUME NEW v \in Worker, v # w, Work(v) PROVE Stays
  <2>1. ASSUME at[v] # "idle", CatchException(v), UNCHANGED msg PROVE Stays
    BY <1>1, <1>t, <2>1, CatchTyped
  <2>2. ASSUME NEW place, Goto(v, place), UNCHANGED msg PROVE Stays
    BY <1>1, <1>t, <2>2 DEF Goto
  <2>3. ASSUME NEW m \in Message, Fetch(v, m) \/ FetchInVain(v, m) PROVE Stays
    BY <1>1, <1>t, <2>3 DEF Fetch, FetchInVain, Take, Goto
  <2>4. ASSUME BecomeIdle(v) PROVE Stays
    BY <1>1, <1>t, <2>4 DEF BecomeIdle, Goto
  <2>5. QED
    BY <1>1, <2>1, <2>2, <2>3, <2>4
       DEF Work, Insert, InsertFails, TakenForDuplicate, ScoringFails, Act, Explain,
           DispatchFails, FreeKey, WriteSentinel, Ack
<1>2. ASSUME NEW v \in Worker, v # w, WorkerCrash(v) PROVE Stays
  BY <1>2, <1>t DEF WorkerCrash, BecomeIdle, Goto
<1>3. ASSUME NEW r \in Request, Api(r) PROVE Stays
  BY <1>3 DEF Api, TakeKey, FindKey, RedisUnavailable, LookupAudit, LookupFailure, Enqueue,
              EnqueueFails, ApiCrash, workerVars
<1>4. QED
  BY <1>1, <1>2, <1>3 DEF Next, KeyExpires, ConnectionLost, Quiescent, vars, workerVars

\* No error separates the row from what follows it: none of the database after
\* its commit, none of the broker in a dispatch, none that is misread.
DispatchIsSafe == Env \cap {"broker_error", "db_error", "misread_error"} = {}

\* What ServedUnlessOutage promises of an audited order in the end is at any
\* time either true or in the hands of the worker that made the row.  A lost
\* connection, unlike the death of a worker, is no exception.
EffectsAreDue ==
  \A e \in Event : audit[e] # NoTier =>
    \/ Served(e)
    \/ \E w \in Worker : Serving(w) /\ EventOf(w) = e
    \/ "worker_crash" \in Env /\ outages > 0

\* No step takes an effect back.
LEMMA SentGrows ==
  ASSUME TypeOK, [Next]_vars, NEW e \in Event, NEW f \in Effect
  PROVE  sent'[e][f] >= sent[e][f] /\ outages' >= outages
<1>1. sent \in [Event -> [Effect -> Nat]] /\ outages \in Nat
  BY ConstantAssumption DEF TypeOK
<1>2. ASSUME NEW d \in Event, NEW g \in Effect, Trigger(d, g)
      PROVE  sent'[e][f] >= sent[e][f]
  BY <1>1, <1>2, TriggerTyped
<1>3. ASSUME NEW w \in Worker, Work(w)
      PROVE  sent'[e][f] >= sent[e][f] /\ UNCHANGED outages
  <2>1. CASE UNCHANGED sent
    BY <1>1, <1>3, <2>1 DEF Work, Fetch, FetchInVain, Take, Insert, InsertFails,
                            TakenForDuplicate, ScoringFails,
                            Act, Explain, DispatchFails, FreeKey, WriteSentinel, Ack
  <2>2. CASE at[w] # "idle" /\ ~ UNCHANGED sent
    BY <1>2, <1>3, <2>2, WorkerTask
       DEF Work, Fetch, FetchInVain, Take, Insert, InsertFails, TakenForDuplicate,
           ScoringFails, Act, Explain,
           DispatchFails, FreeKey, WriteSentinel, Ack, Effect
  <2>3. CASE at[w] = "idle"
    BY <1>1, <1>3, <2>3 DEF Work, Fetch, FetchInVain, Take, Insert, InsertFails,
                            TakenForDuplicate, ScoringFails,
                            Act, Explain, DispatchFails, FreeKey, WriteSentinel, Ack
  <2>4. QED
    BY <2>1, <2>2, <2>3
<1>4. ASSUME NEW r \in Request, Api(r) PROVE UNCHANGED <<sent, outages>>
  BY <1>4 DEF Api, TakeKey, FindKey, RedisUnavailable, LookupAudit, LookupFailure, Enqueue,
              EnqueueFails, ApiCrash
<1>5. ASSUME NEW w \in Worker, WorkerCrash(w) \/ ConnectionLost(w)
      PROVE  UNCHANGED sent /\ outages' = outages + 1
  BY <1>5 DEF WorkerCrash, ConnectionLost, Redeliver
<1>6. QED
  BY <1>1, <1>3, <1>4, <1>5 DEF Next, KeyExpires, Quiescent, vars

\* An order that has been served stays so.
LEMMA ServedStays ==
  ASSUME IInv, IInv', [Next]_vars, NEW e \in Event, audit[e] # NoTier, Served(e)
  PROVE  Served(e)'
<1>1. audit'[e] = audit[e]
  BY AuditStep DEF IInv, TypeOK
<1>2. ASSUME NEW f \in Effect, sent[e][f] = 1 PROVE sent'[e][f] = 1
  <2>1. sent'[e][f] \in Nat /\ sent'[e][f] <= 1 /\ sent'[e][f] >= sent[e][f]
    BY SentGrows DEF IInv, TypeOK, AtMostOnce
  <2>2. QED
    BY <1>2, <2>1
<1>3. QED
  BY <1>1, <1>2 DEF Served, Effect

\* The serving worker goes on to the next effect, or has triggered the last.
LEMMA ServingGoesOn ==
  ASSUME IInv, DispatchIsSafe, NEW w \in Worker, Serving(w), Work(w),
         NEW e \in Event, EventOf(w) = e
  PROVE  (Serving(w)' /\ EventOf(w)' = e) \/ Served(e)'
<1>t. /\ at \in [Worker -> WorkerPC] /\ EventOf(w) \in Event
      /\ sent \in [Event -> [Effect -> Nat]]
      /\ verdict[w] \in Tier /\ audit[EventOf(w)] = verdict[w]
  BY WorkerTask DEF IInv, TypeOK, Serving, Ownership
<1>1. CASE Act(w)
  BY <1>t, <1>1 DEF Act, Goto, Serving, EventOf, Task, apiVars
<1>2. CASE Explain(w)
  <2>1. at[w] = "explain"
    BY <1>2 DEF Explain
  <2>2. /\ sent[EventOf(w)]["explanation"] = 0
        /\ verdict[w] = "NUDGE_PREPAY" => sent[EventOf(w)]["link"] = 1
        /\ verdict[w] = "SOFT_GATE_COD" => sent[EventOf(w)]["gate"] = 1
    BY <2>1 DEF IInv, Ownership
  <2>3. \A f \in Effect : sent'[EventOf(w)][f] =
          IF f = "explanation" THEN sent[EventOf(w)][f] + 1 ELSE sent[EventOf(w)][f]
    BY <1>t, <1>2, TriggerTyped DEF Explain, Effect, IInv
  <2>4. UNCHANGED <<audit, msg, event>>
    BY <1>2 DEF Explain, apiVars
  <2>5. Served(e)'
    BY <1>t, <2>2, <2>3, <2>4 DEF Served, Effect
  <2>6. QED
    BY <2>5
<1>3. QED
  BY <1>1, <1>2 DEF Work, Fetch, FetchInVain, Take, Insert, InsertFails, TakenForDuplicate,
                    ScoringFails,
        DispatchFails, FreeKey, WriteSentinel, Ack, Serving, DispatchIsSafe

LEMMA DueNext ==
  ASSUME IInv, IInv', DispatchIsSafe, EffectsAreDue, [Next]_vars
  PROVE  EffectsAreDue'
<1> SUFFICES ASSUME NEW e \in Event, audit'[e] # NoTier
             PROVE  \/ Served(e)'
                    \/ \E w \in Worker : Serving(w)' /\ EventOf(w)' = e
                    \/ "worker_crash" \in Env /\ outages' > 0
  BY DEF EffectsAreDue
<1>t. TypeOK /\ [Next]_vars
  BY DEF IInv
<1>1. CASE audit[e] = NoTier
  <2>1. PICK w \in Worker, tier \in Tier : Insert(w, tier) /\ EventOf(w) = e
    <3>1. ASSUME NEW r \in Request, Api(r) PROVE UNCHANGED audit
      BY <3>1 DEF Api, TakeKey, FindKey, RedisUnavailable, LookupAudit, LookupFailure,
                  Enqueue, EnqueueFails, ApiCrash
    <3>2. ASSUME NEW w \in Worker, Work(w)
          PROVE  \E tier \in Tier : Insert(w, tier) /\ EventOf(w) = e
      BY <1>1, <1>t, <3>2
         DEF Work, Fetch, FetchInVain, Take, Insert, InsertFails, TakenForDuplicate,
             ScoringFails, Act, Explain,
             DispatchFails, FreeKey, WriteSentinel, Ack, DispatchIsSafe, TypeOK
    <3>3. QED
      BY <1>1, <3>1, <3>2 DEF Next, KeyExpires, WorkerCrash, ConnectionLost, Quiescent, vars
  <2>2. Serving(w)' /\ EventOf(w)' = e
    BY <1>1, <1>t, <2>1
       DEF Insert, Goto, FirstDispatch, Serving, EventOf, Task, apiVars, TypeOK
  <2>3. QED
    BY <2>2
<1>2. CASE audit[e] # NoTier /\ Served(e)
  BY <1>2, ServedStays
<1>3. CASE outages > 0 /\ "worker_crash" \in Env
  <2>1. outages' >= outages /\ outages \in Nat /\ outages' \in Nat
    BY <1>t, SentGrows, ConstantAssumption DEF IInv, TypeOK, Effect
  <2>2. QED
    BY <1>3, <2>1
<1>4. ASSUME NEW w \in Worker, Serving(w), EventOf(w) = e
      PROVE  \/ Served(e)'
             \/ Serving(w)' /\ EventOf(w)' = e
             \/ "worker_crash" \in Env /\ outages' > 0
  <2>1. CASE at'[w] = at[w] /\ msg'[w] = msg[w]
    <3>1. UNCHANGED event
      BY <1>t DEF Next, Api, TakeKey, FindKey, RedisUnavailable, LookupAudit, LookupFailure,
             Enqueue, EnqueueFails, ApiCrash, KeyExpires, Work, Fetch, FetchInVain, Take,
             Insert, InsertFails,
             TakenForDuplicate, ScoringFails, Act, Explain, DispatchFails, FreeKey,
             WriteSentinel, Ack, WorkerCrash, ConnectionLost, Quiescent, vars, apiVars
    <3>2. QED
      BY <1>4, <2>1, <3>1 DEF Serving, EventOf, Task
  <2>2. CASE Work(w)
    BY <1>4, <2>2, ServingGoesOn
  <2>3. CASE WorkerCrash(w)
    BY <2>3, ConstantAssumption DEF WorkerCrash, Redeliver, IInv, TypeOK
  <2>4. QED
    BY <1>4, <1>t, <2>1, <2>2, <2>3, OwnStep DEF Serving
<1>5. QED
  BY <1>1, <1>2, <1>3, <1>4 DEF EffectsAreDue

\* The safety half of ServedUnlessOutage, and more: an order with a row has its
\* action and its explanation, or the worker that made the row is on its way to
\* trigger them; only the death of a worker can come between.
THEOREM EffectsAreOwed == DispatchIsSafe => (Spec => []EffectsAreDue)
<1> SUFFICES ASSUME DispatchIsSafe PROVE Spec => []EffectsAreDue
  OBVIOUS
<1>1. Init => EffectsAreDue
  BY DEF Init, EffectsAreDue
<1>2. IInv /\ IInv' /\ EffectsAreDue /\ [Next]_vars => EffectsAreDue'
  BY DueNext
<1>3. QED
  BY <1>1, <1>2, Invariant, PTL DEF Spec

-----------------------------------------------------------------------------
(* The refinement.                                                         *)

\* Triggering an effect is an Act or an Explain of the promise.
LEMMA TriggerKeepsPromise ==
  ASSUME IInv, NEW w \in Worker, Serving(w), UNCHANGED audit,
         Trigger(EventOf(w), NextEffect(w))
  PROVE  Promise!Next
<1> DEFINE E == EventOf(w)
<1>1. E \in Event /\ NextEffect(w) \in Effect
  BY WorkerTask DEF IInv, Serving, NextEffect, Effect
<1>2. \A e \in Event, f \in Effect :
        sent'[e][f] = IF e = E /\ f = NextEffect(w) THEN sent[e][f] + 1 ELSE sent[e][f]
  BY <1>1, TriggerTyped DEF IInv
<1>3. sent \in [Event -> [Effect -> Nat]]
  BY DEF IInv, TypeOK
<1>4. verdict[w] \in Tier /\ audit[E] = verdict[w]
  BY DEF IInv, Ownership
<1>5. Done' = [Done EXCEPT ![E] = @ \union {NextEffect(w)}]
  <2>1. ASSUME NEW e \in Event
        PROVE  Done'[e] = IF e = E THEN Done[e] \union {NextEffect(w)} ELSE Done[e]
    <3>1. \A f \in Effect : sent'[e][f] > 0 <=> sent[e][f] > 0 \/ (e = E /\ f = NextEffect(w))
      BY <1>2, <1>3
    <3>2. Done'[e] = {f \in Effect : sent'[e][f] > 0} /\ Done[e] = {f \in Effect : sent[e][f] > 0}
      BY DEF Done
    <3>3. QED
      BY <1>1, <3>1, <3>2
  <2>2. QED
    BY <1>1, <2>1 DEF Done
<1>6. CASE at[w] = "act"
  <2>1. verdict[w] # "ALLOW_COD" /\ \A f \in Effect : sent[E][f] = 0
    BY <1>6 DEF IInv, Ownership
  <2>2. Done[E] = {}
    BY <1>1, <2>1 DEF Done
  <2>3. NextEffect(w) = Promise!ActionOf(audit[E])
    BY <1>4, <1>6, <2>1 DEF NextEffect, Promise!ActionOf, Tier
  <2>4. Promise!Act(E)
    BY <1>4, <1>5, <2>1, <2>2, <2>3 DEF Promise!Act, Tier
  <2>5. QED
    BY <1>1, <2>4 DEF Promise!Next
<1>7. CASE at[w] = "explain"
  <2>1. /\ sent[E]["explanation"] = 0
        /\ verdict[w] = "NUDGE_PREPAY" <=> sent[E]["link"] > 0
        /\ verdict[w] = "SOFT_GATE_COD" <=> sent[E]["gate"] > 0
    BY <1>1, <1>4, <1>7 DEF IInv, Ownership, EffectsMatchAudit
  <2>2. NextEffect(w) = "explanation"
    BY <1>7 DEF NextEffect
  <2>3. Done[E] = {Promise!ActionOf(audit[E])} \ {"none"}
    <3>1. Done[E] = {f \in {"link", "gate", "explanation"} : sent[E][f] > 0}
      BY <1>1 DEF Done, Effect
    <3>2. CASE verdict[w] = "ALLOW_COD"
      BY <1>3, <1>1, <1>4, <2>1, <3>1, <3>2 DEF Promise!ActionOf, Effect
    <3>3. CASE verdict[w] = "NUDGE_PREPAY"
      BY <1>3, <1>1, <1>4, <2>1, <3>1, <3>3 DEF Promise!ActionOf, Effect
    <3>4. CASE verdict[w] = "SOFT_GATE_COD"
      BY <1>3, <1>1, <1>4, <2>1, <3>1, <3>4 DEF Promise!ActionOf, Effect
    <3>5. QED
      BY <1>4, <3>2, <3>3, <3>4 DEF Tier
  <2>4. Promise!Explain(E)
    BY <1>4, <1>5, <2>2, <2>3 DEF Promise!Explain, Promise!NoTier, Tier
  <2>5. QED
    BY <1>1, <2>4 DEF Promise!Next
<1>8. QED
  BY <1>6, <1>7 DEF Serving

LEMMA RecordKeepsPromise ==
  ASSUME TypeOK, NEW w \in Worker, NEW tier \in Tier,
         Insert(w, tier) \/ InsertFails(w, tier) \/ TakenForDuplicate(w, tier), audit' # audit
  PROVE  Promise!Next
<1>1. EventOf(w) \in Event
  BY WorkerTask DEF Insert, InsertFails, TakenForDuplicate
<1>2. audit[EventOf(w)] = NoTier /\ audit' = [audit EXCEPT ![EventOf(w)] = tier] /\ sent' = sent
  <2>1. CASE TakenForDuplicate(w, tier)
    BY <2>1, TakenAudit DEF TakenForDuplicate
  <2>2. QED
    BY <2>1 DEF Insert, InsertFails
<1>3. Promise!Record(EventOf(w), tier)
  BY <1>2 DEF Promise!Record, Promise!NoTier, NoTier, Done
<1>4. QED
  BY <1>1, <1>3 DEF Promise!Next, Promise!Tier, Tier

\* Every step of the pipeline is a step of the promise or invisible to it.
LEMMA StepKeepsPromise ==
  ASSUME IInv, [Next]_vars
  PROVE  [Promise!Next]_<<audit, Done>>
<1>s. UNCHANGED <<audit, sent>> => UNCHANGED <<audit, Done>>
  BY DEF Done
<1>1. ASSUME NEW r \in Request, Api(r) PROVE UNCHANGED <<audit, sent>>
  BY <1>1 DEF Api, TakeKey, FindKey, RedisUnavailable, LookupAudit, LookupFailure,
              Enqueue, EnqueueFails, ApiCrash
<1>2. ASSUME NEW w \in Worker, Work(w) PROVE Promise!Next \/ UNCHANGED <<audit, sent>>
  <2>1. ASSUME NEW tier \in Tier,
               Insert(w, tier) \/ InsertFails(w, tier) \/ TakenForDuplicate(w, tier)
        PROVE  Promise!Next \/ UNCHANGED <<audit, sent>>
    BY <2>1, RecordKeepsPromise DEF IInv, Insert, InsertFails, TakenForDuplicate
  <2>2. ASSUME Act(w) PROVE Promise!Next
    <3>1. Serving(w) /\ NextEffect(w) = IF verdict[w] = "NUDGE_PREPAY" THEN "link" ELSE "gate"
      BY <2>2 DEF Act, Serving, NextEffect
    <3>2. QED
      BY <2>2, <3>1, TriggerKeepsPromise DEF Act
  <2>3. ASSUME Explain(w) PROVE Promise!Next
    <3>1. Serving(w) /\ NextEffect(w) = "explanation"
      BY <2>3 DEF Explain, Serving, NextEffect
    <3>2. QED
      BY <2>3, <3>1, TriggerKeepsPromise DEF Explain
  <2>4. ASSUME DispatchFails(w) PROVE Promise!Next \/ UNCHANGED <<audit, sent>>
    <3>1. /\ Serving(w) /\ UNCHANGED audit
          /\ Trigger(EventOf(w), NextEffect(w)) \/ UNCHANGED sent
      BY <2>4 DEF DispatchFails, Serving, NextEffect
    <3>2. QED
      BY <3>1, TriggerKeepsPromise
  <2>5. QED
    BY <1>2, <2>1, <2>2, <2>3, <2>4
       DEF Work, Fetch, FetchInVain, Take, ScoringFails, FreeKey, WriteSentinel, Ack
<1>3. QED
  BY <1>s, <1>1, <1>2 DEF Next, KeyExpires, WorkerCrash, ConnectionLost, Quiescent, vars

\* The pipeline implements ScoringPromise: through every interleaving, crash and
\* retry, an event is recorded once, then acted upon, then explained.
THEOREM PipelineKeepsPromise == Spec => ImplementsPromise
<1>1. Init => Promise!Init
  BY DEF Init, Promise!Init, Promise!NoTier, NoTier, Done, Effect
<1>2. IInv /\ [Next]_vars => [Promise!Next]_<<audit, Done>>
  BY StepKeepsPromise
<1>3. QED
  BY <1>1, <1>2, Invariant, PTL DEF Spec, ImplementsPromise, Promise!Spec
=============================================================================
