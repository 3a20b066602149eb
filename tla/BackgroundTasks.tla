--------------------------- MODULE BackgroundTasks ---------------------------
(***************************************************************************)
(* The tasks that score_order_task leaves behind, on the Celery processes  *)
(* that run both kinds of them: explain_order_task                         *)
(* (app/services/llm_explain.py) in full, and of create_payment_link_task  *)
(* (app/services/payment_tasks.py) the way into and out of its coroutine,  *)
(* which PaymentLink models.                                               *)
(*                                                                         *)
(* What they share is the asyncio event loop of the process.               *)
(* asyncio.run, the entry of an explanation, makes a loop of its own and   *)
(* leaves the thread with none; asyncio.get_event_loop, the entry of a     *)
(* link task, makes one the first time but raises in a thread whose loop   *)
(* was taken away (Python 3.11, the Dockerfile's).  Copies of one message  *)
(* are not told apart.                                                     *)
(***************************************************************************)
EXTENDS Naturals

CONSTANTS
  Event,       \* scored orders, each with one explanation task
  LinkTask,    \* payment link tasks
  Worker,      \* prefork processes
  MaxRetries,  \* max_retries of create_payment_link_task
  Env,         \* what may go wrong, subset of EnvKind
  MaxOutages,  \* bound on worker crashes and errors of the result backend
  NoJob        \* different from every job

Job == Event \union LinkTask
EnvKind == {"llm_error", "db_error", "state_error", "link_error", "worker_crash"}
Explanation == {"none", "complete", "fallback"}
LinkEnd == {"pending", "ran", "dead"}
Loop == {"unset", "open", "removed"}
WorkerPC == {"idle", "call", "saveComplete", "saveFallback", "enter", "run", "ack"}

ASSUME BackgroundAssumption ==
  /\ Event \intersect LinkTask = {}
  /\ NoJob \notin Job
  /\ MaxRetries \in Nat
  /\ MaxOutages \in Nat
  /\ Env \subseteq EnvKind

VARIABLES
  dispatched,   \* the jobs score_order_task has left so far
  queue,        \* those that wait, in RabbitMQ
  at,           \* where each process is
  job,          \* the job it works on
  loop,         \* the event loop of its main thread
  explanation,  \* llm_explanations: the status of the row of each event
  retries,      \* retries of each link task
  link,         \* whether its coroutine has run, or its retries are used up
  unsaved,      \* history: the events that an error of Postgres or Redis has met
  outages

linkVars == <<retries, link>>
faultVars == <<unsaved, outages>>
vars == <<dispatched, queue, at, job, loop, explanation, retries, link, unsaved, outages>>

Init ==
  /\ dispatched = {}
  /\ queue = {}
  /\ at = [w \in Worker |-> "idle"]
  /\ job = [w \in Worker |-> NoJob]
  /\ loop = [w \in Worker |-> "unset"]
  /\ explanation = [e \in Event |-> "none"]
  /\ retries = [l \in LinkTask |-> 0]
  /\ link = [l \in LinkTask |-> "pending"]
  /\ unsaved = {}
  /\ outages = 0

Goto(w, place) == at' = [at EXCEPT ![w] = place]
SetLoop(w, l) == loop' = [loop EXCEPT ![w] = l]

\* delay() in score_order_task, which leaves each job once (AtMostOnce of
\* ScoringPipeline).
Dispatch(j) ==
  /\ j \in Job \ dispatched
  /\ dispatched' = dispatched \union {j}
  /\ queue' = queue \union {j}
  /\ UNCHANGED <<at, job, loop, explanation, linkVars, faultVars>>

Fetch(w, j) ==
  /\ at[w] = "idle"
  /\ j \in queue
  /\ queue' = queue \ {j}
  /\ job' = [job EXCEPT ![w] = j]
  /\ Goto(w, IF j \in Event THEN "call" ELSE "enter")
  /\ UNCHANGED <<dispatched, loop, explanation, linkVars, faultVars>>

Outage ==
  /\ outages < MaxOutages
  /\ outages' = outages + 1

\* task_track_started: Redis does not store STARTED, and the task is over without
\* its body.
NotStarted(w, j) ==
  /\ "state_error" \in Env
  /\ at[w] = "idle"
  /\ j \in queue
  /\ queue' = queue \ {j}
  /\ job' = [job EXCEPT ![w] = j]
  /\ unsaved' = unsaved \union ({j} \intersect Event)
  /\ Outage
  /\ Goto(w, "ack")
  /\ UNCHANGED <<dispatched, loop, explanation, linkVars>>

\* asyncio.run around the call of OpenRouter, whose errors and timeouts lead to
\* the static fallback.
CallModel(w) ==
  /\ at[w] = "call"
  /\ SetLoop(w, "removed")
  /\ \/ Goto(w, "saveComplete")
     \/ "llm_error" \in Env /\ Goto(w, "saveFallback")
  /\ UNCHANGED <<dispatched, queue, job, explanation, linkVars, faultVars>>

Overwrite(e, status) == explanation' = [explanation EXCEPT ![e] = status]  \* mutant
Keep(e, status) ==
  explanation' = [explanation EXCEPT ![e] = IF @ = "none" THEN status ELSE @]

\* _save_explanation_sync: the UNIQUE event_id keeps the first row, and an
\* error of Postgres, before or after its commit, is logged and swallowed.
SaveExplanation(w) ==
  /\ \/ at[w] = "saveComplete" /\ Keep(job[w], "complete") /\ UNCHANGED unsaved
     \/ at[w] = "saveFallback" /\ Keep(job[w], "fallback") /\ UNCHANGED unsaved
     \/ /\ at[w] \in {"saveComplete", "saveFallback"}
        /\ "db_error" \in Env
        /\ unsaved' = unsaved \union {job[w]}
        /\ UNCHANGED explanation
  /\ Goto(w, "ack")
  /\ UNCHANGED <<dispatched, queue, job, loop, linkVars, outages>>

\* get_event_loop().
EnterLoop(w) ==
  /\ at[w] = "enter"
  /\ loop[w] # "removed"
  /\ SetLoop(w, "open")
  /\ Goto(w, "run")
  /\ UNCHANGED <<dispatched, queue, job, explanation, linkVars, faultVars>>

\* self.retry() publishes the task again as long as it may.
RetryAlways(l) ==  \* mutant: no max_retries
  /\ queue' = queue \union {l}
  /\ retries' = [retries EXCEPT ![l] = @ + 1]
RetryLink(l) ==
  IF retries[l] < MaxRetries
    THEN /\ queue' = queue \union {l}
         /\ retries' = [retries EXCEPT ![l] = @ + 1]
    ELSE UNCHANGED <<queue, retries>>

\* reconcile_or_create runs, and may raise.
RunLink(w) ==
  /\ at[w] = "run"
  /\ link' = [link EXCEPT ![job[w]] = "ran"]
  /\ \/ UNCHANGED <<queue, retries>>
     \/ "link_error" \in Env /\ RetryLink(job[w])
  /\ Goto(w, "ack")
  /\ UNCHANGED <<dispatched, job, loop, explanation, faultVars>>

\* get_event_loop() raised: the task is retried like any that failed.
NoLoop(w) ==
  LET l == job[w] IN
  /\ at[w] = "enter"
  /\ loop[w] = "removed"
  /\ RetryLink(l)
  /\ link' = IF retries[l] = MaxRetries /\ link[l] # "ran"
               THEN [link EXCEPT ![l] = "dead"] ELSE link
  /\ Goto(w, "ack")
  /\ UNCHANGED <<dispatched, job, loop, explanation, faultVars>>

Ack(w) ==
  /\ at[w] = "ack"
  /\ Goto(w, "idle")
  /\ job' = [job EXCEPT ![w] = NoJob]
  /\ UNCHANGED <<dispatched, queue, loop, explanation, linkVars, faultVars>>

Lose(w) == UNCHANGED queue  \* mutant: acknowledged when received
Requeue(w) == queue' = queue \union {job[w]}

\* The process dies and a fresh one takes its place; its message, not yet
\* acknowledged, is delivered again.
Crash(w) ==
  /\ "worker_crash" \in Env
  /\ at[w] # "idle"
  /\ Outage
  /\ Requeue(w)
  /\ Goto(w, "idle")
  /\ job' = [job EXCEPT ![w] = NoJob]
  /\ SetLoop(w, "unset")
  /\ UNCHANGED <<dispatched, explanation, linkVars, unsaved>>

Work(w) ==
  \/ \E j \in Job : Fetch(w, j) \/ NotStarted(w, j)
  \/ CallModel(w) \/ SaveExplanation(w)
  \/ EnterLoop(w) \/ RunLink(w) \/ NoLoop(w) \/ Ack(w)

Finished ==
  /\ queue = {}
  /\ \A w \in Worker : at[w] = "idle"
  /\ UNCHANGED vars

Next ==
  \/ \E j \in Job : Dispatch(j)
  \/ \E w \in Worker : Work(w) \/ Crash(w)
  \/ Finished

Spec == Init /\ [][Next]_vars

-----------------------------------------------------------------------------
\* Every variable keeps its type, and a process at work has a job of the kind,
\* one that was dispatched.
BackgroundTypeOK ==
  /\ dispatched \subseteq Job
  /\ queue \subseteq dispatched
  /\ at \in [Worker -> WorkerPC]
  /\ job \in [Worker -> Job \union {NoJob}]
  /\ loop \in [Worker -> Loop]
  /\ explanation \in [Event -> Explanation]
  /\ retries \in [LinkTask -> 0..MaxRetries]
  /\ link \in [LinkTask -> LinkEnd]
  /\ unsaved \subseteq Event
  /\ outages \in 0..MaxOutages
  /\ \A w \in Worker :
       /\ at[w] \in {"call", "saveComplete", "saveFallback"} => job[w] \in Event
       /\ at[w] \in {"enter", "run"} => job[w] \in LinkTask
       /\ at[w] # "idle" => job[w] \in dispatched

\* The explanation a client has seen stays: a redelivered task, even one whose
\* second call of the model fails, never turns "complete" into "fallback".
ExplanationStays ==
  [][\A e \in Event : explanation[e] # "none" => explanation'[e] = explanation[e]]_vars

\* An explanation asked for that is neither queued nor in work any more is on
\* record, unless Postgres failed to save it, or Redis to store that its task had
\* started.
ExplanationOnRecord ==
  \A e \in (Event \intersect dispatched) \ unsaved :
    \/ explanation[e] # "none"
    \/ e \in queue
    \/ \E w \in Worker : job[w] = e

\* A link task whose coroutine never ran has not been given up.
LinkTasksRun == \A l \in LinkTask : link[l] # "dead"
=============================================================================
