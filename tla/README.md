# A TLA+ model of AI Risk Manager

AI Risk Manager scores cash-on-delivery orders for the risk that they come back
(RTO), routes each to one of three tiers, and triggers what the tier asks for: a
Razorpay payment link, a soft gate, and always an explanation by a language model.
FastAPI takes the orders, Redis deduplicates and rate-limits them, RabbitMQ and
Celery carry the work, PostgreSQL keeps what happened. This directory holds TLA+
modules of that system, TLC configurations that check them on small instances, and
proofs, checked by TLAPS, that do not depend on the size of the instance.

    tlc -config scoring_safety.cfg MCScoring.tla      # any line of the table of runs
    tlapm ScoringPipelineProofs.tla                   # any of the eight *Proofs modules

Paths below are relative to the repository; `PROJECT.json` maps every definition to
the lines it models, and lists runs, mutants, findings, hazards and theorems.

## 1. The system

| Component | Code | State it keeps | Operations |
|---|---|---|---|
| Order scoring API | `app/api/routes.py`, `app/core/idempotency.py` | Redis keys `dedup:<event_id>` (24 h) and `rate_limit:score:<ip>` (60 s) | `POST /v1/orders/score`, `GET /v1/orders/{event_id}/result` |
| Scoring worker | `app/services/scoring.py`, `app/core/celery_app.py` | `audit_log` (UNIQUE `event_id`, append-only by trigger), `scoring_failures` (UNIQUE `event_id`), Celery's queue and result backend | `score_order_task`, its retries, `_handle_final_failure` |
| Payment links | `app/services/razorpay_client.py`, `app/services/payment_tasks.py`, `app/api/webhooks.py` | `payment_link_state` (UNIQUE `order_id`), `webhook_events` (UNIQUE `razorpay_event_id`), the links at Razorpay | `create_payment_link_task` / `reconcile_or_create`, `POST /webhooks/razorpay` |
| LLM explanations | `app/services/llm_explain.py` | `llm_explanations` (UNIQUE `event_id`), the event loop of the worker process | `explain_order_task` |
| Router and soft gate | `app/services/router.py`, `app/services/soft_gate.py` | none | `route`, `apply_soft_gate` (logs) |
| Cost engine and threshold search | `app/ml/costs.py`, `scripts/optimize_thresholds.py` | `config/thresholds.json` | `CostEngine`, `grid_search`, the cross-check of `main` |
| Database | `app/db/models.py`, `app/db/session.py` | the tables, their unique indexes, the append-only trigger | schema, engines and sessions |
| Dashboard | `app/db/queries.py`, `dashboard/app.py` | the cached results of its queries (10 s, shared by all sessions), each session's page | `main`: load, score form with its polling, render; reconciliation of failures |
| Feature pipeline | `app/features/` | none | `extract_features`, address score |
| Explainer | `app/ml/shap_engine.py` | the cached explainer | SHAP top 3 |
| Shell and configuration | `app/main.py`, `app/core/config.py` | connections | lifespan, health |
| Data, training and evaluation scripts | `scripts/generate_data.py`, `train_model.py`, `evaluate_heldout.py`, `run_evaluations.py`, `verify_freeze.py`, `final_verify.py` | `data/*.csv`, `config/*.json`, `models/*.bin`; cached by the workers | each script; the loaders of `scoring.py`, `shap_engine.py`, `features/pipeline.py` |
| Load generators, reports | rest of `scripts/` | none | benchmark, traffic, reconciliation of metrics |

### How they interact

    client --POST--> score_order --SET NX--> Redis      razorpay_client <--> Razorpay
      |                  | delay()                            ^                 |
      |                  v                                    |             webhook
      |              RabbitMQ --> score_order_task --delay--> link task         |
      |                              |   |                                      v
      |                              |   +--delay--> explain task      payment_link_state
      |                              v                    v             webhook_events
      +--GET--> audit_log, scoring_failures,      llm_explanations
                Celery result backend               |
                      ^                             |
    dashboard session +-- POST, GET                 |
      +-- cached query: audit_log LEFT JOIN --------+

Nothing but unique indexes, one row lock (the webhook's `SELECT ... FOR UPDATE`) and
the atomicity of single Redis commands coordinates these processes. There are no
transactions across two of Redis, RabbitMQ, PostgreSQL and Razorpay, so every pair of
steps that touches two of them can be separated by a crash or by another process.

### What is hard

* **At-least-once delivery.** `task_acks_late` and `task_reject_on_worker_lost` deliver a
  message again after a crash or a lost connection, possibly while the first delivery is
  still worked on, and possibly after it has published its own retry. Before its body a task
  has to store its state in Redis (`task_track_started`); if Redis fails there, the task is
  over and acknowledged.
* **Check, then act, on different stores.** The dedup key is set before the task is
  published; at final failure it is deleted before the failure row is written; GET reads
  three stores in turn; a link task reads its row, calls Razorpay, then updates the row.
* **Swallowed errors and fail-open paths.** Redis errors are ignored by the limiter, the
  dedup key and its delete; database errors by the failure row and the explanation row.
* **Hidden shared state.** Explanations and link tasks run in the same prefork processes
  and share the asyncio loop of the main thread.
* **Files under running processes.** The repository is mounted into the containers; scripts
  rewrite data, models and thresholds one file after the other, while each worker process
  loads model, explainer and thresholds lazily, at different moments, and keeps them.
* **A cache in front of it all.** The dashboard caches what its queries return, failures
  included, for all sessions at once, and clears it while other queries are under way.
* **Two implementations of one thing.** Features are computed by `generate_data.py` for
  training and by `extract_features` for live orders, with and without clipping and rounding,
  from an Indian hour and from a timestamp in any zone.
* **Boundaries.** Empty tiers, infinite ratios and ties in the search of the thresholds;
  three separate cascades from a probability to a tier.

### What makes each component correct

* *API*: "already submitted" is only said of an order that was scored or is being scored;
  "failed" and "complete" are never taken back; a window admits at most its limit, and
  ends.
* *Scoring worker*: one audit row per event, never changed; each side effect at most once
  and only for the tier on record; every accepted order ends in `audit_log` or
  `scoring_failures`.
* *Payment links*: one link per order, PAID is final, a webhook settles once, a payment is
  not forgotten, no row is stuck.
* *Explanations*: each order gets one and keeps it.
* *Router and search*: the thresholds written are optimal for the data, lose no money, pass
  the cross-check, and mean the same wherever they are applied.
* *Scripts and loaders*: no held-out row reaches the model or the thresholds that are
  evaluated; whatever was interrupted or run out of order, running the scripts again from the
  first to the last leaves one release, and a freeze verified then is the frozen one.
* *Dashboard*: a page may be old but never false; an order that was announced is on the page
  that follows; what is shown as failed was never recovered.
* *Features*: a live order goes the way its training row would have gone at every split a
  tree can have learned, as far as the rounding of training values allows.

## 2. The modules

| Module | Models | Size of the state |
|---|---|---|
| `ScoringPipeline` | `score_order`, Redis key, queue, `score_order_task` | 12 variables |
| `ScoringPromise` | what scoring promises: the abstract specification | 2 variables |
| `ResultPolling` (extends `ScoringPipeline`) | `get_score_result`, clients that poll | 4 more |
| `PaymentLink` | link tasks, webhook, `payment_link_state`, Razorpay | 11 variables |
| `PaymentPromise` | what a payment link promises its order: the abstract specification | 2 variables |
| `BackgroundTasks` | explanations, the loop they share with link tasks | 10 variables |
| `Dashboard` (extends `BackgroundTasks`, uses `ScoringPromise`) | an order from the score form through scoring and its background tasks to the cached page | 16 more |
| `RateLimiter` | INCR / EXPIRE of one client | 7 variables |
| `ThresholdSearch` | `CostEngine`, `grid_search`, the three cascades | 7 variables |
| `FeaturePipeline` | the features of an order, as trained and as served | operators |
| `LiveRouting` (extends these two) | from an order's features through a split of the model to its tier | operators |
| `ModelRelease` | the scripts, the files they write, the caches of the workers | 13 variables |
| `MC*` | instances for TLC: names, sets of faults, symmetry | |
| `*Proofs` | theorems about the module of the same name | |

Each handler is cut into actions where the code gives way to others - an await, a commit,
a call of Redis, RabbitMQ or Razorpay - and only there. What may go wrong is a constant
set `Env`, so that a run or a theorem says exactly which faults it assumes absent. An
error of a remote call comes in two outcomes wherever both exist: applied by the other
side, and not.

### ScoringPipeline

A `Request` is one POST. The Celery task it enqueues keeps its identity through retries,
so a message is `<<request, retries made>>` and the queue a bag of those.

| Code | Actions |
|---|---|
| `redis_set_nx` (`idempotency.py:39`) | `TakeKey`, `FindKey`, `RedisUnavailable` |
| duplicate branch (`routes.py:192-266`) | `LookupAudit`, `LookupFailure` |
| `score_order_task.delay` (`routes.py:286-318`) | `Enqueue`, `EnqueueFails`, `ApiCrash` |
| start of the task, scoring and insert-and-catch (`scoring.py:247-300`) | `Fetch`, `FetchInVain`, `Insert`, `InsertFails`, `TakenForDuplicate`, `ScoringFails` |
| dispatch (`scoring.py:302-314`) | `Act`, `Explain`, `DispatchFails` |
| `except`: `self.retry` or final failure (`scoring.py:331-353`) | `CatchException` inside the actions that may raise |
| `_handle_final_failure` (`scoring.py:197-235`) | `FreeKey`, then `WriteSentinel` |
| Celery | `Ack`, `WorkerCrash`, `ConnectionLost`; `Mark` is a write to the result backend |
| Redis TTL | `KeyExpires` |

`TakenForDuplicate` is the test of the exception's text in `_insert_audit_log_sync`
(`scoring.py:139`): any error that contains "unique", which an event_id of the client may put
there, makes the task succeed as a duplicate; the fault is `misread_error`. `delete_error` is
the loss of the one Redis call `_delete_redis_dedup_key`, apart from other errors of Redis.
`state_error` is Redis as the result backend (`celery_app.py:16`, `:30`): the write of a state
is lost, or a failed write ends up as FAILURE; and when STARTED cannot be stored the body of the
task does not run and its message is acknowledged (`FetchInVain`). It is a fault apart from
`redis_error`, the Redis of the API, so that a theorem says which of the two it can bear.
`Unrecovered` is the filter of `queries.py`: failures without an audit row.

The computation between the payload and the tier is a free choice of a tier on every
attempt. That is weaker than the code, which computes the same tier for the same payload
and model, but two requests may carry one `event_id` with different payloads, and a model
file may change between attempts.

### ResultPolling

The client polls for the event of a request that was accepted, with the task id of the
202 or without it (`hasId`). `PollAudit`, `PollFailure`, `PollCelery` are the three reads
of `get_score_result`, with everything else interleaved. A database error during a poll is
its own fault, `poll_error`, so that the truth of answers can be studied while the worker's
database works.

### PaymentLink

A `Task` is one copy of a message in RabbitMQ; several may serve one order, since two events
may name one `order_id` and a message may be delivered twice. `First` are the copies that scoring
queues; the others are free, for retries. `InsertRow` and `Evaluate` are insert-and-catch and the
branches on the row read again; `Query` and `Reconcile` look for the link at Razorpay; `Create`,
`Save`, `SaveFailed` create and record it. An exception (`Fail`) leads to the `except` clause,
place "caught", where `Retry` publishes a message with one more retry, as another copy, or ends
the task; only then does `Ack` remove the old message, as `task_acks_late` has it. So `Crash`
between the two leaves two copies of a task that was alone: the redelivered message, with the
retries it had, and its retry. `Flaky` are the orders for which creating a link may fail, `Torn`
those for which a worker may die at just that point. `NotStarted` is the failed write of STARTED.
`Deliver` is the whole transaction of the webhook, which is atomic because of the unique index
and the row lock. `Pay` is the customer, who with `early_payment` may pay a link that is not on
the row.

`PaymentPromise` is what it comes to for the customer: an order is offered one link, is paid,
and then settled. The refinement mapping `Stage` reads how far an order is off its row and its
payments; the tasks and the states CREATING and LINK_CREATION_FAILED are invisible in it.

### BackgroundTasks, RateLimiter

`CallModel` leaves the process without a loop, as `asyncio.run` does on the Python 3.11 of
the Dockerfile; `EnterLoop` and `NoLoop` are the two outcomes of `get_event_loop` in a link
task. `SaveExplanation` keeps the first row and swallows errors. `NotStarted` is a task that
is over before its body, since Redis did not store STARTED. `Dispatch` is the `delay()` of
`score_order_task`, which may come at any time. `RateLimiter` has INCR and
EXPIRE as two steps, and the "window" of a call is a history variable: the life of the key
in which it was counted.

### Dashboard

A composition of three components. Scoring appears as `ScoringPromise`, the specification
that `ScoringPipeline` is shown to implement: `Score`, `Act`, `Explain` are its actions,
`GiveUp` a final failure. What `Act` and `Explain` trigger are the jobs of
`BackgroundTasks`, whose steps are those of `Background`. The third component is the
sessions of `dashboard/app.py`: one browser tab each, cut where Streamlit waits.

| Code | Actions |
|---|---|
| an interaction, or the form submitted (`app.py:853-887`) | `Rerun` |
| `load_summary_stats` (`app.py:118-139`) | `LoadStats`, with statistics or, after a failed query, the cached empty ones |
| `load_audit_feed` (`app.py:89-115`) | `FeedHit` from the cache; `FeedRead`, then `FeedStore`; `OtherRead`, `OtherStore` for tabs that are not followed |
| without statistics `main` stops before the form (`app.py:843-848`) | `AfterFeed`, which then goes to `Render` |
| the score form: POST and polling (`app.py:889-919`) | `Post`, `Poll` |
| "Decision received!", `st.cache_data.clear()`, `st.rerun()` (`app.py:910-915`) | `Clear` |
| everything below the form (`app.py:921-955`), or the error in its place | `Render` |
| `CACHE_TTL_SECS` | `FeedExpires`, `StatsExpire` |

A page is the function from the orders on it to their tier and the state of their
explanation. It shows what was loaded before the form, even if the form took half a minute.
`announced` and `overtaken` are history variables that the properties need: which scored
order led to this rerun, and whether a clear came while a query was under way. Of the statistics
only their absence is kept (`noStats`, cached like any result, and `stats` of a run of `main`).

### ThresholdSearch

One `GridStep` is one turn of the double loop, `CollapseStep` one of the loop that collapses
the M tier, `UseDefault` the safe thresholds. The data (`prob`, `rto`) are chosen by `Init`:
every labelled data set over the rows. Costs are the formulas of `CostEngine`, multiplied
by 400 so that the rates, in twentieths, stay exact. The comparison of the ratios
`tp/fp >= penalty/gain` is cross-multiplied, with infinity as in the code.

### FeaturePipeline, LiveRouting

Two operators, `Trained` and `Served`, for the features that both `generate_data.py` and
`extract_features` compute, and `Lookup` and the rates that both read. Values are exact
fractions; `Round` is `np.round(..., 4)`, half-way cases to the even digit, which training
applies to the z-score of the cart and to the basket ratio and the worker to nothing. The order's clock is written in any zone (`Timestamp`) and read back by `ToIst`.
`Learned` is what a tree can have learned: to compare a feature with a value that separates
two rows it was trained on; such a value may be one of the rounded ones. `Blurred` are the
splits whose cut lies within half a ten-thousandth of the value served, where the two sides may
differ. `LiveRouting` adds the leaves of that split, with any
probabilities, and the thresholds the search ended with. `RoutedAsTrained` compares the tier
of a live order with that of its training row; orders that go the same way at every single
split reach the same leaf of every tree of the ensemble.

### ModelRelease

A file is its kind and the rows it depends on, since every script is deterministic; `Recipe`
stands for versions of `generate_data.py`. A script reads its inputs and leaves its outputs
in `pending`, which `WriteNext` writes one by one and `Interrupt` drops; `Run` is what the three
have in common. `Init` is a checkout: everything but the models, which are not tracked.
`StartPool` is the parent's import, where `features/pipeline.py` reads the rates and the
constants; `Respawn` replaces a child, which inherits them;
`LoadModel`, `LoadExplainer`, `LoadThresholds` are the three lazy loads, in the order of the
task. `Verified` is the comparison of `verify_freeze.py`. `fresh` is a history variable: how many
of the three scripts, counted from the first, have run to their ends with nothing before them
run since.

| Code | Actions |
|---|---|
| `generate_data.py`, `train_model.py`, `optimize_thresholds.py` | `GenerateData`, `TrainModel`, `OptimizeThresholds`, then `WriteNext`, `Interrupt` |
| `run_evaluations.py`, `evaluate_heldout.py`, `verify_freeze.py` | `RunEvaluations`, `EvaluateHeldout`, `VerifyFreeze` |
| import of `features/pipeline.py` in the parent | `StartPool`; `Respawn` inherits it |
| `_load_model`, `_get_explainer`, `_load_thresholds` | `LoadModel`, `LoadExplainer`, `LoadThresholds` |

## 3. What TLC checks

| Run | Properties | Instance |
|---|---|---|
| `scoring_safety` | `TypeOK` `AtMostOnce` `Ownership` `ImplementsPromise` | 1 event, 2 requests, 2 workers, 1 retry, 1 outage, every fault |
| `polling_truth` | `PollTypeOK` `ProcessingIsTrue` `AnswersNeverRegress` `PollProcessingIsTrue` | the same and 1 poller; crashes, lost connections, expired keys, lost deletes of the key, poll errors |
| `polling_ends` | `NoBlackhole` `AcceptedIsBacked` `AcceptedIsSettled` `ServedUnlessOutage` `PollingEnds` | 1 worker, no symmetry, fair |
| `payment_faults` | `PaymentTypeOK` `SettlesOnce` `LinkIsReal` `PaymentSettles` | 1 order, whose link task may be in 3 copies; 2 retries, 2 links, 1 crash, also after a published retry; every fault, failed creations included, fair |
| `payment_links` | `OneLink` `DoneHasLink` `ImplementsPaymentPromise` `OnlyCrashesOrphan` | 2 tasks of an order whose creations do not fail and whose workers may die after publishing a retry, a flaky task of another order, whose workers may die anywhere else; 6 copies, 1 retry, 2 links, 1 crash, fair |
| `live_view` | `DashboardTypeOK` `ExplanationOnRecord` `ShownWasTrue` `ExplanationStays` `ShownAfterScored` `ExplanationShown` | 1 order with its link task, 1 process, 1 retry, 1 crash or error of the result backend, 1 session followed and others that fill the cache, 2 polls, 1 failed query, every fault, fair |
| `limiter` | `LimiterTypeOK` `AdmitsAtMostLimit` `WindowEnds` | 4 calls, limit 2, every fault, fair |
| `thresholds` | `SearchTypeOK` `RoutersAgree` `NeverLoses` `SearchIsOptimal` `CrossCheckPasses` `RoutedAsTrained` | 5 rows, 5 probabilities, grid of 4 steps, the default costs; for the features, the categories and clips of the code, some 250 orders at and around them, 18 cuts, four of them at or next to rounded values |
| `release` | `ReleaseTypeOK` `BlindEvaluation` `RerunRepairs` | 2 versions of the data, 4 runs of scripts, 2 workers, 3 starts |
| `scoring_enqueue_lost` | `ProcessingIsTrue`, violated | broker errors only |
| `served_uncalibrated` | `ServesAsTuned`, violated | 1 version, 1 script, 1 worker |
| `background_no_loop` | `LinkTasksRun`, violated | 1 process, no fault at all |

What they show:

* **At most once, under everything.** With Redis, RabbitMQ, PostgreSQL and processes failing
  at will, the UNIQUE `event_id` of `audit_log` and the `is_new` gate keep side effects
  unique, tied to the tier on record, in the order of `ScoringPromise`. What failures may do
  is leave effects out: this is why `ScoringPromise` states no liveness.
* **Truthful answers.** Without failures of Redis, the broker or the API process, a
  duplicate that hears "processing", and a poller that hears it, is right at that moment,
  though keys are deleted, expire and are taken again meanwhile, and the delete that was to
  free a key may be lost: such an event is told "failed", and cannot be resubmitted until
  the key expires.
* **Everything ends.** At every moment an accepted order has an end on record or its own task
  still in hand; it is settled, and polling learns it. Side effects can only be missing after
  the loss of a worker.
* **Payments.** Settling is safe under every fault. What an order is offered stays, is paid and
  settled once, in this order (`PaymentPromise`), and it gets one link, in two cases: creations do
  not fail - then several tasks, copies and crashes anywhere do no harm; or creations fail, and the
  order has one task whose worker does not die between publishing a retry and acknowledging.
  `payment_links` has both kinds of order. A flaky order that is torn as well does get two links:
  `payment_faults` has that order, where one link is not claimed; see section 5.
* **From the form to the page.** What a page shows was and stays on record, through the
  cache, retries and redeliveries. The page after "Decision received!" has the order, with
  two exceptions that the property names: a failed query, whose empty result is cached, and
  a query of another session overtaken by the clear. Whatever happens, explanations reach
  the page and stay, as long as Postgres saved them and Redis let their task start.
* **Serving without clips and rounding.** The worker clips nothing, training clips everything,
  and no split can tell: except for carts below 150 rupees and baskets above 10 items. Training
  also rounds two features, and a split can tell that: two items in Electronics are 0.6667 to the
  trees that learn and 2/3 to the worker, and a cut may be at 0.6667. `RoutedAsTrained` excepts
  the cuts within half a ten-thousandth of the value served, and no others.
* **Releases.** The scripts may be run, interrupted and left out in any order without a
  held-out row reaching what is evaluated. `generate_data.py`, `train_model.py` and
  `optimize_thresholds.py`, each run to its end in this order, repair whatever was left before:
  all eight files are of one version, and a freeze that verifies then also vouches for the models,
  rates and constants, which it does not hash. Short of that it vouches for none of them, and
  workers that run while scripts write do mix releases.

### Bounds

* *Two requests, two workers, one event.* The properties are about one event at a time and
  no action reads two events. Two requests are a submission and its duplicate or
  resubmission; two workers are the largest number that can be in conflict over a row,
  as the loser of an insert does nothing more. Redelivery adds copies without adding
  requests. The theorems remove these bounds for the safety properties.
* *`MaxRetries` 1 or 2.* The code has 3 (`scoring.py`) and 4 (links). A retry, no more retries
  and both sides of the comparison occur with 1; in `payment_faults` a retry may be retried.
* *`MaxOutages`, `MaxCrashes` 1.* A crash, and everything that a redelivered message can meet
  afterwards; that it meets a second crash adds copies, which behave like the first. In
  `live_view` the bound also counts failed writes of STARTED.
* *The copies of a link task.* A retry needs a free `Task`, so their number bounds the copies of
  an order that exist at once: three in `payment_faults`, four and two for the two orders of
  `payment_links`. A task has two copies at once when its retry is published and it is not yet
  acknowledged, and a crash just then makes that last. Where a retry finds no free copy it waits
  for one, in the model only; the copies there are go on.
* *`MaxLinks` 2.* One more than the property allows.
* *Limit 2, four calls.* A full window and a second one that opens while a call of the first
  is between its two commands.
* *Grid of the search.* `t_low` in 1..2, `t_high` up to 4, gap 1, where the code has 15 by
  up to 27 pairs with gap 2: both loops turn more than once, and the rows may fall on, below
  and above every threshold. Five rows give every combination of empty, paying and losing
  tiers, and each of the three ends of the search. The theorems hold for every grid.

* *One order, one session, two polls in `live_view`.* Rows of different orders do not
  interact in a cache that holds all of them or none; a second tab matters by what it puts in
  the cache, which `OtherRead` and `OtherStore` do. Two polls give a first, a middle and a
  last one; the code has 30. The feed shows the latest 50 orders: an order that 50 newer ones
  have pushed off the page is out of the model. The theorems allow any number of orders
  and sessions.
* *Orders and cuts of the features.* Carts at, below and above both clips and at the point
  where the z-score is clipped; the hours around midnight and 5:00 in Indian time and in UTC,
  in four zones; known, novel and foreign pincodes. The theorem holds for all orders.
* *Four scripts, three starts.* Enough to leave the first version of the data and to train,
  tune and evaluate on the other, or to come back to the first with a stale model; a start of
  the pool and two more, of the pool or of single processes. The theorems remove the bounds.

Symmetry is used for safety only. The rows of `thresholds` and the workers of
`release` are symmetric; `polling_ends`, `live_view` and `payment_*` use none.

### Fairness

`WF` on all steps of a worker together: a prefork process that has work does it, and Celery
replaces a dead one. Nothing is assumed of which message it takes; retries and outages are
bounded, so messages run out. Clients who poll are assumed to go on polling, as the form of
the dashboard does up to its limit. In `live_view` a session is assumed to go on with a run
of `main` it is in and users to come back to their page, since nothing refreshes it by
itself, and each of the two cached results to expire, as `CACHE_TTL_SECS` has it. Scoring itself is not
assumed to end there: `ExplanationShown` starts from the dispatch of the explanation. Razorpay is assumed to deliver a webhook until it gets a 2xx, which is
its documented retry policy and what the 404 and 409 answers of `webhooks.py` count on.
Redis is assumed to remove a key whose time has come. No fairness is assumed of requests,
faults, customers or key expiry in the pipeline.

## 4. What is proved

All constants are arbitrary within the assumptions stated in the modules: any number of
events, requests, workers, retries, tasks and links, any set of faults, any data.

**ScoringPipelineProofs**, under every fault. `TypeCorrect`. `OneOwner`,
`EffectsAtMostOnce`, `EffectsFollowTheRecord` come from one inductive invariant,

    IInv == TypeOK /\ Ownership /\ AtMostOnce /\ EffectsMatchAudit

`AtMostOnce` alone is not inductive: a worker about to dispatch could do so on an event
whose effects are spent. `Ownership` adds that between a new insert and the last dispatch
the event belongs to one worker, which acts on the tier it persisted and finds the effects
ahead of it untouched. `AuditIsAppendOnly` is its step property. `PipelineKeepsPromise` is
the refinement of `ScoringPromise` with `record <- audit` and `done` the effects triggered:
`Insert` and `InsertFails` record, `Act`, `Explain` and `DispatchFails` act or explain, all
else stutters.

`EffectsAreOwed` is the safety half of `ServedUnlessOutage`, assuming `DispatchIsSafe` (the
broker and Postgres answer, no error is misread): the effects of an audited order have all been
triggered, or the one worker that made its row is still to trigger them, or a worker has died.
A lost connection is no exception: the worker goes on, and `Ownership` says that the redelivered
copy cannot be the one that dispatches.

**ScoringAnswersProofs**: what clients are told. `TasksAreKept` is no error of the broker, none
of the result backend and none that is misread; `KeysAreSafe` adds no error of Redis in the API
and no crash of its process. The result backend matters because a task whose STARTED cannot be
stored is acknowledged without having run: an accepted order is lost to it. Workers may crash,
lose their connection and keys may expire throughout.

* `KeysAreBacked`, assuming `KeysAreSafe` and that no delete of a key is lost, is
  `NoBlackhole`, from

      KeyInv == \A e \in dedup : audit[e] # NoTier \/ LiveWork(e, {"score", "free"})

  which is stronger than the property by forgetting workers whose work no longer protects the
  key. A lost delete breaks `KeyInv`, and truth does not need it: `DuplicatesLearnTheTruth` is
  `ProcessingIsTrue`, also without database errors, from `DuplicateInv`: a duplicate between
  its two lookups is backed by a row or by live work. The lemma `WorkGoesOn` is the core of
  both: live work is only ever handed on, to a retry, to a redelivered copy or to a row.
* `AcceptedIsNeverDropped` is `AcceptedIsBacked`, assuming `TasksAreKept` and no database
  error: the Redis of the API and the delete of a key may fail at will. It is inductive because it names the task: another task of
  the same event may end as a duplicate of a row that this one never sees, while `TaskGoesOn`
  follows one task from copy to copy. `RestIsSettled` draws the conclusion that is
  the safety half of `AcceptedIsSettled`: with the queue empty and the workers idle, every
  accepted order has its row or is among the failures that operators are shown.
* `PollingReadsOnly` shows that `ResultPolling` implements `ScoringPipeline`, which carries all
  of the above over to it; `PollTypeCorrect` is its type invariant. `AnswersStay` is
  `AnswersNeverRegress` under every fault, from `RowBehindAnswer`: a client that was last told
  "complete" has its row, one that was last told "failed" has a failure row and is not at its
  third read, where the state of a newer task could be taken for news.
* `ProcessingMeansWork` is `PollProcessingIsTrue`, assuming `StatesAreKept`: the broker answers
  and the result backend stores what it is told to. The
  invariant `StateInv` relates the result backend to the queue: the state of an accepted task is
  final, or a copy of its message is queued or in a worker. A database error or a crash does not
  matter to it, as neither writes a state without handing on the message.
* `EndsAreOnRecord`: assuming `ErrorsAreSeen` (Postgres answers, no error is misread, and none of
  the result backend is stored as a FAILURE), a task that
  Celery reports as SUCCESS or FAILURE has a row of its event behind it. The invariant
  `EndIsOnRecord` is inductive only together with `Ownership`: the SUCCESS of the worker that
  dispatches comes steps after its insert. `UnknownIsOvertaken` concludes the safety half of
  `PollingEnds`: under the same condition, a client with a task id is answered 404 for an accepted
  order only when the row was written after the call had looked for it, so that its next call
  finds it, a 503 apart.

**PaymentLinkProofs**. Under every fault: `PaymentTypeCorrect`, `SettledOnce` (counts are
tied to `recorded`), `LinksAreReal`, and `PaidIsNeverRefused`, the safety half of
`PaymentSettles`: until its order is settled, the webhook of a paid link is neither a duplicate
nor answered with 404 or 409. Its invariant `RowFirst` says that the row is there before any
link, and that PAID means settled. `CreatingHasOwner`, while Postgres answers, is the safety half
of `OnlyCrashesOrphan`: a CREATING row belongs to the attempt that inserted it, which has yet to
make its last statement, or a worker has died.

The others assume `RetriesAreSafe`: a creation fails only for an order with one message to begin
with, whose worker does not die between publishing a retry and acknowledging (it is not in
`Torn`), and where one may fail, the retry's query of Razorpay and the saves do not. Crashes
anywhere else, crashes just there for every other order, rivals, early payments, and database
errors where no creation fails, are all allowed.
`OneLinkPerOrder`, `EndedWell` and `LinkStays` (the link on a row is never replaced) come from
the inductive `SoleCreator` - what each state of the row says about the links that exist and
about the tasks, and that of the copies of an order one at most has a claim to create, as the
one that found the row new or the only live one of an order whose creations fail (`NoRival`,
`OneLive`). `PaymentKeepsPromise`, the refinement of
`PaymentPromise`, excludes early payments too, and adds `PaidLast`: while a task is anywhere in
the creation, its order has no link to pay. So the only step of a task that a customer sees is
the first `PublishLink`, which maps to `Offer`; `Pay` and `Deliver` map to `Pay` and `Settle`, or
to stutters when the order has gone further already. `PaidStaysPaid` is from the same invariant.

**ThresholdSearchProofs**, for every data set, grid and cost with `CostTPM, CostTPH <
CostFN`. `SearchTypeCorrect`; `RoutersAlwaysAgree`, whose content is that a pair always
has `t_low <= t_high`; `SearchFindsTheBest`, from `SInv`: the best so far is the first best
valid one among the pairs before the current one, in the order of the loops.
`ThresholdsNeverLose`: the breakeven ratios of both tiers together imply that the savings
are not negative (lemmas `Counts`, `Breakeven`, `ValidPays`). `CrossChecked`.

**ModelReleaseProofs**, for any versions of the data, workers and number of scripts.
`EvaluationsAreBlind` follows from `FilesInv`: what is at each path, or still to be written to it,
has its kind and depends on no held-out row, `heldout.csv` excepted. `ReadersAreServed` adds
`LoadedInv`, the same of what the processes have loaded. `RerunIsEnough` is `RerunRepairs`, for
any number of interrupted or misplaced scripts before. Its `FreshInv` says which files are known
to be of one version: those of the first `fresh` scripts, and of the script that comes next those
that are written, while all that are still in `pending` will be - provided that nothing but this
script has touched what it read. An interruption, or an earlier script that runs again, takes
`fresh` back, and the proof shows that it takes it back far enough.

**RateLimiterProofs**, for any calls, limit and faults. `LimitHolds` is not inductive: the
number of calls admitted says nothing of the counter. `NumbersInv` says that the calls
counted in one window hold different numbers, up to the counter while the window is open, and
that a counted call was only admitted on a number within the limit; so the calls admitted in
a window inject into `1..Limit`. The calls are those that were told their number; one that fails open, or dies,
was told none. `WindowsAreDue` is the safety half of `WindowEnds`: a counter has an expiry, or
the call that created it is about to set one, unless such a call died or lost Redis.

**DashboardProofs**, for any orders, processes, sessions and faults. `BackgroundTypeCorrect`,
`ExplanationsStay`, and `ExplanationsOnRecord`, whose invariant `SavedInv` adds that a process
about to acknowledge an explanation has saved it, unless an error of Postgres or of the result
backend met it, and an idle one has nothing in hand, are about `BackgroundTasks` alone.
`ViewRunsTheTasks` shows that every step
of `Dashboard` is one of the tasks or leaves them alone, which carries those theorems over.
Scoring is in `Dashboard` by the actions of `ScoringPromise` themselves, which
`PipelineKeepsPromise` proves of the pipeline: the pages rest on nothing else of it.
`PagesAreTrue` comes from `RowsInv`: the pages in the cache, those under way to it, those
loaded and those shown are all true of the tables, which only grow. `AnnouncedIsShown` comes
from `AnnouncedInv`: every feed that could still get to the page, in the cache, under way to
it or loaded, has the order, unless a query failed or was overtaken; and from `StatsInv`: until
a query fails there are statistics, so that `main` gets to the page.

**FeaturePipelineProofs**. `NoClipNeeded` is `ServedAsTrained` for all data, and `TierAsTrained`,
the property of the run, follows from it. A clip moves a value only beyond the bound that every
trained value respects, and a cut that separates two trained values lies within the bounds. The
cart is clipped twice, before and after the z-score, for which the proof needs
`2 * CartMax > (ZMax + 2) * Median[c]`: the second clip then covers the first. The code has 40000
against 27000 at most. Rounding keeps the order of values and moves none by more than half a
ten-thousandth, so it tells only at a cut that near to the value served, which both theorems
except; `RoundingCanTell` is that they have to, with 2/3 and a cut at 0.6667.

**Model-checked only**: liveness, which is out of the prover's reach. For six of the seven
temporal properties a theorem states what has to hold at every moment for them to come true,
and fairness does the rest: `AcceptedIsSettled` (`AcceptedIsNeverDropped`, `RestIsSettled`),
`PollingEnds` (`UnknownIsOvertaken`, `AnswersStay`), `ServedUnlessOutage` (`EffectsAreOwed`),
`PaymentSettles` (`PaidIsNeverRefused`), `OnlyCrashesOrphan` (`CreatingHasOwner`), `WindowEnds`
(`WindowsAreDue`). `ExplanationShown` rests on `ExplanationsOnRecord` and `PagesAreTrue`. Every
other property of the passing runs is the statement of a theorem.

## 5. Where the code and its own account differ

Shown by a run:

1. `scoring_enqueue_lost` - `delay()` raises, the client gets a 503, the dedup key stays:
   for 24 hours a resubmission is told "processing" of an order without a task, although
   `routes.py:256` says "task still running/retrying".
2. `background_no_loop` - one explanation is enough to make every later link task of the
   process fail in `asyncio.get_event_loop()`, in spite of the isolation of `README.md:318`.
3. `served_uncalibrated` - the worker scores with `xgboost_rto_v1.base.bin` (`scoring.py:59`),
   the uncalibrated trees kept for SHAP, and compares with thresholds tuned on, and evaluated
   with, the calibrated `xgboost_rto_v1.bin` (`optimize_thresholds.py:102`,
   `evaluate_heldout.py:135`). `router.py:20` expects the calibrated probability, and
   `eval/metric_reconciliation.md:24` calls the calibrated model "the sole production
   artifact" after the same mistake had been found in `run_evaluations.py`.

Met while modelling, visible in the model, without a run of their own:

* The UPDATE of a link task (`razorpay_client.py:192`) has no condition on the state: of two
  tasks that both saw a failed creation, the later takes a PAID row back to PENDING_PREPAY, an
  edge `models.py:89` does not have. So does one task that saves its link after a customer has
  paid it. `ImplementsPaymentPromise` needs `RetriesAreSafe` and no early payment for
  this reason.
* A worker that dies in CREATING leaves a row that makes every retry back off until the task
  is given up (`razorpay_client.py:139`), and `_handle_final_link_failure`, which was meant to
  help (`payment_tasks.py:23`), is not reached since `retry(exc=exc)` raises `exc` itself.
  `OnlyCrashesOrphan` has exactly this exception.
* `verify_freeze.py` expects the hashes of CSV files with CRLF line endings. The tracked files
  have LF, as `tests/test_data_reproducibility.py:38` expects, so on a fresh checkout on
  Linux it reports data that nobody modified as modified.
* `verify_freeze.py` hashes neither the models nor `historical_rates.json` nor
  `feature_constants.json`: it passes with a model of other data as long as the CSV files and the
  thresholds are the frozen ones. `RerunRepairs` is what makes a pass mean more.
* `self.retry` publishes the next message before the old one is acknowledged
  (`payment_tasks.py:61`, `celery_app.py:33`), so a worker that dies in between leaves two copies
  of a task, with different numbers of retries. If both see a failed creation, the order gets two
  links, and the later save replaces the link or takes PAID back. `RetriesAreSafe` excludes this
  (`Torn`); the reference_id was to make retries safe.
* `task_track_started` (`celery_app.py:30`) stores STARTED before the body of a task. If Redis
  fails there, the task ends as failed without having run and is acknowledged: an accepted order
  has neither row nor failure, and an explanation or a link never comes. A lost write of SUCCESS or
  FAILURE leaves STARTED, which GET takes for "processing". `TasksAreKept` and
  `StatesAreKept` exclude this.
* Training rounds two features to four places (`generate_data.py:104`, `:111`), the worker does
  not (`pipeline.py:93`), and trees cut at values of the training data: `Blurred`.
* `final_verify.py` writes net savings, precision and recall as fixed text next to the hashes
  it has just computed, whatever model and data these are of.
* A worker that dies between the commit of the audit row and the dispatch
  (`scoring.py:303`) loses the side effects: the redelivery finds a duplicate.
  `ServedUnlessOutage` is stated with exactly this exception.
* After a failure and a resubmission, duplicates are told "failed" from the old row while
  the new task runs (`routes.py:239`). `routes.py:202` rules the case out.
* GET may answer 404 "never submitted" for an accepted event: without a task id while it
  is queued, or when the task ends between the second and the third read (`routes.py:418`,
  against `:340`). `PollingEnds` is about the answers from some time on for this reason.
* When PostgreSQL is down a new order is still accepted with a 202; `idempotency.py:20` and
  `routes.py:150` promise a 503.
* The header of `scoring.py` has the failure row written before the key is deleted; the code
  does it the other way round, and the model follows the code. Duplicates are safe either
  way while the faults of `KeysAreSafe` are absent.
* `redis.incr` and `redis.expire` (`routes.py:156`) are not atomic: a call that dies between
  them leaves a counter without expiry, which in the end blocks the address for good.
  `WindowEnds` has this exception.
* A creation that timed out but succeeded, with a second task in the query before it, makes
  two links for one order; so does a single task whose look at Razorpay fails after its
  creation timed out (`OneLink` needs `RetriesAreSafe`).
* `_save_explanation_sync` swallows every database error (`llm_explain.py:83`), so the
  fallback of `explain_order_task` is never tried and the status stays pending.
* `int(amount_to_pay * 100)` (`razorpay_client.py:50`) truncates a binary fraction: about 7% of
  the amounts in whole paise lose one. A cart of up to 50 rupees asks for a link over 0.
* A link found by its reference is adopted whatever its amount (`razorpay_client.py:157`): a
  second event of an order, with another cart, keeps the price of the first.
* `README.md:95` describes `ON CONFLICT DO NOTHING`; the webhook inserts and catches.
* The safe default thresholds are reported with net savings of 0 without being evaluated
  (`optimize_thresholds.py:87`). `NeverLoses` excludes them: they may lose money.
* A task whose insert fails with an error that contains "unique" (`scoring.py:139`; the text
  of SQLAlchemy's exceptions quotes the parameters, the client's event_id among them) succeeds
  without an audit row, and the key stays. `AcceptedIsSettled` and `NoBlackhole` are
  checked without this fault.
* "Decision received!" also follows the status "failed" (`app.py:905`), after which the page
  does not have the order; `announced` is only about scored ones.
* A failed query of the feed is cached for 10 seconds and shown as "No scored orders yet."
  (`app.py:113`, `:659`).
* A click on the form is dropped without a word when the statistics fail to load first
  (`app.py:843`).
* The status "fallback" of an explanation is shown as "Explanation pending..."
  (`app.py:381`) although its text is on record; the status "failed", which the page does
  know, is never written.
* "Metrics refresh every 10 seconds" (`app.py:955`): the cache expires, but nothing reruns the
  page. The fairness of `live_view` therefore rests on its users.
* "All times in IST" (`app.py:955`): the feed formats its times in UTC (`app.py:665`).
* The page's risk levels (`app.py:677`) and the header (`app.py:259`) have the thresholds as
  fixed text, whatever `config/thresholds.json` says.
* Each click makes a new event_id (`app.py:873`) and the default order_id is the second it was
  made in, so after "Scoring timed out" a second try is a second order to the dedup key, and two
  tabs may share an order_id; `payment_links` has two tasks for one order for this reason.
* Baskets above 10 items and carts below 150 rupees are served with features no training row
  has (`generate_data.py:88`, `:102`, against `pipeline.py:87`, `:93`): the premise of
  `RoutedAsTrained`. The category "Other", which the form offers and the payload defaults to,
  has no training rows.
* A timestamp without a zone is read in the zone of the container (`pipeline.py:104`), though
  the feature is defined on Indian hours.
* `populate_from_heldout.py:25` replays night rows at 0 to 4 o'clock UTC, which is 5:30 to
  10:29 in India: none of them is a night order to the worker. It also counts only answers
  with status 200 as sent, where the API answers 202.
* `count_unrecovered_failures` is said to equal the length of `get_unrecovered_failures`
  (`queries.py:87`), which has a limit of 1000.

## 6. What is left out

* Probability and SHAP values; the wording of answers, explanations and logs; signatures
  and payload checks of the webhook (no state changes).
* Of the features: fractions of a rupee; the hub distance and
  the address score, which are simulated noise in training; those passed on unchanged.
* Of the dashboard: charts and fixed figures, the password, the aggregations of a single query,
  `load_llm_breakdown`, which nothing calls, and `load_score_timeseries`, whose result
  nothing uses.
* `app/main.py` and `db/session.py`: one process creates the tables in one transaction and
  connects before it serves, and the health check is three independent probes. No step meets
  another there. The load generators are clients whose requests are like any others.
* The visibility timeout and ordering of RabbitMQ: messages are taken in any order.
* Floating point, in the search (0.025 steps are exact here) and in `int(amount * 100)`.
* `insert_audit_log` of `idempotency.py`, which nothing calls.
* The bootstrap and the heatmap of `optimize_thresholds.py`, the numbers of training and
  evaluation, and files half written: a reader of one raises and keeps nothing.
* Equal values of different origin: two versions of the data may well give the same
  thresholds; the model tells them apart.

## 7. Plan

Done, in this order: `ScoringPipeline` with `ScoringPromise` and its proofs;
`ResultPolling`; `PaymentLink` and its proofs; `BackgroundTasks`; `RateLimiter`;
`ThresholdSearch` and its proofs; `ModelRelease` and its proofs; the lost delete and the
misread error in `ScoringPipeline`; `Dashboard`, which composes scoring, tasks and pages, and
its proofs; the proofs of `RateLimiter`; `FeaturePipeline` with
`LiveRouting` and their proofs; the proofs of `ResultPolling`; the safety halves of the temporal
properties of scoring, payments and the limiter; `PaymentLink` with failing creations, and its
refinement of `PaymentPromise`; errors of the result backend; the copies of a link task, from a
retry that is published before its predecessor is acknowledged; the rounding of training values;
reruns of the scripts.

Next: *payment links end to end*. `Dashboard` follows a link task only into and out of its
coroutine; with `PaymentPromise` in the place of the coroutine, as scoring is there by
`ScoringPromise`, an order could be followed to PAID.
