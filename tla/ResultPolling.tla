---------------------------- MODULE ResultPolling ----------------------------
(***************************************************************************)
(* GET /v1/orders/{event_id}/result (get_score_result of                   *)
(* app/api/routes.py) on top of ScoringPipeline.  One call reads three     *)
(* stores one after the other - audit_log, scoring_failures, the Celery    *)
(* result backend - while the pipeline goes on.  A Poller is a client that *)
(* asks for the event of a request it saw accepted, again and again.       *)
(* Errors of Postgres during a poll are a kind of their own, poll_error.   *)
(***************************************************************************)
EXTENDS ScoringPipeline

CONSTANT Poller

VARIABLES
  target,  \* the accepted request whose result each poller wants
  hasId,   \* whether the poller passes the task_id of the 202 answer
  step,    \* where its current call is
  last     \* the answer to its latest finished call

pollVars == <<target, hasId, step, last>>
allVars == <<vars, pollVars>>

Unfinished == {"PENDING", "STARTED", "RETRY"}
PollAnswer == {"complete", "failed", "processing", "unknown", "unavailable"}
TargetEvent(p) == event[target[p]]

PollInit ==
  /\ Init
  /\ target \in [Poller -> Request]
  /\ hasId \in [Poller -> BOOLEAN]
  /\ step = [p \in Poller |-> "idle"]
  /\ last = [p \in Poller |-> "none"]

Continue(p, place) ==
  /\ step' = [step EXCEPT ![p] = place]
  /\ UNCHANGED last

\* mutant: the Celery state is passed on as the answer
ReturnState(p, answer) ==
  /\ step' = [step EXCEPT ![p] = "idle"]
  /\ last' = [last EXCEPT ![p] = result[target[p]]]
Return(p, answer) ==
  /\ step' = [step EXCEPT ![p] = "idle"]
  /\ last' = [last EXCEPT ![p] = answer]

\* mutant: a failure on record takes precedence
UnlessFailed(p) == audit[TargetEvent(p)] # NoTier /\ failures[TargetEvent(p)] = NoTask
Scored(p) == audit[TargetEvent(p)] # NoTier

\* 1. audit_log: a row is the happy end, an error of Postgres a 503.
PollAudit(p) ==
  /\ step[p] = "idle"
  /\ pc[target[p]] = "accepted"
  /\ \/ Scored(p) /\ Return(p, "complete")
     \/ ~Scored(p) /\ Continue(p, "failure")
     \/ "poll_error" \in Env /\ Return(p, "unavailable")
  /\ UNCHANGED <<vars, target, hasId>>

\* 2. scoring_failures.
PollFailure(p) ==
  /\ step[p] = "failure"
  /\ \/ failures[TargetEvent(p)] # NoTask /\ Return(p, "failed")
     \/ failures[TargetEvent(p)] = NoTask /\ Continue(p, "celery")
     \/ "poll_error" \in Env /\ Return(p, "unavailable")
  /\ UNCHANGED <<vars, target, hasId>>

\* mutant: any state but SUCCESS counts as running
NotSucceeded(p) == hasId[p] /\ result[target[p]] # "SUCCESS"
Running(p) == hasId[p] /\ result[target[p]] \in Unfinished

\* 3. The Celery state, if the client gave a task id; 4. else a 404.  An error
\* of the result backend, which is Redis, counts as no state.
PollCelery(p) ==
  /\ step[p] = "celery"
  /\ \/ Running(p) /\ Return(p, "processing")
     \/ (~Running(p) \/ "state_error" \in Env) /\ Return(p, "unknown")
  /\ UNCHANGED <<vars, target, hasId>>

Poll(p) == PollAudit(p) \/ PollFailure(p) \/ PollCelery(p)

PollNext ==
  \/ Next /\ UNCHANGED pollVars
  \/ \E p \in Poller : Poll(p)

PollSpec == PollInit /\ [][PollNext]_allVars

\* The workers are fair as in ScoringPipeline, and clients do not give up.
FairPollSpec ==
  /\ PollSpec
  /\ \A w \in Worker : WF_allVars(Work(w) /\ UNCHANGED pollVars)
  /\ \A p \in Poller : WF_allVars(Poll(p))

-----------------------------------------------------------------------------
PollTypeOK ==
  /\ TypeOK
  /\ target \in [Poller -> Request]
  /\ hasId \in [Poller -> BOOLEAN]
  /\ step \in [Poller -> {"idle", "failure", "celery"}]
  /\ last \in [Poller -> PollAnswer \union {"none"}]

\* Answers with a row behind them never regress: after "complete" a client only
\* sees "complete", after "failed" only "failed" or, when a resubmission was
\* scored, "complete".  503s apart.
AnswersNeverRegress ==
  [][\A p \in Poller :
       /\ last[p] = "complete" => last'[p] \in {"complete", "unavailable"}
       /\ last[p] = "failed" => last'[p] \in {"failed", "complete", "unavailable"}]_allVars

\* A copy of the message of task t is queued or being worked on.
TaskLives(t) == TaskInHand(t, WorkerPC \ {"idle"})

\* A "processing" from the GET is true at that moment: the task polled for has
\* a message in the queue or a worker on it, so waiting is not in vain.
PollProcessingIsTrue ==
  [][\A p \in Poller :
       step[p] = "celery" /\ step'[p] = "idle" /\ last'[p] = "processing"
         => TaskLives(target[p])]_allVars

\* A client that keeps polling for an accepted order learns its end: from some
\* time on all its answers are complete or failed, 503s apart.
PollingEnds ==
  \A p \in Poller :
    pc[target[p]] = "accepted" ~> [](last[p] \in {"complete", "failed", "unavailable"})
=============================================================================
