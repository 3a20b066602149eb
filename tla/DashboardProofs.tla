--------------------------- MODULE DashboardProofs ---------------------------
(***************************************************************************)
(* Proofs about the background tasks and about the dashboard that shows    *)
(* their results, for any number of events, workers, sessions, retries and *)
(* outages and under every fault: an explanation asked for is on its way   *)
(* or on record and, once on record, stays; and no page is ever false.     *)
(***************************************************************************)
EXTENDS Dashboard, TLAPS

USE BackgroundAssumption DEF Keep, RetryLink, Requeue, cacheVars

-----------------------------------------------------------------------------
(* The background tasks.                                                    *)

LEMMA BackgroundInit == Init => BackgroundTypeOK
BY DEF Init, BackgroundTypeOK, WorkerPC, Loop, Explanation, LinkEnd

\* Each step of a process, its crash included, keeps the types.
LEMMA WorkerTyped ==
  ASSUME BackgroundTypeOK, NEW w \in Worker, Work(w) \/ Crash(w)
  PROVE  BackgroundTypeOK'
<1>t. /\ queue \subseteq Job /\ dispatched \subseteq Job /\ queue \subseteq dispatched
      /\ at \in [Worker -> WorkerPC]
      /\ job \in [Worker -> Job \union {NoJob}]
      /\ loop \in [Worker -> Loop]
      /\ explanation \in [Event -> Explanation]
      /\ retries \in [LinkTask -> 0..MaxRetries]
      /\ link \in [LinkTask -> LinkEnd]
      /\ unsaved \subseteq Event /\ outages \in 0..MaxOutages
      /\ \A v \in Worker :
           /\ at[v] \in {"call", "saveComplete", "saveFallback"} => job[v] \in Event
           /\ at[v] \in {"enter", "run"} => job[v] \in LinkTask
           /\ at[v] # "idle" => job[v] \in dispatched
  BY DEF BackgroundTypeOK
<1>r. ASSUME NEW l \in LinkTask, l \in dispatched, RetryLink(l)
      PROVE  queue' \subseteq dispatched /\ retries' \in [LinkTask -> 0..MaxRetries]
  BY <1>t, <1>r
<1>1. ASSUME NEW j \in Job, Fetch(w, j) PROVE BackgroundTypeOK'
  <2>1. at' \in [Worker -> WorkerPC] /\ job' \in [Worker -> Job \union {NoJob}]
    BY <1>1, <1>t DEF Fetch, Goto, WorkerPC
  <2>2. ASSUME NEW v \in Worker
        PROVE  /\ at'[v] \in {"call", "saveComplete", "saveFallback"} => job'[v] \in Event
               /\ at'[v] \in {"enter", "run"} => job'[v] \in LinkTask
               /\ at'[v] # "idle" => job'[v] \in dispatched
    BY <1>1, <1>t DEF Fetch, Goto, Job
  <2>3. QED
    BY <1>1, <1>t, <2>1, <2>2 DEF Fetch, BackgroundTypeOK, linkVars, faultVars
<1>2. CASE CallModel(w)
  BY <1>2, <1>t DEF CallModel, Goto, SetLoop, BackgroundTypeOK, WorkerPC, Loop, linkVars,
                    faultVars
<1>3. CASE SaveExplanation(w)
  <2>1. job[w] \in Event /\ at[w] # "idle"
    BY <1>3, <1>t DEF SaveExplanation
  <2>2. explanation' \in [Event -> Explanation] /\ unsaved' \subseteq Event
    BY <1>3, <1>t, <2>1 DEF SaveExplanation, Explanation
  <2>3. QED
    BY <1>3, <1>t, <2>1, <2>2 DEF SaveExplanation, Goto, BackgroundTypeOK, WorkerPC, linkVars
<1>4. CASE EnterLoop(w)
  BY <1>4, <1>t DEF EnterLoop, Goto, SetLoop, BackgroundTypeOK, WorkerPC, Loop, linkVars,
                    faultVars
<1>5. CASE RunLink(w)
  <2>1. job[w] \in LinkTask /\ job[w] \in dispatched
    BY <1>5, <1>t DEF RunLink
  <2>2. /\ queue' \subseteq dispatched /\ retries' \in [LinkTask -> 0..MaxRetries]
        /\ link' \in [LinkTask -> LinkEnd]
    BY <1>5, <1>t, <1>r, <2>1 DEF RunLink, LinkEnd
  <2>3. QED
    BY <1>5, <1>t, <2>1, <2>2 DEF RunLink, Goto, BackgroundTypeOK, WorkerPC, faultVars
<1>6. CASE NoLoop(w)
  <2>1. job[w] \in LinkTask /\ job[w] \in dispatched
    BY <1>6, <1>t DEF NoLoop
  <2>2. /\ queue' \subseteq dispatched /\ retries' \in [LinkTask -> 0..MaxRetries]
        /\ link' \in [LinkTask -> LinkEnd]
    BY <1>6, <1>t, <1>r, <2>1 DEF NoLoop, LinkEnd
  <2>3. QED
    BY <1>6, <1>t, <2>1, <2>2 DEF NoLoop, Goto, BackgroundTypeOK, WorkerPC, faultVars
<1>7. CASE Ack(w)
  BY <1>7, <1>t DEF Ack, Goto, BackgroundTypeOK, WorkerPC, linkVars, faultVars
<1>8. CASE Crash(w)
  BY <1>8, <1>t DEF Crash, Outage, Goto, SetLoop, BackgroundTypeOK, WorkerPC, Loop, linkVars
<1>9. ASSUME NEW j \in Job, NotStarted(w, j) PROVE BackgroundTypeOK'
  <2>1. /\ at' = [at EXCEPT ![w] = "ack"] /\ job' = [job EXCEPT ![w] = j]
        /\ queue' = queue \ {j} /\ j \in dispatched
        /\ unsaved' \subseteq Event /\ outages' \in 0..MaxOutages
        /\ UNCHANGED <<dispatched, loop, explanation, retries, link>>
    BY <1>9, <1>t DEF NotStarted, Outage, Goto, linkVars
  <2>2. QED
    BY <1>t, <2>1 DEF BackgroundTypeOK, WorkerPC
<1>10. QED
  BY <1>1, <1>2, <1>3, <1>4, <1>5, <1>6, <1>7, <1>8, <1>9 DEF Work

LEMMA BackgroundNext == BackgroundTypeOK /\ [Next]_vars => BackgroundTypeOK'
<1> SUFFICES ASSUME BackgroundTypeOK, [Next]_vars PROVE BackgroundTypeOK'
  OBVIOUS
<1>1. ASSUME NEW j \in Job, Dispatch(j) PROVE BackgroundTypeOK'
  BY <1>1 DEF Dispatch, BackgroundTypeOK, linkVars, faultVars
<1>2. CASE UNCHANGED vars
  BY <1>2 DEF vars, BackgroundTypeOK
<1>3. QED
  BY <1>1, <1>2, WorkerTyped DEF Next, Finished

\* Type correctness of the background tasks.
THEOREM BackgroundTypeCorrect == Spec => []BackgroundTypeOK
BY BackgroundInit, BackgroundNext, PTL DEF Spec

\* Only a first save changes the explanation of an event.
LEMMA FirstSave ==
  ASSUME BackgroundTypeOK, [Next]_vars, NEW e \in Event, explanation[e] # "none"
  PROVE  explanation'[e] = explanation[e]
<1>1. ASSUME NEW w \in Worker, SaveExplanation(w) PROVE explanation'[e] = explanation[e]
  BY <1>1 DEF SaveExplanation, BackgroundTypeOK
<1>2. ASSUME NEW w \in Worker, Work(w), ~SaveExplanation(w) PROVE UNCHANGED explanation
  BY <1>2 DEF Work, Fetch, NotStarted, CallModel, EnterLoop, RunLink, NoLoop, Ack
<1>3. QED
  BY <1>1, <1>2 DEF Next, Dispatch, Crash, Finished, vars

\* An explanation on record stays, whatever is redelivered and computed again.
THEOREM ExplanationsStay == Spec => ExplanationStays
<1>1. BackgroundTypeOK /\ [Next]_vars =>
        [\A e \in Event : explanation[e] # "none" => explanation'[e] = explanation[e]]_vars
  BY FirstSave
<1>2. QED
  BY <1>1, BackgroundTypeCorrect, PTL DEF Spec, ExplanationStays

\* What makes ExplanationOnRecord inductive: a process about to acknowledge an
\* explanation has saved it, and an idle one has nothing in hand.
SavedInv ==
  /\ \A w \in Worker : at[w] = "idle" => job[w] = NoJob
  /\ \A w \in Worker : at[w] = "ack" /\ job[w] \in Event \ unsaved
       => explanation[job[w]] # "none"
  /\ ExplanationOnRecord

LEMMA SavedInit == Init => SavedInv
BY DEF Init, SavedInv, ExplanationOnRecord

\* A step that takes no event out of the queue or out of a hand.
LEMMA NothingLost ==
  ASSUME BackgroundTypeOK, BackgroundTypeOK', SavedInv, [Next]_vars,
         dispatched' = dispatched,
         unsaved \subseteq unsaved',
         queue \subseteq queue',
         job' = job
  PROVE  ExplanationOnRecord'
<1> SUFFICES ASSUME NEW e \in Event, e \in dispatched', e \notin unsaved'
             PROVE  \/ explanation'[e] # "none" \/ e \in queue'
                    \/ \E w \in Worker : job'[w] = e
  BY DEF ExplanationOnRecord
<1>1. \/ explanation[e] # "none" \/ e \in queue \/ \E w \in Worker : job[w] = e
  BY DEF SavedInv, ExplanationOnRecord
<1>2. QED
  BY <1>1, FirstSave

LEMMA SavedNext ==
  ASSUME BackgroundTypeOK, BackgroundTypeOK', SavedInv, [Next]_vars
  PROVE  SavedInv'
<1>t. /\ at \in [Worker -> WorkerPC]
      /\ job \in [Worker -> Job \union {NoJob}]
      /\ explanation \in [Event -> Explanation]
  BY DEF BackgroundTypeOK
<1> DEFINE Idle == \A w \in Worker : at[w] = "idle" => job[w] = NoJob
           Saved == \A w \in Worker : at[w] = "ack" /\ job[w] \in Event \ unsaved
                      => explanation[job[w]] # "none"
<1>i. Idle /\ Saved /\ ExplanationOnRecord
  BY DEF SavedInv
<1>1. ASSUME NEW j \in Job, Dispatch(j) PROVE SavedInv'
  <2>1. Idle' /\ Saved'
    BY <1>1, <1>i DEF Dispatch, faultVars
  <2>2. ExplanationOnRecord'
    BY <1>1, <1>i DEF Dispatch, faultVars, ExplanationOnRecord
  <2>3. QED
    BY <2>1, <2>2 DEF SavedInv
<1>2. ASSUME NEW w \in Worker, NEW j \in Job, Fetch(w, j) PROVE SavedInv'
  <2>1. /\ at[w] = "idle" /\ job[w] = NoJob /\ queue' = queue \ {j}
        /\ job' = [job EXCEPT ![w] = j]
        /\ at' = [at EXCEPT ![w] = IF j \in Event THEN "call" ELSE "enter"]
        /\ UNCHANGED <<dispatched, explanation, unsaved>>
    BY <1>2, <1>i DEF Fetch, Goto, faultVars
  <2>2. Idle' /\ Saved'
    BY <1>i, <1>t, <2>1
  <2>3. ASSUME NEW e \in Event, e \in dispatched, e \notin unsaved, explanation[e] = "none",
               e \notin queue'
        PROVE  \E v \in Worker : job'[v] = e
    <3>1. CASE e = j
      BY <1>t, <2>1, <3>1
    <3>2. CASE e # j
      <4>1. PICK v \in Worker : job[v] = e
        BY <1>i, <2>1, <2>3, <3>2 DEF ExplanationOnRecord
      <4>2. v # w
        BY <2>1, <4>1 DEF Job
      <4>3. QED
        BY <1>t, <2>1, <4>1, <4>2
    <3>3. QED
      BY <3>1, <3>2
  <2>4. ExplanationOnRecord'
    BY <2>1, <2>3 DEF ExplanationOnRecord
  <2>5. QED
    BY <2>2, <2>4 DEF SavedInv
<1>3. ASSUME NEW w \in Worker, Ack(w) PROVE SavedInv'
  <2>1. /\ at[w] = "ack" /\ job' = [job EXCEPT ![w] = NoJob]
        /\ at' = [at EXCEPT ![w] = "idle"]
        /\ UNCHANGED <<dispatched, queue, explanation, unsaved>>
    BY <1>3 DEF Ack, Goto, faultVars
  <2>2. Idle' /\ Saved'
    BY <1>i, <1>t, <2>1 DEF Job
  <2>3. ASSUME NEW e \in Event, e \in dispatched, e \notin unsaved, explanation[e] = "none",
               e \notin queue
        PROVE  \E v \in Worker : job'[v] = e
    <3>1. PICK v \in Worker : job[v] = e
      BY <1>i, <2>3 DEF ExplanationOnRecord
    <3>2. v # w
      BY <1>i, <2>1, <2>3, <3>1
    <3>3. QED
      BY <1>t, <2>1, <3>1, <3>2
  <2>4. ExplanationOnRecord'
    BY <2>1, <2>3 DEF ExplanationOnRecord
  <2>5. QED
    BY <2>2, <2>4 DEF SavedInv
<1>4. ASSUME NEW w \in Worker, SaveExplanation(w) PROVE SavedInv'
  <2>1. /\ at[w] \in {"saveComplete", "saveFallback"} /\ job[w] \in Event
        /\ at' = [at EXCEPT ![w] = "ack"]
        /\ UNCHANGED <<dispatched, queue, job>>
        /\ unsaved \subseteq unsaved'
    BY <1>4 DEF SaveExplanation, Goto, BackgroundTypeOK
  <2>2. job[w] \in unsaved' \/ explanation'[job[w]] # "none"
    BY <1>4, <1>t, <2>1 DEF SaveExplanation
  <2>3. \A e \in Event : explanation[e] # "none" => explanation'[e] # "none"
    BY FirstSave
  <2>4. Idle' /\ Saved'
    BY <1>i, <1>t, <2>1, <2>2, <2>3
  <2>5. QED
    BY <2>1, <2>4, NothingLost DEF SavedInv
<1>5. ASSUME NEW w \in Worker, CallModel(w) \/ EnterLoop(w) PROVE SavedInv'
  <2>1. /\ at[w] \in {"call", "enter"}
        /\ \E p \in {"saveComplete", "saveFallback", "run"} : at' = [at EXCEPT ![w] = p]
        /\ UNCHANGED <<dispatched, queue, job, explanation, unsaved>>
    BY <1>5 DEF CallModel, EnterLoop, Goto, faultVars
  <2>2. Idle' /\ Saved'
    BY <1>i, <1>t, <2>1
  <2>3. QED
    BY <2>1, <2>2, NothingLost DEF SavedInv
<1>6. ASSUME NEW w \in Worker, RunLink(w) \/ NoLoop(w) PROVE SavedInv'
  <2>1. /\ job[w] \in LinkTask
        /\ at' = [at EXCEPT ![w] = "ack"]
        /\ UNCHANGED <<dispatched, job, explanation, unsaved>>
        /\ queue \subseteq queue'
    BY <1>6 DEF RunLink, NoLoop, Goto, faultVars, BackgroundTypeOK
  <2>2. Idle' /\ Saved'
    BY <1>i, <1>t, <2>1
  <2>3. QED
    BY <2>1, <2>2, NothingLost DEF SavedInv
<1>7. ASSUME NEW w \in Worker, Crash(w) PROVE SavedInv'
  <2>1. /\ at' = [at EXCEPT ![w] = "idle"] /\ job' = [job EXCEPT ![w] = NoJob]
        /\ queue' = queue \union {job[w]}
        /\ UNCHANGED <<dispatched, explanation, unsaved>>
    BY <1>7 DEF Crash, Goto
  <2>2. Idle' /\ Saved'
    BY <1>i, <1>t, <2>1 DEF Job
  <2>3. ASSUME NEW e \in Event, e \in dispatched, e \notin unsaved, explanation[e] = "none",
               e \notin queue'
        PROVE  \E v \in Worker : job'[v] = e
    <3>1. PICK v \in Worker : job[v] = e
      BY <1>i, <2>1, <2>3 DEF ExplanationOnRecord
    <3>2. v # w
      BY <2>1, <2>3, <3>1
    <3>3. QED
      BY <1>t, <2>1, <3>1, <3>2
  <2>4. ExplanationOnRecord'
    BY <2>1, <2>3 DEF ExplanationOnRecord
  <2>5. QED
    BY <2>2, <2>4 DEF SavedInv
<1>8. CASE UNCHANGED vars
  BY <1>8, <1>i DEF vars, faultVars, SavedInv, ExplanationOnRecord
<1>9. ASSUME NEW w \in Worker, NEW j \in Job, NotStarted(w, j) PROVE SavedInv'
  <2>1. /\ at[w] = "idle" /\ job[w] = NoJob /\ queue' = queue \ {j}
        /\ job' = [job EXCEPT ![w] = j]
        /\ at' = [at EXCEPT ![w] = "ack"]
        /\ unsaved' = unsaved \union ({j} \intersect Event)
        /\ UNCHANGED <<dispatched, explanation>>
    BY <1>9, <1>i DEF NotStarted, Goto
  <2>2. Idle' /\ Saved'
    BY <1>i, <1>t, <2>1
  <2>3. ASSUME NEW e \in Event, e \in dispatched, e \notin unsaved', explanation[e] = "none",
               e \notin queue'
        PROVE  \E v \in Worker : job'[v] = e
    <3>1. PICK v \in Worker : job[v] = e
      BY <1>i, <2>1, <2>3 DEF ExplanationOnRecord
    <3>2. v # w
      BY <2>1, <3>1 DEF Job
    <3>3. QED
      BY <1>t, <2>1, <3>1, <3>2
  <2>4. ExplanationOnRecord'
    BY <2>1, <2>3 DEF ExplanationOnRecord
  <2>5. QED
    BY <2>2, <2>4 DEF SavedInv
<1>10. QED
  BY <1>1, <1>2, <1>3, <1>4, <1>5, <1>6, <1>7, <1>8, <1>9 DEF Next, Work, Finished

\* No explanation gets lost between the queue and its table: whatever crashes,
\* one that was asked for is queued, in work or on record, unless an error of
\* Postgres or of the result backend met it.
THEOREM ExplanationsOnRecord == Spec => []ExplanationOnRecord
<1>1. SavedInv => ExplanationOnRecord
  BY DEF SavedInv
<1>2. QED
  BY <1>1, SavedInit, SavedNext, BackgroundTypeCorrect, PTL DEF Spec

-----------------------------------------------------------------------------
(* The dashboard: it runs the background tasks and scores as promised.      *)

LEMMA ViewStep == ViewNext => [Next]_vars
<1> SUFFICES ASSUME ViewNext PROVE [Next]_vars
  OBVIOUS
<1>1. ASSUME NEW e \in Event, Scoring(e) PROVE [Next]_vars
  <2>1. ASSUME NEW j, Dispatch(j) PROVE [Next]_vars
    BY <2>1 DEF Next, Dispatch
  <2>2. QED
    BY <1>1, <2>1 DEF Scoring, Score, Act, Explain, GiveUp
<1>2. ASSUME NEW w \in Worker, Background(w) PROVE [Next]_vars
  BY <1>2 DEF Background, Next
<1>3. ASSUME NEW s \in Session, Visit(s) PROVE UNCHANGED vars
  BY <1>3 DEF Visit, Rerun, LoadStats, FeedHit, FeedRead, FeedStore, Post, Poll,
              Clear, Render
<1>4. CASE OtherRead \/ OtherStore \/ FeedExpires \/ StatsExpire
  BY <1>4 DEF OtherRead, OtherStore, FeedExpires, StatsExpire
<1>5. QED
  BY <1>1, <1>2, <1>3, <1>4 DEF ViewNext

\* Behind the dashboard the background tasks run as they do alone, so what is
\* proved of them holds here too.
THEOREM ViewRunsTheTasks == ViewSpec => Spec
<1>1. ViewInit => Init
  BY DEF ViewInit
<1>2. [ViewNext]_allVars => [Next]_vars
  BY ViewStep DEF allVars
<1>3. QED
  BY <1>1, <1>2, PTL DEF ViewSpec, Spec

LEMMA PromiseStep == ViewNext => [Promise!Next]_<<record, done>>
<1> SUFFICES ASSUME ViewNext PROVE [Promise!Next]_<<record, done>>
  OBVIOUS
<1>1. ASSUME NEW e \in Event, Scoring(e) PROVE [Promise!Next]_<<record, done>>
  BY <1>1 DEF Scoring, Score, Act, Explain, GiveUp, Promise!Next
<1>2. ASSUME NEW w \in Worker, Background(w) PROVE UNCHANGED <<record, done>>
  BY <1>2 DEF Background, scoringVars
<1>3. ASSUME NEW s \in Session, Visit(s) PROVE UNCHANGED <<record, done>>
  BY <1>3 DEF Visit, Rerun, LoadStats, FeedHit, FeedRead, FeedStore, Post, Poll,
              Clear, Render, scoringVars
<1>4. CASE OtherRead \/ OtherStore \/ FeedExpires \/ StatsExpire
  BY <1>4 DEF OtherRead, OtherStore, FeedExpires, StatsExpire, scoringVars
<1>5. QED
  BY <1>1, <1>2, <1>3, <1>4 DEF ViewNext

\* A verdict on record stays.
LEMMA RecordStays ==
  ASSUME DashboardTypeOK, [ViewNext]_allVars, NEW e \in Event, record[e] # Promise!NoTier
  PROVE  record'[e] = record[e]
<1>1. CASE UNCHANGED <<record, done>>
  BY <1>1
<1>2. CASE Promise!Next
  BY <1>2 DEF Promise!Next, Promise!Record, Promise!Act, Promise!Explain, DashboardTypeOK
<1>3. QED
  BY <1>1, <1>2, PromiseStep DEF allVars, scoringVars

LEMMA RecordTyped ==
  ASSUME DashboardTypeOK, [ViewNext]_allVars
  PROVE  record' \in [Event -> Promise!Tier \union {Promise!NoTier}]
<1>1. CASE UNCHANGED <<record, done>>
  BY <1>1 DEF DashboardTypeOK
<1>2. CASE Promise!Next
  BY <1>2 DEF Promise!Next, Promise!Record, Promise!Act, Promise!Explain, DashboardTypeOK
<1>3. QED
  BY <1>1, <1>2, PromiseStep DEF allVars, scoringVars

-----------------------------------------------------------------------------
(* Its types.                                                               *)

LEMMA FeedIsPage == DashboardTypeOK => Feed \in Page
<1> SUFFICES ASSUME DashboardTypeOK PROVE Feed \in Page
  OBVIOUS
<1>1. ASSUME NEW e \in Scored PROVE Feed[e] \in Row
  BY DEF Feed, Scored, Row, Status, DashboardTypeOK, BackgroundTypeOK, Explanation
<1>2. Feed \in [Scored -> Row]
  BY <1>1 DEF Feed
<1>3. Scored \in SUBSET Event
  BY DEF Scored
<1>4. QED
  BY <1>2, <1>3 DEF Page

LEMMA NoRowsIsPage == NoRows \in Page
<1>1. NoRows \in [{} -> Row]
  BY DEF NoRows
<1>2. {} \in SUBSET Event
  OBVIOUS
<1>3. QED
  BY <1>1, <1>2 DEF Page

LEMMA ViewTypedInit == ViewInit => DashboardTypeOK
<1> SUFFICES ASSUME ViewInit PROVE DashboardTypeOK
  OBVIOUS
<1>1. BackgroundTypeOK
  BY BackgroundInit DEF ViewInit
<1>2. Scored = {}
  BY DEF ViewInit, Promise!Init, Scored
<1>3. record \in [Event -> Promise!Tier \union {Promise!NoTier}]
  BY DEF ViewInit, Promise!Init
<1>4. 0 \in 0..MaxAttempts /\ 0 # MaxAttempts /\ 0 \in 0..MaxReadErrors
  BY DashboardAssumption
<1>5. QED
  BY <1>1, <1>2, <1>3, <1>4, NoRowsIsPage DEF ViewInit, DashboardTypeOK, Place

\* A step that leaves the sessions and their cache alone.
LEMMA ServerTyped ==
  ASSUME DashboardTypeOK, ViewNext, UNCHANGED viewVars,
         submitted' = submitted, failed' \subseteq submitted, Scored' \subseteq submitted
  PROVE  DashboardTypeOK'
<1>1. BackgroundTypeOK'
  BY ViewStep, BackgroundNext DEF DashboardTypeOK
<1>2. record' \in [Event -> Promise!Tier \union {Promise!NoTier}]
  BY RecordTyped
<1>3. QED
  BY <1>1, <1>2 DEF DashboardTypeOK, viewVars, sessionVars

LEMMA ScoringTyped ==
  ASSUME DashboardTypeOK, NEW e \in Event, Scoring(e)
  PROVE  DashboardTypeOK'
<1>1. ViewNext /\ UNCHANGED viewVars /\ submitted' = submitted
  BY DEF ViewNext, Scoring, Score, Act, Explain, GiveUp
<1>2. failed' \subseteq submitted
  BY DEF Scoring, Score, Act, Explain, GiveUp, DashboardTypeOK
<1>3. Scored' \subseteq submitted
  <2>1. ASSUME NEW tier, Score(e, tier) PROVE Scored' \subseteq submitted
    BY <2>1 DEF Score, Promise!Record, Scored, DashboardTypeOK
  <2>2. CASE UNCHANGED record
    BY <2>2 DEF Scored, DashboardTypeOK
  <2>3. QED
    BY <2>1, <2>2 DEF Scoring, Act, Explain, GiveUp, Promise!Act, Promise!Explain
<1>4. QED
  BY <1>1, <1>2, <1>3, ServerTyped

LEMMA VisitTyped ==
  ASSUME DashboardTypeOK, NEW s \in Session, Visit(s)
  PROVE  DashboardTypeOK'
<1> USE DashboardAssumption
<1>t. /\ place \in [Session -> Place]
      /\ noStats \in BOOLEAN /\ stats \in [Session -> BOOLEAN]
      /\ loaded \in [Session -> Page]
      /\ form \in [Session -> Event \union {NoEvent}]
      /\ tries \in [Session -> 0..MaxAttempts]
      /\ shown \in [Session -> Page]
      /\ announced \in [Session -> Event \union {NoEvent}]
      /\ readErrors \in 0..MaxReadErrors /\ overtaken \in BOOLEAN
      /\ \A rows \in {cache, elsewhere} : rows = {} \/ \E page \in Page : rows = {page}
      /\ submitted \subseteq Event /\ failed \subseteq submitted /\ Scored \subseteq submitted
      /\ \A t \in Session :
           /\ place[t] \in {"post", "poll", "clear"} => form[t] \in Event
           /\ tries[t] = MaxAttempts => place[t] = "render"
  BY DEF DashboardTypeOK
<1>n. UNCHANGED <<vars, record, done, failed>>
  BY DEF Visit, Rerun, LoadStats, FeedHit, FeedRead, FeedStore, Post, Poll,
         Clear, Render, scoringVars
<1>b. /\ BackgroundTypeOK'
      /\ record' \in [Event -> Promise!Tier \union {Promise!NoTier}]
      /\ Scored' = Scored
  BY <1>n, BackgroundNext DEF DashboardTypeOK, Scored
<1>e. ASSUME NEW page \in Page, EndRun(s, page)
      PROVE  /\ place' \in [Session -> Place]
             /\ stats' \in [Session -> BOOLEAN]
             /\ loaded' \in [Session -> Page]
             /\ form' \in [Session -> Event \union {NoEvent}]
             /\ tries' \in [Session -> 0..MaxAttempts]
             /\ shown' \in [Session -> Page]
             /\ announced' \in [Session -> Event \union {NoEvent}]
             /\ \A t \in Session :
                  /\ place'[t] \in {"post", "poll", "clear"} => form'[t] \in Event
                  /\ tries'[t] = MaxAttempts => place'[t] = "render"
  BY <1>e, <1>t, NoRowsIsPage DEF EndRun, Goes, Place
<1>1. ASSUME NEW e, Rerun(s, e) PROVE DashboardTypeOK'
  BY <1>1, <1>t, <1>n, <1>b DEF Rerun, Goes, Place, DashboardTypeOK, scoringVars
<1>2. CASE LoadStats(s)
  <2>1. noStats' \in BOOLEAN /\ stats' \in [Session -> BOOLEAN]
    BY <1>2, <1>t DEF LoadStats
  <2>2. readErrors' \in 0..MaxReadErrors
    BY <1>2, <1>t DEF LoadStats, QueryFails
  <2>3. QED
    BY <1>2, <1>t, <1>n, <1>b, <2>1, <2>2 DEF LoadStats, Goes, Place, DashboardTypeOK, scoringVars
<1>3. CASE FeedHit(s)
  <2>1. PICK rows \in cache : loaded' = [loaded EXCEPT ![s] = rows]
    BY <1>3 DEF FeedHit
  <2>2. rows \in Page
    BY <1>t, <2>1
  <2>3. QED
    BY <1>3, <1>t, <1>n, <1>b, <2>1, <2>2 DEF FeedHit, AfterFeed, Goes, Place, DashboardTypeOK,
                                              scoringVars
<1>4. CASE FeedRead(s)
  <2>1. PICK page \in Page : loaded' = [loaded EXCEPT ![s] = page]
    BY <1>4, FeedIsPage, NoRowsIsPage DEF FeedRead
  <2>2. readErrors' \in 0..MaxReadErrors
    BY <1>4, <1>t DEF FeedRead, QueryFails
  <2>3. QED
    BY <1>4, <1>t, <1>n, <1>b, <2>1, <2>2 DEF FeedRead, Goes, Place, DashboardTypeOK,
                                              scoringVars
<1>5. CASE FeedStore(s)
  BY <1>5, <1>t, <1>n, <1>b DEF FeedStore, AfterFeed, Goes, Place, DashboardTypeOK, scoringVars
<1>6. CASE Post(s)
  <2>1. submitted' \subseteq Event /\ submitted \subseteq submitted'
    BY <1>6, <1>t DEF Post
  <2>2. QED
    BY <1>6, <1>t, <1>n, <1>b, <2>1 DEF Post, Goes, Place, DashboardTypeOK
<1>7. CASE Poll(s)
  BY <1>7, <1>t, <1>n, <1>b DEF Poll, Goes, Place, DashboardTypeOK, scoringVars
<1>8. CASE Clear(s)
  <2>1. /\ place' \in [Session -> Place]
        /\ loaded' \in [Session -> Page]
        /\ form' \in [Session -> Event \union {NoEvent}]
        /\ tries' \in [Session -> 0..MaxAttempts]
        /\ overtaken' \in BOOLEAN
    BY <1>8, <1>t, NoRowsIsPage DEF Clear, Goes, Place
  <2>2. announced' \in [Session -> Event \union {NoEvent}]
    BY <1>8, <1>t DEF Clear, Scored
  <2>3. ASSUME NEW t \in Session
        PROVE  /\ place'[t] \in {"post", "poll", "clear"} => form'[t] \in Event
               /\ tries'[t] = MaxAttempts => place'[t] = "render"
    BY <1>8, <1>t DEF Clear, Goes
  <2>4. QED
    BY <1>8, <1>t, <1>n, <1>b, <2>1, <2>2, <2>3
       DEF Clear, ClearCache, DashboardTypeOK, scoringVars
<1>9. CASE Render(s)
  BY <1>9, <1>t, <1>n, <1>b, <1>e, NoRowsIsPage DEF Render, DashboardTypeOK, scoringVars
<1>10. QED
  BY <1>1, <1>2, <1>3, <1>4, <1>5, <1>6, <1>7, <1>8, <1>9 DEF Visit

LEMMA ViewTypedNext == DashboardTypeOK /\ [ViewNext]_allVars => DashboardTypeOK'
<1> SUFFICES ASSUME DashboardTypeOK, [ViewNext]_allVars PROVE DashboardTypeOK'
  OBVIOUS
<1>1. ASSUME NEW w \in Worker, Background(w) PROVE DashboardTypeOK'
  BY <1>1, ServerTyped DEF Background, ViewNext, scoringVars, DashboardTypeOK, Scored
<1>2. CASE OtherRead
  <2>1. BackgroundTypeOK' /\ Scored' = Scored
    BY <1>2, BackgroundNext DEF OtherRead, DashboardTypeOK, Scored, scoringVars
  <2>2. QED
    BY <1>2, <2>1, FeedIsPage DEF OtherRead, DashboardTypeOK, scoringVars, sessionVars
<1>3. CASE OtherStore \/ FeedExpires \/ StatsExpire \/ UNCHANGED allVars
  <2>1. BackgroundTypeOK' /\ Scored' = Scored
    BY <1>3, BackgroundNext
       DEF OtherStore, FeedExpires, StatsExpire, allVars, DashboardTypeOK, Scored, scoringVars
  <2>2. QED
    BY <1>3, <2>1
       DEF OtherStore, FeedExpires, StatsExpire, allVars, viewVars, DashboardTypeOK, scoringVars,
           sessionVars
<1>4. QED
  BY <1>1, <1>2, <1>3, ScoringTyped, VisitTyped DEF ViewNext

\* Type correctness of the dashboard, and with it that a form that is polling
\* has an event of its own.
THEOREM DashboardTypeCorrect == ViewSpec => []DashboardTypeOK
BY ViewTypedInit, ViewTypedNext, PTL DEF ViewSpec

-----------------------------------------------------------------------------
(* No page is false.                                                        *)

\* What a page says of its orders is what the tables say.
TrueRows(rows) ==
  \A e \in DOMAIN rows :
    /\ rows[e].tier = record[e]
    /\ rows[e].status # "pending" => rows[e].status = explanation[e]

\* ShownWasTrue is not inductive alone: the rows on their way to a page, in a
\* run of main() or in the cache, must be true as well.
RowsInv ==
  /\ \A s \in Session : TrueRows(shown[s]) /\ TrueRows(loaded[s])
  /\ \A rows \in cache \union elsewhere : TrueRows(rows)

LEMMA RowsStayTrue ==
  ASSUME DashboardTypeOK, [ViewNext]_allVars, NEW rows \in Page, TrueRows(rows)
  PROVE  TrueRows(rows)'
<1> SUFFICES ASSUME NEW e \in DOMAIN rows
             PROVE  /\ rows[e].tier = record'[e]
                    /\ rows[e].status # "pending" => rows[e].status = explanation'[e]
  BY DEF TrueRows
<1>1. e \in Event /\ rows[e] \in Row
  BY DEF Page
<1>2. rows[e].tier = record[e] /\ record[e] # Promise!NoTier
  BY <1>1 DEF TrueRows, Row, Promise!Tier, Promise!NoTier
<1>3. ASSUME rows[e].status # "pending" PROVE rows[e].status = explanation'[e]
  <2>1. rows[e].status = explanation[e] /\ explanation[e] # "none"
    BY <1>1, <1>3 DEF TrueRows, Row, Status
  <2>2. BackgroundTypeOK /\ [Next]_vars
    BY ViewStep DEF DashboardTypeOK, allVars
  <2>3. QED
    BY <1>1, <2>1, <2>2, FirstSave
<1>4. QED
  BY <1>1, <1>2, <1>3, RecordStays

LEMMA FeedIsTrue == TrueRows(Feed)
BY DEF TrueRows, Feed, Scored

LEMMA NoRowsAreTrue == TrueRows(NoRows)
BY DEF TrueRows, NoRows

LEMMA RowsInit == ViewInit => RowsInv
BY NoRowsAreTrue DEF ViewInit, RowsInv

\* Rows come from the tables, and then only move.
LEMMA RowsNext ==
  ASSUME DashboardTypeOK, RowsInv, [ViewNext]_allVars
  PROVE  RowsInv'
<1> DEFINE Old == {NoRows, Feed} \union cache \union elsewhere
                    \union {shown[s] : s \in Session} \union {loaded[s] : s \in Session}
           Moved == /\ cache' \subseteq Old /\ elsewhere' \subseteq Old
                    /\ \A t \in Session : shown'[t] \in Old /\ loaded'[t] \in Old
<1>1. \A rows \in Old : rows \in Page /\ TrueRows(rows)
  BY FeedIsPage, NoRowsIsPage, FeedIsTrue, NoRowsAreTrue DEF RowsInv, DashboardTypeOK
<1>2. \A rows \in Old : TrueRows(rows)'
  BY <1>1, RowsStayTrue
<1>t. /\ shown \in [Session -> Page] /\ loaded \in [Session -> Page]
  BY DEF DashboardTypeOK
<1>3. Moved
  <2>1. ASSUME NEW s \in Session, LoadStats(s) \/ Post(s) \/ Poll(s)
        PROVE  Moved
    BY <2>1 DEF LoadStats, Post, Poll
  <2>2. ASSUME NEW s \in Session, Render(s) PROVE Moved
    BY <2>2, <1>t DEF Render, EndRun
  <2>3. ASSUME NEW s \in Session, FeedHit(s) \/ FeedRead(s) \/ FeedStore(s) PROVE Moved
    BY <2>3, <1>t DEF FeedHit, FeedRead, FeedStore
  <2>4. ASSUME NEW s \in Session, Clear(s) PROVE Moved
    BY <2>4, <1>t DEF Clear, ClearCache
  <2>5. ASSUME NEW s \in Session, NEW e, Rerun(s, e) PROVE Moved
    BY <2>5 DEF Rerun
  <2>6. CASE OtherRead \/ OtherStore \/ FeedExpires \/ StatsExpire
    BY <2>6 DEF OtherRead, OtherStore, FeedExpires, StatsExpire, sessionVars
  <2>7. CASE UNCHANGED viewVars
    BY <2>7 DEF viewVars, sessionVars
  <2>8. QED
    BY <2>1, <2>2, <2>3, <2>4, <2>5, <2>6, <2>7
       DEF ViewNext, Visit, Scoring, Score, Act, Explain, GiveUp, Background, allVars
<1>4. QED
  BY <1>2, <1>3 DEF RowsInv

\* A page may be old but is never false.
THEOREM PagesAreTrue == ViewSpec => []ShownWasTrue
<1>1. RowsInv => ShownWasTrue
  BY DEF RowsInv, TrueRows, ShownWasTrue
<1>2. QED
  BY <1>1, RowsInit, RowsNext, DashboardTypeCorrect, PTL DEF ViewSpec

-----------------------------------------------------------------------------
(* What was announced is shown.                                             *)

\* From "Decision received!" until the page is there, the order is in every
\* feed that could get to that page: those cached or about to be, once no query
\* from before the clear() is left.
AnnouncedInv ==
  \A s \in Session : announced[s] # NoEvent =>
    /\ announced[s] \in Scored
    /\ form[s] = NoEvent
    /\ place[s] \in {"stats", "feed", "store", "render"}
    /\ readErrors = 0 /\ ~overtaken =>
         /\ \A rows \in cache \union elsewhere : announced[s] \in DOMAIN rows
         /\ \A t \in Session : place[t] = "store" => announced[s] \in DOMAIN loaded[t]
         /\ place[s] = "render" => announced[s] \in DOMAIN loaded[s]

LEMMA ScoredStays == DashboardTypeOK /\ [ViewNext]_allVars => Scored \subseteq Scored'
BY RecordStays DEF Scored

LEMMA AnnouncedVisit ==
  ASSUME DashboardTypeOK, AnnouncedInv, NEW s \in Session, Visit(s), Scored' = Scored
  PROVE  AnnouncedInv'
<1>t. /\ place \in [Session -> Place]
      /\ loaded \in [Session -> Page]
      /\ form \in [Session -> Event \union {NoEvent}]
      /\ announced \in [Session -> Event \union {NoEvent}]
      /\ readErrors \in Nat /\ overtaken \in BOOLEAN
      /\ place[s] \in {"post", "poll", "clear"} => form[s] \in Event
  BY DashboardAssumption DEF DashboardTypeOK
<1>i. ASSUME NEW t \in Session, announced[t] # NoEvent
      PROVE  /\ announced[t] \in Scored /\ form[t] = NoEvent
             /\ place[t] \in {"stats", "feed", "store", "render"}
             /\ readErrors = 0 /\ ~overtaken =>
                  /\ \A rows \in cache \union elsewhere : announced[t] \in DOMAIN rows
                  /\ \A u \in Session : place[u] = "store" => announced[t] \in DOMAIN loaded[u]
                  /\ place[t] = "render" => announced[t] \in DOMAIN loaded[t]
  BY <1>i DEF AnnouncedInv
<1>f. DOMAIN Feed = Scored
  BY DEF Feed
<1>1. ASSUME NEW e, Rerun(s, e) PROVE AnnouncedInv'
  BY <1>1, <1>t, <1>i DEF Rerun, Goes, AnnouncedInv
<1>2. CASE LoadStats(s)
  <2>1. readErrors' = 0 => readErrors = 0
    BY <1>2, <1>t DEF LoadStats, QueryFails
  <2>2. QED
    BY <1>2, <1>t, <1>i, <2>1 DEF LoadStats, Goes, AnnouncedInv
<1>3. CASE FeedHit(s)
  BY <1>3, <1>t, <1>i DEF FeedHit, AfterFeed, Goes, AnnouncedInv
<1>4. CASE FeedRead(s)
  <2>1. CASE loaded' = [loaded EXCEPT ![s] = Feed] /\ UNCHANGED readErrors
    BY <1>4, <1>t, <1>i, <1>f, <2>1 DEF FeedRead, Goes, AnnouncedInv
  <2>2. CASE QueryFails
    <3>1. readErrors' # 0
      BY <1>t, <2>2 DEF QueryFails
    <3>2. QED
      BY <1>4, <1>t, <1>i, <3>1 DEF FeedRead, Goes, AnnouncedInv
  <2>3. QED
    BY <1>4, <2>1, <2>2 DEF FeedRead
<1>5. CASE FeedStore(s)
  BY <1>5, <1>t, <1>i DEF FeedStore, AfterFeed, Goes, AnnouncedInv
<1>6. CASE Post(s) \/ Poll(s)
  <2>1. announced[s] = NoEvent
    BY <1>6, <1>i DEF Post, Poll
  <2>2. /\ \E p \in Place \ {"store"} : place' = [place EXCEPT ![s] = p]
        /\ UNCHANGED <<cache, elsewhere, loaded, form, announced, readErrors, overtaken>>
    BY <1>6, <1>t DEF Post, Poll, Goes, Place
  <2>3. QED
    BY <1>t, <1>i, <2>1, <2>2 DEF AnnouncedInv
<1>7. CASE Clear(s)
  <2>1. /\ cache' = {}
        /\ form' = [form EXCEPT ![s] = NoEvent]
        /\ place' = [place EXCEPT ![s] = "stats"]
        /\ loaded' = [loaded EXCEPT ![s] = NoRows]
        /\ announced' = [announced EXCEPT ![s] = IF form[s] \in Scored THEN form[s] ELSE NoEvent]
        /\ UNCHANGED <<elsewhere, readErrors>>
        /\ ~overtaken' => elsewhere = {} /\ \A t \in Session : place[t] # "store"
        /\ ~overtaken' => ~overtaken
    BY <1>7 DEF Clear, ClearCache, Goes
  <2>2. ASSUME NEW t \in Session, announced'[t] # NoEvent
        PROVE  /\ announced'[t] \in Scored' /\ form'[t] = NoEvent
               /\ place'[t] \in {"stats", "feed", "store", "render"}
               /\ readErrors' = 0 /\ ~overtaken' =>
                    /\ \A rows \in cache' \union elsewhere' : announced'[t] \in DOMAIN rows
                    /\ \A u \in Session :
                         place'[u] = "store" => announced'[t] \in DOMAIN loaded'[u]
                    /\ place'[t] = "render" => announced'[t] \in DOMAIN loaded'[t]
    <3>1. CASE t = s
      BY <1>t, <2>1, <2>2, <3>1
    <3>2. CASE t # s
      BY <1>t, <1>i, <2>1, <2>2, <3>2
    <3>3. QED
      BY <3>1, <3>2
  <2>3. QED
    BY <2>2 DEF AnnouncedInv
<1>8. CASE Render(s)
  BY <1>8, <1>t, <1>i DEF Render, EndRun, Goes, AnnouncedInv
<1>9. QED
  BY <1>1, <1>2, <1>3, <1>4, <1>5, <1>6, <1>7, <1>8 DEF Visit

LEMMA AnnouncedNext ==
  ASSUME DashboardTypeOK, AnnouncedInv, [ViewNext]_allVars
  PROVE  AnnouncedInv'
<1>s. Scored \subseteq Scored'
  BY ScoredStays
<1>1. ASSUME NEW s \in Session, Visit(s) PROVE AnnouncedInv'
  <2>1. Scored' = Scored
    BY <1>1 DEF Visit, Rerun, LoadStats, FeedHit, FeedRead, FeedStore, Post, Poll,
                Clear, Render, scoringVars, Scored
  <2>2. QED
    BY <1>1, <2>1, AnnouncedVisit
<1>2. CASE UNCHANGED viewVars
  BY <1>2, <1>s DEF viewVars, sessionVars, AnnouncedInv
<1>3. CASE OtherRead
  BY <1>3, <1>s DEF OtherRead, sessionVars, AnnouncedInv, Feed
<1>4. CASE OtherStore \/ FeedExpires \/ StatsExpire
  BY <1>4, <1>s DEF OtherStore, FeedExpires, StatsExpire, sessionVars, AnnouncedInv
<1>5. QED
  BY <1>1, <1>2, <1>3, <1>4
     DEF ViewNext, Scoring, Score, Act, Explain, GiveUp, Background, allVars

\* As long as no query has failed, there are statistics.
StatsInv == readErrors = 0 => ~noStats /\ \A s \in Session : stats[s]

LEMMA StatsNext ==
  ASSUME DashboardTypeOK, StatsInv, [ViewNext]_allVars
  PROVE  StatsInv'
<1>t. /\ readErrors \in Nat
      /\ stats \in [Session -> BOOLEAN]
  BY DashboardAssumption DEF DashboardTypeOK
<1>1. ASSUME NEW s \in Session, Visit(s) PROVE StatsInv'
  <2>1. CASE LoadStats(s)
    BY <1>t, <2>1 DEF LoadStats, QueryFails, StatsInv
  <2>2. CASE FeedRead(s)
    BY <1>t, <2>2 DEF FeedRead, QueryFails, StatsInv
  <2>3. CASE Clear(s) \/ Render(s)
    BY <1>t, <2>3 DEF Clear, ClearCache, Render, EndRun, StatsInv
  <2>4. ASSUME UNCHANGED <<noStats, stats, readErrors>> PROVE StatsInv'
    BY <2>4 DEF StatsInv
  <2>5. QED
    BY <1>1, <2>1, <2>2, <2>3, <2>4
       DEF Visit, Rerun, FeedHit, FeedStore, Post, Poll
<1>2. CASE UNCHANGED viewVars
  BY <1>2 DEF viewVars, sessionVars, StatsInv
<1>3. CASE OtherRead \/ OtherStore \/ FeedExpires \/ StatsExpire
  BY <1>3 DEF OtherRead, OtherStore, FeedExpires, StatsExpire, sessionVars, StatsInv
<1>4. QED
  BY <1>1, <1>2, <1>3
     DEF ViewNext, Scoring, Score, Act, Explain, GiveUp, Background, allVars

\* An order announced as decided is on the page that follows, unless a query
\* failed or one of another tab overtook the clear() of the cache.
THEOREM AnnouncedIsShown == ViewSpec => ShownAfterScored
<1>1. ViewInit => AnnouncedInv
  BY DEF ViewInit, AnnouncedInv
<1> DEFINE Shown ==
      \A s \in Session :
        announced[s] # NoEvent /\ announced'[s] = NoEvent
          => announced[s] \in DOMAIN shown'[s] \/ readErrors' > 0 \/ overtaken
<1>2. ASSUME DashboardTypeOK, AnnouncedInv, StatsInv, [ViewNext]_allVars PROVE [Shown]_allVars
  <2> SUFFICES ASSUME NEW s \in Session, announced[s] # NoEvent, announced'[s] = NoEvent
               PROVE  announced[s] \in DOMAIN shown'[s] \/ readErrors' > 0 \/ overtaken
    OBVIOUS
  <2>t. /\ announced \in [Session -> Event \union {NoEvent}]
        /\ shown \in [Session -> Page]
        /\ readErrors \in Nat
        /\ place[s] = "clear" => form[s] \in Event
    BY <1>2, DashboardAssumption DEF DashboardTypeOK
  <2>i. /\ form[s] = NoEvent /\ place[s] \in {"stats", "feed", "store", "render"}
        /\ readErrors = 0 /\ ~overtaken /\ place[s] = "render"
             => announced[s] \in DOMAIN loaded[s] /\ stats[s]
    BY <1>2 DEF AnnouncedInv, StatsInv
  <2>1. Render(s)
    <3>1. PICK r \in Session : Visit(r)
      BY <1>2 DEF ViewNext, Scoring, Score, Act, Explain, GiveUp, Background, OtherRead,
                  OtherStore, FeedExpires, StatsExpire, allVars, viewVars, sessionVars
    <3>2. Render(r) \/ Clear(r)
      BY <3>1 DEF Visit, Rerun, LoadStats, FeedHit, FeedRead, FeedStore, Post, Poll
    <3>3. r = s
      BY <3>2, <2>t DEF Render, Clear, EndRun
    <3>4. QED
      BY <3>2, <3>3, <2>i DEF Clear
  <2>2. QED
    BY <2>1, <2>t, <2>i DEF Render, EndRun
<1>3. ViewInit => StatsInv
  BY DEF ViewInit, StatsInv
<1>4. QED
  BY <1>1, <1>2, <1>3, AnnouncedNext, StatsNext, DashboardTypeCorrect, PTL DEF ViewSpec, ShownAfterScored
=============================================================================
