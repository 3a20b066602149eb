------------------------------ MODULE Dashboard ------------------------------
(***************************************************************************)
(* An order from the score form of the dashboard (dashboard/app.py) to the *)
(* page that shows its decision and its explanation.  Three components     *)
(* meet here: scoring, of which only ScoringPromise is used, the           *)
(* background tasks it dispatches (BackgroundTasks, step by step), and the *)
(* sessions of the dashboard.                                              *)
(*                                                                         *)
(* A session is one browser tab.  Streamlit runs main() from the top on    *)
(* every interaction: load the statistics and the feed, handle the form,   *)
(* render what was loaded.  Both are cached for all sessions, and what a   *)
(* failed query returns is cached like any other result.  Of the           *)
(* statistics only an empty result matters: one that is there is as good   *)
(* as a query that succeeds.  Tabs that are not in Session show by the     *)
(* queries they fill the cache with.                                       *)
(***************************************************************************)
EXTENDS BackgroundTasks

CONSTANTS
  Session,        \* browser tabs that are followed step by step
  LinkOf,         \* the payment link task of each event
  MaxAttempts,    \* max_attempts of the polling loop in the form
  ViewEnv,        \* what else may go wrong, subset of ViewEnvKind
  MaxReadErrors,  \* bound on failed queries of the dashboard
  NoEvent         \* different from every event

ViewEnvKind == {"api_error", "read_error"}
Place == {"idle", "stats", "feed", "store", "post", "poll", "clear", "render"}

ASSUME DashboardAssumption ==
  /\ LinkOf \in [Event -> LinkTask]
  /\ \A d, e \in Event : LinkOf[d] = LinkOf[e] => d = e
  /\ MaxAttempts \in Nat \ {0}
  /\ ViewEnv \subseteq ViewEnvKind
  /\ MaxReadErrors \in Nat
  /\ NoEvent \notin Event

VARIABLES
  submitted,   \* the events the API has accepted
  record,      \* audit_log: the tier of each event
  done,        \* the side effects triggered for each event
  failed,      \* scoring_failures: the events with a row
  cache,       \* st.cache_data: what load_audit_feed returned last, if kept
  noStats,     \* st.cache_data: an empty result of load_summary_stats is kept
  place,       \* where each session is in main()
  stats,       \* its run of main() has statistics
  loaded,      \* the feed its run of main() has loaded
  form,        \* the event in its form, or NoEvent
  tries,       \* the polls its form has made
  shown,       \* the feed on its page
  announced,   \* the scored event whose "Decision received!" led to this rerun
  elsewhere,   \* what a query of the feed for any other tab has returned, if under way
  readErrors,  \* failed queries so far
  overtaken    \* history: a clear() came between a query and its storing

scoringVars == <<submitted, record, done, failed>>
cacheVars == <<cache, noStats>>
sessionVars == <<place, stats, loaded, form, tries, shown, announced>>
viewVars == <<cacheVars, elsewhere, sessionVars, readErrors, overtaken>>
allVars == <<vars, scoringVars, viewVars>>

Promise == INSTANCE ScoringPromise

Scored == {e \in Event : record[e] # Promise!NoTier}

\* load_audit_feed: audit_log LEFT JOIN llm_explanations.  A failed query gives
\* the same as empty tables.
Status == {"pending", "complete", "fallback"}
Row == [tier : Promise!Tier, status : Status]
NoRows == [e \in {} |-> NoEvent]
Feed ==
  [e \in Scored |->
    [tier |-> record[e], status |-> IF explanation[e] = "none" THEN "pending" ELSE explanation[e]]]

ViewInit ==
  /\ Init
  /\ Promise!Init
  /\ submitted = {}
  /\ failed = {}
  /\ cache = {}
  /\ noStats = FALSE
  /\ stats = [s \in Session |-> TRUE]
  /\ place = [s \in Session |-> "idle"]
  /\ loaded = [s \in Session |-> NoRows]
  /\ form = [s \in Session |-> NoEvent]
  /\ tries = [s \in Session |-> 0]
  /\ shown = [s \in Session |-> NoRows]
  /\ announced = [s \in Session |-> NoEvent]
  /\ elsewhere = {}
  /\ readErrors = 0
  /\ overtaken = FALSE

-----------------------------------------------------------------------------
(* Scoring, as ScoringPromise has it: what it triggers are the jobs of      *)
(* BackgroundTasks.                                                         *)

Score(e, tier) ==
  /\ e \in submitted
  /\ Promise!Record(e, tier)
  /\ UNCHANGED <<vars, submitted, failed, viewVars>>

\* The soft gate only logs; a nudge is a payment link task.
Act(e) ==
  /\ Promise!Act(e)
  /\ IF record[e] = "NUDGE_PREPAY" THEN Dispatch(LinkOf[e]) ELSE UNCHANGED vars
  /\ UNCHANGED <<submitted, failed, viewVars>>

Explain(e) ==
  /\ Promise!Explain(e)
  /\ Dispatch(e)
  /\ UNCHANGED <<submitted, failed, viewVars>>

\* A final failure.  Next to an audit_log row it would change no answer.
GiveUp(e) ==
  /\ e \in submitted \ (failed \union Scored)
  /\ failed' = failed \union {e}
  /\ UNCHANGED <<vars, submitted, record, done, viewVars>>

-----------------------------------------------------------------------------
(* A session: one run of main().                                            *)

Goes(s, p) == place' = [place EXCEPT ![s] = p]

\* The user opens or touches the page, or submits the form with a new event_id.
Rerun(s, e) ==
  /\ place[s] = "idle"
  /\ e = NoEvent \/ (e \in Event \ submitted /\ \A t \in Session : form[t] # e)
  /\ form' = [form EXCEPT ![s] = e]
  /\ Goes(s, "stats")
  /\ UNCHANGED <<vars, scoringVars, cacheVars, elsewhere, stats, loaded, tries, shown,
                 announced, readErrors, overtaken>>

\* The page is there, until the next interaction.
EndRun(s, page) ==
  /\ shown' = [shown EXCEPT ![s] = page]
  /\ stats' = [stats EXCEPT ![s] = TRUE]
  /\ loaded' = [loaded EXCEPT ![s] = NoRows]
  /\ form' = [form EXCEPT ![s] = NoEvent]
  /\ tries' = [tries EXCEPT ![s] = 0]
  /\ announced' = [announced EXCEPT ![s] = NoEvent]
  /\ Goes(s, "idle")

QueryFails ==
  /\ "read_error" \in ViewEnv
  /\ readErrors < MaxReadErrors
  /\ readErrors' = readErrors + 1

\* load_summary_stats, cached or not.
LoadStats(s) ==
  /\ place[s] = "stats"
  /\ \/ ~noStats /\ UNCHANGED <<noStats, stats, readErrors>>
     \/ /\ (noStats /\ UNCHANGED readErrors) \/ (~noStats /\ QueryFails)
        /\ noStats' = TRUE
        /\ stats' = [stats EXCEPT ![s] = FALSE]
  /\ Goes(s, "feed")
  /\ UNCHANGED <<vars, scoringVars, cache, elsewhere, loaded, form, tries, shown, announced,
                 overtaken>>

\* Without statistics main() does not get to the form.
AfterFeed(s) == Goes(s, IF form[s] # NoEvent /\ stats[s] THEN "post" ELSE "render")

FeedHit(s) ==
  /\ place[s] = "feed"
  /\ \E rows \in cache : loaded' = [loaded EXCEPT ![s] = rows]
  /\ AfterFeed(s)
  /\ UNCHANGED <<vars, scoringVars, cacheVars, elsewhere, stats, form, tries, shown, announced,
                 readErrors, overtaken>>

FeedRead(s) ==
  /\ place[s] = "feed"
  /\ cache = {}
  /\ \/ loaded' = [loaded EXCEPT ![s] = Feed] /\ UNCHANGED readErrors
     \/ loaded' = [loaded EXCEPT ![s] = NoRows] /\ QueryFails
  /\ Goes(s, "store")
  /\ UNCHANGED <<vars, scoringVars, cacheVars, elsewhere, stats, form, tries, shown, announced,
                 overtaken>>

FeedStore(s) ==
  /\ place[s] = "store"
  /\ cache' = {loaded[s]}
  /\ AfterFeed(s)
  /\ UNCHANGED <<vars, scoringVars, noStats, elsewhere, stats, loaded, form, tries, shown,
                 announced, readErrors, overtaken>>

\* POST /v1/orders/score, which may time out or be refused, accepted or not.
Post(s) ==
  /\ place[s] = "post"
  /\ \/ submitted' = submitted \union {form[s]} /\ Goes(s, "poll")
     \/ /\ "api_error" \in ViewEnv
        /\ submitted' \in {submitted, submitted \union {form[s]}}
        /\ Goes(s, "render")
  /\ UNCHANGED <<vars, record, done, failed, cacheVars, elsewhere, stats, loaded, form, tries,
                 shown, announced, readErrors, overtaken>>

\* GET .../result until it says complete or failed; an answer other than 200
\* counts as none, and an exception ends the loop.
Decided(e) == e \in Scored \union failed
Poll(s) ==
  /\ place[s] = "poll"
  /\ \/ Decided(form[s]) /\ Goes(s, "clear") /\ UNCHANGED tries
     \/ /\ ~Decided(form[s]) \/ "api_error" \in ViewEnv
        /\ tries' = [tries EXCEPT ![s] = @ + 1]
        /\ Goes(s, IF tries[s] + 1 = MaxAttempts THEN "render" ELSE "poll")
     \/ "api_error" \in ViewEnv /\ Goes(s, "render") /\ UNCHANGED tries
  /\ UNCHANGED <<vars, scoringVars, cacheVars, elsewhere, stats, loaded, form, shown, announced,
                 readErrors, overtaken>>

KeepCache == UNCHANGED cacheVars  \* mutant: st.rerun() alone
ClearCache == cache' = {} /\ noStats' = FALSE

\* "Decision received!", st.cache_data.clear() and st.rerun().
Clear(s) ==
  /\ place[s] = "clear"
  /\ ClearCache
  /\ announced' = [announced EXCEPT ![s] = IF form[s] \in Scored THEN form[s] ELSE NoEvent]
  /\ overtaken' = (overtaken \/ elsewhere # {} \/ \E t \in Session : place[t] = "store")
  /\ loaded' = [loaded EXCEPT ![s] = NoRows]
  /\ form' = [form EXCEPT ![s] = NoEvent]
  /\ tries' = [tries EXCEPT ![s] = 0]
  /\ Goes(s, "stats")
  /\ UNCHANGED <<vars, scoringVars, elsewhere, stats, shown, readErrors>>

\* Everything below the form, from what was loaded before it; or an error, and
\* nothing below it.
Render(s) ==
  /\ place[s] = "render"
  /\ EndRun(s, IF stats[s] THEN loaded[s] ELSE NoRows)
  /\ UNCHANGED <<vars, scoringVars, cacheVars, elsewhere, readErrors, overtaken>>

\* The same for any other tab: FeedRead and FeedStore, with nothing to follow.
\* What its failing queries leave in the cache, those of Session leave too.
OtherRead ==
  /\ cache = {}
  /\ elsewhere = {}
  /\ elsewhere' = {Feed}
  /\ UNCHANGED <<vars, scoringVars, cacheVars, sessionVars, readErrors, overtaken>>

OtherStore ==
  /\ elsewhere # {}
  /\ cache' = elsewhere
  /\ elsewhere' = {}
  /\ UNCHANGED <<vars, scoringVars, noStats, sessionVars, readErrors, overtaken>>

NoTtl == FALSE  \* mutant: a result is kept for ever
HasTtl == TRUE

\* CACHE_TTL_SECS is over for a result.
FeedExpires ==
  /\ HasTtl
  /\ cache # {}
  /\ cache' = {}
  /\ UNCHANGED <<vars, scoringVars, noStats, elsewhere, sessionVars, readErrors, overtaken>>

StatsExpire ==
  /\ HasTtl
  /\ noStats
  /\ noStats' = FALSE
  /\ UNCHANGED <<vars, scoringVars, cache, elsewhere, sessionVars, readErrors, overtaken>>

Visit(s) ==
  \/ \E e \in Event \union {NoEvent} : Rerun(s, e)
  \/ LoadStats(s) \/ FeedHit(s) \/ FeedRead(s) \/ FeedStore(s)
  \/ Post(s) \/ Poll(s) \/ Clear(s) \/ Render(s)

Scoring(e) ==
  \/ \E tier \in Promise!Tier : Score(e, tier)
  \/ Act(e) \/ Explain(e) \/ GiveUp(e)

Background(w) == (Work(w) \/ Crash(w)) /\ UNCHANGED <<scoringVars, viewVars>>

ViewNext ==
  \/ \E e \in Event : Scoring(e)
  \/ \E w \in Worker : Background(w)
  \/ \E s \in Session : Visit(s)
  \/ OtherRead \/ OtherStore
  \/ FeedExpires \/ StatsExpire

ViewSpec == ViewInit /\ [][ViewNext]_allVars

\* A process that has a job works on it, users come back to their page, and the
\* time of a cached result runs out.
FairViewSpec ==
  /\ ViewSpec
  /\ \A w \in Worker : WF_allVars(Work(w) /\ UNCHANGED <<scoringVars, viewVars>>)
  /\ \A s \in Session : WF_allVars(Visit(s))
  /\ WF_allVars(FeedExpires)
  /\ WF_allVars(StatsExpire)

-----------------------------------------------------------------------------
\* Every variable keeps its type; a form in progress has an event.
Page == UNION {[D -> Row] : D \in SUBSET Event}
DashboardTypeOK ==
  /\ BackgroundTypeOK
  /\ submitted \subseteq Event
  /\ record \in [Event -> Promise!Tier \union {Promise!NoTier}]
  /\ failed \subseteq submitted
  /\ Scored \subseteq submitted
  /\ \A rows \in {cache, elsewhere} : rows = {} \/ \E page \in Page : rows = {page}
  /\ noStats \in BOOLEAN
  /\ place \in [Session -> Place]
  /\ stats \in [Session -> BOOLEAN]
  /\ loaded \in [Session -> Page]
  /\ form \in [Session -> Event \union {NoEvent}]
  /\ tries \in [Session -> 0..MaxAttempts]
  /\ shown \in [Session -> Page]
  /\ announced \in [Session -> Event \union {NoEvent}]
  /\ readErrors \in 0..MaxReadErrors
  /\ overtaken \in BOOLEAN
  /\ \A s \in Session :
       /\ place[s] \in {"post", "poll", "clear"} => form[s] \in Event
       /\ tries[s] = MaxAttempts => place[s] = "render"

\* A page may be old but it is never false: whatever tier or finished
\* explanation it shows of an order is the one on record, although the page was
\* put together from a cache, and the order was retried and explained twice.
ShownWasTrue ==
  \A s \in Session : \A e \in DOMAIN shown[s] :
    /\ shown[s][e].tier = record[e]
    /\ shown[s][e].status # "pending" => shown[s][e].status = explanation[e]

\* After "Decision received!" for an order that was scored, the page that comes
\* up has it, whatever was cached before: unless a query failed, or a query of
\* another session was under way while the cache was cleared.
ShownAfterScored ==
  [][\A s \in Session :
       announced[s] # NoEvent /\ announced'[s] = NoEvent
         => announced[s] \in DOMAIN shown'[s] \/ readErrors' > 0 \/ overtaken]_allVars

\* The answer of the model, or the fallback, reaches every page that is looked
\* at and from then on stays there, through caches, failed queries, crashes and
\* redeliveries; unless Postgres failed to save it, or Redis to store that its
\* task had started.
ExplanationShown ==
  \A e \in Event : \A s \in Session :
    <>[](e \in dispatched \ unsaved
           => e \in DOMAIN shown[s] /\ shown[s][e].status # "pending")
=============================================================================
