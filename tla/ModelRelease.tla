----------------------------- MODULE ModelRelease -----------------------------
(***************************************************************************)
(* From the data to the decisions: scripts/generate_data.py,               *)
(* train_model.py and optimize_thresholds.py rewrite the files that the    *)
(* scoring workers load, evaluate_heldout.py and run_evaluations.py report *)
(* on them, and verify_freeze.py compares hashes.                          *)
(*                                                                         *)
(* The repository is mounted into the containers (docker-compose.yml), so  *)
(* the files change under workers that run, and each worker process loads  *)
(* its parts lazily, one by one, and keeps them.                           *)
(*                                                                         *)
(* Every script is deterministic (fixed seeds), so a file is identified    *)
(* with what it was computed from: its kind, and the rows it depends on.   *)
(* Writing one file is atomic here: a reader of half a file raises and     *)
(* keeps nothing.                                                          *)
(***************************************************************************)
EXTENDS Integers, Sequences

CONSTANTS
  Recipe,      \* versions of generate_data.py
  Shipped,     \* the version whose data are in the repository and frozen
  Worker,      \* processes of the Celery pool
  MaxScripts,  \* bound on the scripts run that write
  MaxStarts    \* bound on starts of the pool and of single processes

ASSUME ReleaseAssumption ==
  /\ Shipped \in Recipe
  /\ MaxScripts \in Nat
  /\ MaxStarts \in Nat

VARIABLES
  file,       \* what each path contains
  pending,    \* the files the running script has still to write, in order
  rates,      \* historical_rates.json, as the pool's parent process imported it
  constants,  \* feature_constants.json, imported with it
  model,      \* _model of each worker process (scoring.py)
  explainer,  \* _explainer of each worker process (shap_engine.py)
  limits,     \* _thresholds of each worker process (scoring.py)
  report,     \* the files the last evaluation was made on
  script,     \* the number of the script that runs or ran last
  fresh,      \* history: so many scripts, in order, have nothing to do
  scripts,    \* scripts run so far
  starts      \* starts so far

loaded == <<model, explainer, limits>>
imported == <<rates, constants>>
history == <<script, fresh>>
vars == <<file, pending, imported, loaded, report, history, scripts, starts>>

Split == {"train", "val", "heldout"}
File == Split \union {"rates", "constants", "calibrated", "base", "thresholds"}
Row == (Split \union {"constants"}) \X Recipe  \* what a file may depend on
NoFile == [kind |-> "none", from |-> {}]
NoReport == [of |-> "nothing"]

\* compute_historical_rates sees the training split only; every split carries them.
AllSplits(g) == Split \X {g}  \* mutant: rates over all the data
RatesFrom(g) == {<<"train", g>>}
Csv(s, g) == [kind |-> s, from |-> {<<s, g>>} \union RatesFrom(g)]
Rates(g) == [kind |-> "rates", from |-> RatesFrom(g)]
Constants(g) == [kind |-> "constants", from |-> {<<"constants", g>>}]
Fit(kind, train) == [kind |-> kind, from |-> train.from]
Tune(fitted, val) ==
  [kind |-> "thresholds", from |-> fitted.from \union val.from, model |-> fitted]

\* The files of one run of all scripts.
Release(g) ==
  [f \in File |->
     IF f \in Split THEN Csv(f, g)
     ELSE IF f = "rates" THEN Rates(g)
     ELSE IF f = "constants" THEN Constants(g)
     ELSE IF f = "thresholds" THEN Tune(Fit("calibrated", Csv("train", g)), Csv("val", g))
     ELSE Fit(f, Csv("train", g))]

Unloaded == [w \in Worker |-> NoFile]

\* A checkout: the models are not tracked, everything else is.
Init ==
  /\ file = [Release(Shipped) EXCEPT !["calibrated"] = NoFile, !["base"] = NoFile]
  /\ pending = <<>>
  /\ rates = NoFile
  /\ constants = NoFile
  /\ model = Unloaded
  /\ explainer = Unloaded
  /\ limits = Unloaded
  /\ report = NoReport
  /\ script = 0
  /\ fresh = 1
  /\ scripts = 0
  /\ starts = 0

-----------------------------------------------------------------------------
\* Scripts: read the inputs, compute, write the outputs one after the other.

Idle == pending = <<>>

\* The n-th script of the release starts: what it and those after it wrote before
\* is out of date.
Run(n, outputs) ==
  /\ Idle
  /\ scripts < MaxScripts
  /\ scripts' = scripts + 1
  /\ pending' = outputs
  /\ script' = n
  /\ fresh' = IF fresh < n THEN fresh ELSE n - 1
  /\ UNCHANGED <<file, imported, loaded, report, starts>>

GenerateData(g) ==
  Run(1, <<Csv("train", g), Csv("val", g), Csv("heldout", g), Rates(g), Constants(g)>>)

\* Calibration uses a fold of the training data; val is only reported on.
TrainOneModel == Run(2, <<Fit("calibrated", file["train"])>>)  \* mutant: the base is left
TrainModel == Run(2, <<Fit("calibrated", file["train"]), Fit("base", file["train"])>>)

OptimizeThresholds ==
  /\ file["calibrated"] # NoFile
  /\ Run(3, <<Tune(file["calibrated"], file["val"])>>)

\* With its last file a script is done, up to date if those before it are.
WriteNext ==
  /\ ~Idle
  /\ file' = [file EXCEPT ![Head(pending).kind] = Head(pending)]
  /\ pending' = Tail(pending)
  /\ fresh' = IF Tail(pending) = <<>> /\ fresh = script - 1 THEN script ELSE fresh
  /\ UNCHANGED <<imported, loaded, report, script, scripts, starts>>

\* The script is stopped, or fails, between two files.
Interrupt ==
  /\ ~Idle
  /\ pending' = <<>>
  /\ UNCHANGED <<file, imported, loaded, report, history, scripts, starts>>

\* verify_freeze.py: the hashes it expects are written into it (those of files
\* with the line endings of Windows; a hash stands for the content here).
Hashed == Split \union {"thresholds"}
Verified == \A f \in Hashed : file[f] = Release(Shipped)[f]

\* It may run whenever no other script does, and changes nothing that is read.
VerifyFreeze == Idle /\ UNCHANGED vars

\* run_evaluations.py: the calibrated model and the thresholds, on heldout.csv.
RunEvaluations ==
  /\ Idle
  /\ file["calibrated"] # NoFile
  /\ report' = [of |-> file["heldout"], model |-> file["calibrated"], limits |-> file["thresholds"]]
  /\ UNCHANGED <<file, pending, imported, loaded, history, scripts, starts>>

\* evaluate_heldout.py does the same, and only for the thresholds frozen.
EvaluateHeldout ==
  /\ file["thresholds"] = Release(Shipped)["thresholds"]
  /\ RunEvaluations

-----------------------------------------------------------------------------
\* Workers.

Forget(cache) == cache' = Unloaded

\* The parent imports scoring.py, and with it the rates and the constants; the
\* pool is forked.
StartPool ==
  /\ starts < MaxStarts
  /\ starts' = starts + 1
  /\ rates' = file["rates"]
  /\ constants' = file["constants"]
  /\ Forget(model) /\ Forget(explainer) /\ Forget(limits)
  /\ UNCHANGED <<file, pending, report, history, scripts>>

\* A process that died is replaced: empty caches, and what the parent imported.
Respawn(w) ==
  /\ starts \in 1..(MaxStarts - 1)
  /\ starts' = starts + 1
  /\ model' = [model EXCEPT ![w] = NoFile]
  /\ explainer' = [explainer EXCEPT ![w] = NoFile]
  /\ limits' = [limits EXCEPT ![w] = NoFile]
  /\ UNCHANGED <<file, pending, imported, report, history, scripts>>

\* The order of score_order_task; each part is loaded by the first task that
\* gets so far, and a missing file raises.
LoadModel(w) ==
  /\ rates # NoFile
  /\ model[w] = NoFile
  /\ file["base"] # NoFile
  /\ model' = [model EXCEPT ![w] = file["base"]]
  /\ UNCHANGED <<file, pending, imported, explainer, limits, report, history, scripts, starts>>

ExplainCalibrated == "calibrated"  \* mutant: not a tree ensemble
ExplainerPath == "base"
LoadExplainer(w) ==
  /\ model[w] # NoFile /\ explainer[w] = NoFile
  /\ explainer' = [explainer EXCEPT ![w] = file[ExplainerPath]]
  /\ UNCHANGED <<file, pending, imported, model, limits, report, history, scripts, starts>>

LoadThresholds(w) ==
  /\ explainer[w] # NoFile /\ limits[w] = NoFile
  /\ limits' = [limits EXCEPT ![w] = file["thresholds"]]
  /\ UNCHANGED <<file, pending, imported, model, explainer, report, history, scripts, starts>>

Next ==
  \/ \E g \in Recipe : GenerateData(g)
  \/ TrainModel \/ OptimizeThresholds \/ WriteNext \/ Interrupt
  \/ VerifyFreeze \/ RunEvaluations \/ EvaluateHeldout
  \/ StartPool
  \/ \E w \in Worker : Respawn(w) \/ LoadModel(w) \/ LoadExplainer(w) \/ LoadThresholds(w)

Spec == Init /\ [][Next]_vars

-----------------------------------------------------------------------------
\* Every path holds, and every process has loaded, what its reader can use:
\* SHAP's TreeExplainer in particular takes the tree ensemble only.
ReleaseTypeOK ==
  /\ \A f \in File : file[f].kind \in {f, "none"} /\ file[f].from \subseteq Row
  /\ rates.kind \in {"rates", "none"}
  /\ constants.kind \in {"constants", "none"}
  /\ \A w \in Worker :
       /\ model[w].kind \in {"base", "none"}
       /\ explainer[w].kind \in {"base", "none"}
       /\ limits[w].kind \in {"thresholds", "none"}
  /\ script \in 0..3
  /\ fresh \in 0..3
  /\ scripts \in 0..MaxScripts
  /\ starts \in 0..MaxStarts

\* The evaluation is blind: neither the model nor the thresholds it reports on
\* depend on a held-out row, whichever scripts were run, interrupted or left
\* out, and in which order.
BlindEvaluation ==
  report # NoReport =>
    (report.model.from \union report.limits.from) \intersect ({"heldout"} \X Recipe) = {}

\* Every file comes from the same version of the data.
Coherent == \E g \in Recipe : file = Release(g)

\* Nothing of an earlier state survives the three scripts when each of them ran to
\* its end on what the one before it wrote: whatever was interrupted or run out of
\* order before, the eight files are those of one version, models, rates and
\* constants included, which verify_freeze.py does not hash; and once it passes,
\* that version is the frozen one.
RerunRepairs ==
  fresh = 3 => Coherent /\ (Verified => file = Release(Shipped))

\* Workers compare with the thresholds the probabilities of the model that
\* these were tuned for: "The calibrated model was reaffirmed as the sole
\* production artifact" (eval/metric_reconciliation.md:24).
ServesAsTuned ==
  \A w \in Worker : limits[w] # NoFile => limits[w].model = model[w]
=============================================================================
