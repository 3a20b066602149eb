-------------------------- MODULE ModelReleaseProofs --------------------------
(***************************************************************************)
(* Theorems about ModelRelease for any versions of the data, any number of *)
(* workers, and any sequence of scripts, interruptions and starts.         *)
(***************************************************************************)
EXTENDS ModelRelease, SequenceTheorems, TLAPS

Heldout == {"heldout"} \X Recipe

USE DEF imported, history

\* What may be at path f: only heldout.csv depends on held-out rows.
Rows(f) == IF f = "heldout" THEN SUBSET Row ELSE SUBSET (Row \ Heldout)
Plain(f) == [kind : {f}, from : Rows(f)]
Tuned == [kind : {"thresholds"}, from : Rows("thresholds"), model : Plain("calibrated")]
Content(f) == IF f = "thresholds" THEN Tuned ELSE Plain(f)
Written == UNION {Content(f) : f \in File}
Loadable(f) == Content(f) \union {NoFile}

\* The files, those still to come, and those the last report was made on.
FilesInv ==
  /\ DOMAIN file = File
  /\ \A f \in File \ {"calibrated", "base"} : file[f] \in Content(f)
  /\ file["calibrated"] \in Loadable("calibrated")
  /\ file["base"] \in Loadable("base")
  /\ file = [f \in File |-> file[f]]
  /\ pending \in Seq(Written)

LEMMA Sources ==
  ASSUME NEW g \in Recipe
  PROVE  /\ \A s \in Split : Csv(s, g) \in Content(s)
         /\ Rates(g) \in Content("rates")
         /\ Constants(g) \in Content("constants")
<1>1. RatesFrom(g) \in SUBSET (Row \ Heldout)
  BY DEF RatesFrom, Row, Split, Heldout
<1>2. ASSUME NEW s \in Split PROVE Csv(s, g) \in Content(s)
  <2>1. <<s, g>> \in Row /\ (s # "heldout" => <<s, g>> \notin Heldout)
    BY DEF Row, Heldout
  <2>2. {<<s, g>>} \union RatesFrom(g) \in Rows(s)
    BY <1>1, <2>1 DEF Rows
  <2> QED BY <2>2 DEF Csv, Content, Plain, Split
<1>3. Constants(g) \in Content("constants")
  BY DEF Constants, Content, Plain, Rows, Row, Heldout
<1> QED BY <1>1, <1>2, <1>3 DEF Rates, Content, Plain, Rows

LEMMA Fits ==
  ASSUME NEW c \in Content("train"), NEW kind \in {"calibrated", "base"}
  PROVE  Fit(kind, c) \in Content(kind)
BY DEF Fit, Content, Plain, Rows

LEMMA Tunes ==
  ASSUME NEW m \in Content("calibrated"), NEW v \in Content("val")
  PROVE  Tune(m, v) \in Content("thresholds")
BY DEF Tune, Content, Plain, Tuned, Rows

LEMMA ReleaseFiles ==
  ASSUME NEW g \in Recipe
  PROVE  \A f \in File : Release(g)[f] \in Content(f)
<1> SUFFICES ASSUME NEW f \in File PROVE Release(g)[f] \in Content(f)
  OBVIOUS
<1>1. Csv("train", g) \in Content("train") /\ Csv("val", g) \in Content("val")
  BY Sources DEF Split
<1>2. CASE f \in Split
  BY <1>2, Sources DEF Release
<1>3. CASE f \in {"rates", "constants"}
  BY <1>3, Sources DEF Release, Split
<1>4. CASE f = "thresholds"
  BY <1>1, <1>4, Fits, Tunes DEF Release, Split
<1>5. CASE f \in {"calibrated", "base"}
  BY <1>1, <1>5, Fits DEF Release, Split
<1> QED BY <1>2, <1>3, <1>4, <1>5 DEF File

LEMMA KindIsPath ==
  ASSUME NEW c \in Written
  PROVE  c.kind \in File /\ c \in Content(c.kind)
<1>1. PICK f \in File : c \in Content(f)
  BY DEF Written
<1>2. c.kind = f
  BY <1>1 DEF Content, Plain, Tuned
<1> QED BY <1>1, <1>2

LEMMA FilesInit == Init => FilesInv
<1> SUFFICES ASSUME Init PROVE FilesInv
  OBVIOUS
<1>1. \A f \in File : Release(Shipped)[f] \in Content(f)
  BY ReleaseFiles, ReleaseAssumption
<1>2. /\ DOMAIN file = File
      /\ file = [f \in File |-> file[f]]
      /\ \A f \in File \ {"calibrated", "base"} : file[f] = Release(Shipped)[f]
      /\ file["calibrated"] = NoFile /\ file["base"] = NoFile
  BY DEF Init, Release, File
<1>3. pending \in Seq(Written)
  BY DEF Init
<1> QED BY <1>1, <1>2, <1>3 DEF FilesInv, Loadable

LEMMA FilesNext == FilesInv /\ [Next]_vars => FilesInv'
<1> SUFFICES ASSUME FilesInv, [Next]_vars PROVE FilesInv'
  OBVIOUS
<1> USE DEF FilesInv
<1>0. ASSUME UNCHANGED file, pending' \in Seq(Written) PROVE FilesInv'
  BY <1>0
<1>1. ASSUME NEW g \in Recipe, GenerateData(g) PROVE FilesInv'
  <2>1. Csv("train", g) \in Written /\ Csv("val", g) \in Written
        /\ Csv("heldout", g) \in Written /\ Rates(g) \in Written /\ Constants(g) \in Written
    BY Sources DEF Written, File, Split
  <2>2. /\ pending' = <<Csv("train", g), Csv("val", g), Csv("heldout", g), Rates(g),
                          Constants(g)>>
        /\ UNCHANGED file
    BY <1>1 DEF GenerateData, Run
  <2>3. pending' \in Seq(Written)
    BY <2>1, <2>2
  <2> QED BY <1>0, <2>2, <2>3
<1>2. ASSUME TrainModel PROVE FilesInv'
  <2>1. file["train"] \in Content("train")
    BY DEF File, Split
  <2>2. Fit("calibrated", file["train"]) \in Written /\ Fit("base", file["train"]) \in Written
    BY <2>1, Fits DEF Written, File
  <2>3. pending' = <<Fit("calibrated", file["train"]), Fit("base", file["train"])>>
        /\ UNCHANGED file
    BY <1>2 DEF TrainModel, Run
  <2>4. pending' \in Seq(Written)
    BY <2>2, <2>3
  <2> QED BY <1>0, <2>3, <2>4
<1>3. ASSUME OptimizeThresholds PROVE FilesInv'
  <2>1. file["calibrated"] \in Content("calibrated") /\ file["val"] \in Content("val")
    BY <1>3 DEF OptimizeThresholds, Loadable, File, Split
  <2>2. Tune(file["calibrated"], file["val"]) \in Written
    BY <2>1, Tunes DEF Written, File
  <2>3. pending' = <<Tune(file["calibrated"], file["val"])>> /\ UNCHANGED file
    BY <1>3 DEF OptimizeThresholds, Run
  <2>4. pending' \in Seq(Written)
    BY <2>2, <2>3
  <2> QED BY <1>0, <2>3, <2>4
<1>4. ASSUME WriteNext PROVE FilesInv'
  <2> DEFINE c == Head(pending)
  <2>1. c \in Written /\ Tail(pending) \in Seq(Written)
    BY <1>4, HeadTailProperties DEF WriteNext, Idle
  <2>2. c.kind \in File /\ c \in Content(c.kind)
    BY <2>1, KindIsPath
  <2>3. file' = [file EXCEPT ![c.kind] = c] /\ pending' = Tail(pending)
    BY <1>4 DEF WriteNext
  <2> HIDE DEF c
  <2>4. \A f \in File : file'[f] = IF f = c.kind THEN c ELSE file[f]
    BY <2>2, <2>3
  <2>5. DOMAIN file' = File /\ file' = [f \in File |-> file'[f]]
    BY <2>2, <2>3
  <2>6. \A f \in File \ {"calibrated", "base"} : file'[f] \in Content(f)
    BY <2>2, <2>4
  <2>7. \A f \in {"calibrated", "base"} : file'[f] \in Loadable(f)
    BY <2>2, <2>4 DEF Loadable, File
  <2> QED BY <2>1, <2>3, <2>5, <2>6, <2>7
<1>5. ASSUME Interrupt PROVE FilesInv'
  BY <1>5, <1>0 DEF Interrupt
<1>6. ASSUME UNCHANGED <<file, pending>> PROVE FilesInv'
  BY <1>6
<1>7. ASSUME RunEvaluations \/ EvaluateHeldout \/ VerifyFreeze \/ UNCHANGED vars PROVE FilesInv'
  BY <1>6, <1>7 DEF RunEvaluations, EvaluateHeldout, VerifyFreeze, vars
<1>8. ASSUME \/ StartPool
             \/ \E w \in Worker :
                  Respawn(w) \/ LoadModel(w) \/ LoadExplainer(w) \/ LoadThresholds(w)
      PROVE FilesInv'
  BY <1>6, <1>8 DEF StartPool, Respawn, LoadModel, LoadExplainer, LoadThresholds
<1> QED BY <1>1, <1>2, <1>3, <1>4, <1>5, <1>7, <1>8 DEF Next

LEMMA FilesAlways == Spec => []FilesInv
<1> QED BY FilesInit, FilesNext, PTL DEF Spec

\* No evaluation has seen a held-out row before, in any order of the scripts of
\* generate_data.py, train_model.py and optimize_thresholds.py.
THEOREM EvaluationsAreBlind == Spec => []BlindEvaluation
<1>1. Init => BlindEvaluation
  BY DEF Init, BlindEvaluation
<1>2. FilesInv /\ BlindEvaluation /\ [Next]_vars => BlindEvaluation'
  <2> SUFFICES ASSUME FilesInv, BlindEvaluation, [Next]_vars PROVE BlindEvaluation'
    OBVIOUS
  <2>1. ASSUME RunEvaluations PROVE BlindEvaluation'
    <3>1. file["calibrated"] \in Content("calibrated")
          /\ file["thresholds"] \in Content("thresholds")
      BY <2>1 DEF RunEvaluations, FilesInv, Loadable, File
    <3>2. file["calibrated"].from \intersect Heldout = {}
          /\ file["thresholds"].from \intersect Heldout = {}
      BY <3>1 DEF Content, Plain, Tuned, Rows
    <3>3. report'.model = file["calibrated"] /\ report'.limits = file["thresholds"]
      BY <2>1 DEF RunEvaluations
    <3> QED BY <3>2, <3>3 DEF BlindEvaluation, Heldout
  <2>2. ASSUME UNCHANGED report PROVE BlindEvaluation'
    BY <2>2 DEF BlindEvaluation
  <2>3. RunEvaluations \/ UNCHANGED report
    BY DEF Next, vars, GenerateData, TrainModel, OptimizeThresholds, Run, WriteNext, Interrupt,
           EvaluateHeldout, VerifyFreeze, StartPool, Respawn, LoadModel, LoadExplainer,
           LoadThresholds
  <2> QED BY <2>1, <2>2, <2>3
<1> QED BY <1>1, <1>2, FilesAlways, PTL DEF Spec

\* The files the n-th script writes.
Stage(n) ==
  IF n = 1 THEN Split \union {"rates", "constants"}
  ELSE IF n = 2 THEN {"calibrated", "base"} ELSE {"thresholds"}

\* The first n scripts have left the files of version g.
Upto(g, n) == \A s \in 1..n : \A f \in Stage(s) : file[f] = Release(g)[f]

\* The running script will leave c at path f.
Writes(f) == \E i \in DOMAIN pending : pending[i].kind = f
Will(f, c) ==
  IF Writes(f) THEN \A i \in DOMAIN pending : pending[i].kind = f => pending[i] = c
  ELSE file[f] = c

\* The inductive strengthening of RerunRepairs: the finished part of a rerun is of
\* one version, and the script that runs is about to add its part.
FreshInv ==
  /\ script \in 0..3 /\ fresh \in 0..3
  /\ ~Idle => /\ script \in 1..3 /\ fresh < script
              /\ \A i \in DOMAIN pending : pending[i].kind \in Stage(script)
  /\ \E g \in Recipe :
       /\ Upto(g, fresh)
       /\ ~Idle /\ fresh = script - 1 =>
            \A f \in Stage(script) : Will(f, Release(g)[f])

LEMMA StageFiles ==
  /\ \A n \in Int : Stage(n) \subseteq File
  /\ \A m, n \in 1..3 : m # n => Stage(m) \intersect Stage(n) = {}
  /\ Stage(1) \union Stage(2) \union Stage(3) = File
BY DEF Stage, File, Split

LEMMA UptoFewer ==
  ASSUME NEW g, NEW n \in 0..3, NEW m \in 0..3, m <= n, Upto(g, n)
  PROVE  Upto(g, m)
BY DEF Upto

\* The file that is written next, and those after it.
LEMMA NextParts ==
  ASSUME pending # <<>>, FilesInv, pending' = Tail(pending)
  PROVE  /\ Head(pending) = pending[1] /\ 1 \in DOMAIN pending /\ Head(pending).kind \in File
         /\ \A i \in DOMAIN pending' :
              i + 1 \in DOMAIN pending /\ pending'[i] = pending[i + 1]
         /\ \A i \in DOMAIN pending :
              i # 1 => i - 1 \in DOMAIN pending' /\ pending'[i - 1] = pending[i]
<1>1. pending \in Seq(Written)
  BY DEF FilesInv
<1>2. Len(pending) \in Nat \ {0} /\ DOMAIN pending = 1..Len(pending)
  BY <1>1, EmptySeq, LenProperties
<1>3. /\ DOMAIN Tail(pending) = 1..(Len(pending) - 1)
      /\ \A i \in 1..(Len(pending) - 1) : Tail(pending)[i] = pending[i + 1]
  BY <1>1, <1>2, HeadTailProperties, LenProperties
<1>4. Head(pending) = pending[1] /\ Head(pending) \in Written
  BY <1>1, HeadTailProperties
<1>5. QED
  BY <1>2, <1>3, <1>4, KindIsPath

\* Writing the next file keeps what the script will leave behind.
LEMMA WillStays ==
  ASSUME FilesInv, WriteNext, NEW f \in File, NEW c, Will(f, c)
  PROVE  Will(f, c)'
<1> DEFINE h == Head(pending)
<1>1. /\ h = pending[1] /\ 1 \in DOMAIN pending /\ h.kind \in File
      /\ \A i \in DOMAIN pending' : i + 1 \in DOMAIN pending /\ pending'[i] = pending[i + 1]
      /\ \A i \in DOMAIN pending : i # 1 => i - 1 \in DOMAIN pending' /\ pending'[i - 1] = pending[i]
  BY NextParts DEF WriteNext, Idle
<1>2. /\ file' = [file EXCEPT ![h.kind] = h] /\ DOMAIN file = File
  BY DEF WriteNext, FilesInv
<1> HIDE DEF h
<1>3. CASE h.kind = f
  <2>1. h = c
    BY <1>1, <1>3 DEF Will, Writes
  <2>2. \A i \in DOMAIN pending' : pending'[i].kind = f => pending'[i] = c
    BY <1>1, <1>3 DEF Will, Writes
  <2>3. QED
    BY <1>2, <1>3, <2>1, <2>2 DEF Will, Writes
<1>4. CASE h.kind # f
  <2>1. file'[f] = file[f]
    BY <1>1, <1>2, <1>4
  <2>2. Writes(f)' <=> Writes(f)
    BY <1>1, <1>4 DEF Writes
  <2>3. QED
    BY <1>1, <2>1, <2>2 DEF Will
<1>5. QED
  BY <1>3, <1>4

\* A script starts: it will leave what belongs to the version of its inputs.
LEMMA FreshRun ==
  ASSUME FreshInv, NEW n \in 1..3, NEW outputs, Run(n, outputs),
         \A i \in DOMAIN outputs : outputs[i].kind \in Stage(n),
         NEW g \in Recipe, Upto(g, fresh'),
         fresh' = n - 1 => \A f \in Stage(n) : Will(f, Release(g)[f])'
  PROVE  FreshInv'
<1>1. fresh' \in 0..3 /\ fresh' < n /\ script' = n /\ pending' = outputs /\ file' = file
  BY DEF Run, FreshInv
<1>2. Upto(g, fresh)'
  BY <1>1 DEF Upto
<1>3. QED
  BY <1>1, <1>2 DEF FreshInv

LEMMA FreshScripts ==
  ASSUME FilesInv, FreshInv,
         \/ \E g \in Recipe : GenerateData(g)
         \/ TrainModel \/ OptimizeThresholds
  PROVE  FreshInv'
<1>p. PICK v \in Recipe : Upto(v, fresh)
  BY DEF FreshInv
<1>f. fresh \in 0..3
  BY DEF FreshInv
<1>1. ASSUME NEW g \in Recipe, GenerateData(g) PROVE FreshInv'
  <2> DEFINE outputs == <<Csv("train", g), Csv("val", g), Csv("heldout", g), Rates(g),
                          Constants(g)>>
  <2>1. Run(1, outputs)
    BY <1>1 DEF GenerateData
  <2>2. DOMAIN outputs = 1..5 /\ \A i \in 1..5 : outputs[i].kind \in Stage(1)
    BY DEF Stage, Csv, Rates, Constants, Split
  <2>3. fresh' = 0 /\ Upto(g, 0)
    BY <2>1, <1>f DEF Run, Upto
  <2>4. ASSUME NEW f \in Stage(1) PROVE Will(f, Release(g)[f])'
    <3>1. pending' = outputs
      BY <2>1 DEF Run
    <3>2. \A i \in 1..5 : outputs[i].kind = f => outputs[i] = Release(g)[f]
      <4>1. /\ outputs[1] = Release(g)["train"] /\ outputs[2] = Release(g)["val"]
            /\ outputs[3] = Release(g)["heldout"] /\ outputs[4] = Release(g)["rates"]
            /\ outputs[5] = Release(g)["constants"]
        BY DEF Release, File, Split
      <4>2. /\ outputs[1].kind = "train" /\ outputs[2].kind = "val"
            /\ outputs[3].kind = "heldout" /\ outputs[4].kind = "rates"
            /\ outputs[5].kind = "constants"
        BY DEF Csv, Rates, Constants
      <4> HIDE DEF outputs
      <4>3. QED
        BY <4>1, <4>2
    <3>3. \E i \in 1..5 : outputs[i].kind = f
      BY DEF Stage, Csv, Rates, Constants, Split
    <3>4. QED
      BY <2>2, <3>1, <3>2, <3>3 DEF Will, Writes
  <2>5. QED
    BY <2>1, <2>2, <2>3, <2>4, FreshRun
<1>2. CASE TrainModel
  <2> DEFINE outputs == <<Fit("calibrated", file["train"]), Fit("base", file["train"])>>
  <2>1. Run(2, outputs)
    BY <1>2 DEF TrainModel
  <2>2. DOMAIN outputs = 1..2 /\ \A i \in 1..2 : outputs[i].kind \in Stage(2)
    BY DEF Stage, Fit
  <2>3. fresh' \in 0..3 /\ fresh' <= fresh /\ Upto(v, fresh')
    BY <1>p, <1>f, <2>1, UptoFewer DEF Run
  <2>4. ASSUME fresh' = 1, NEW f \in Stage(2) PROVE Will(f, Release(v)[f])'
    <3>1. pending' = outputs
      BY <2>1 DEF Run
    <3>2. file["train"] = Csv("train", v)
      BY <2>3, <2>4 DEF Upto, Stage, Release, File, Split
    <3>3. \A i \in 1..2 : outputs[i].kind = f => outputs[i] = Release(v)[f]
      BY <3>2 DEF Stage, Fit, Release, File, Split
    <3>4. \E i \in 1..2 : outputs[i].kind = f
      BY DEF Stage, Fit
    <3>5. QED
      BY <2>2, <3>1, <3>3, <3>4 DEF Will, Writes
  <2>5. QED
    BY <2>1, <2>2, <2>3, <2>4, FreshRun
<1>3. CASE OptimizeThresholds
  <2> DEFINE outputs == <<Tune(file["calibrated"], file["val"])>>
  <2>1. Run(3, outputs)
    BY <1>3 DEF OptimizeThresholds
  <2>2. DOMAIN outputs = 1..1 /\ \A i \in 1..1 : outputs[i].kind \in Stage(3)
    BY DEF Stage, Tune
  <2>3. fresh' \in 0..3 /\ fresh' <= fresh /\ Upto(v, fresh')
    BY <1>p, <1>f, <2>1, UptoFewer DEF Run
  <2>4. ASSUME fresh' = 2, NEW f \in Stage(3) PROVE Will(f, Release(v)[f])'
    <3>1. pending' = outputs
      BY <2>1 DEF Run
    <3>2. file["calibrated"] = Fit("calibrated", Csv("train", v)) /\ file["val"] = Csv("val", v)
      BY <2>3, <2>4 DEF Upto, Stage, Release, File, Split
    <3>3. outputs[1] = Release(v)[f] /\ outputs[1].kind = f
      BY <3>2 DEF Stage, Tune, Release, File, Split
    <3>4. QED
      BY <2>2, <3>1, <3>3 DEF Will, Writes
  <2>5. QED
    BY <2>1, <2>2, <2>3, <2>4, FreshRun
<1>4. QED
  BY <1>1, <1>2, <1>3

LEMMA FreshWrite ==
  ASSUME FilesInv, FreshInv, WriteNext
  PROVE  FreshInv'
<1> DEFINE h == Head(pending)
<1>p. PICK g \in Recipe :
        Upto(g, fresh) /\ (fresh = script - 1 => \A f \in Stage(script) : Will(f, Release(g)[f]))
  BY DEF FreshInv, WriteNext
<1>1. /\ script \in 1..3 /\ fresh \in 0..3 /\ fresh < script /\ script' = script
      /\ fresh' = IF pending' = <<>> /\ fresh = script - 1 THEN script ELSE fresh
      /\ file' = [file EXCEPT ![h.kind] = h] /\ DOMAIN file = File
  BY DEF FreshInv, FilesInv, WriteNext
<1>2. /\ h.kind \in Stage(script)
      /\ \A i \in DOMAIN pending' : pending'[i].kind \in Stage(script)
  <2>1. pending # <<>> /\ pending' = Tail(pending)
    BY DEF WriteNext, Idle
  <2>2. \A i \in DOMAIN pending : pending[i].kind \in Stage(script)
    BY <2>1 DEF FreshInv, Idle
  <2>3. QED
    BY <2>1, <2>2, NextParts
<1> HIDE DEF h
<1>3. \A s \in 1..fresh : \A f \in Stage(s) : file'[f] = Release(g)[f]
  BY <1>p, <1>1, <1>2, StageFiles DEF Upto
<1>4. fresh = script - 1 => \A f \in Stage(script) : Will(f, Release(g)[f])'
  BY <1>p, <1>1, StageFiles, WillStays
<1>5. CASE pending' = <<>> /\ fresh = script - 1
  <2>1. \A f \in Stage(script) : file'[f] = Release(g)[f]
    BY <1>4, <1>5 DEF Will, Writes
  <2>2. Upto(g, fresh)'
    BY <1>1, <1>3, <1>5, <2>1 DEF Upto
  <2>3. QED
    BY <1>1, <1>5, <2>2 DEF FreshInv, Idle
<1>6. CASE ~(pending' = <<>> /\ fresh = script - 1)
  <2>1. fresh' = fresh /\ Upto(g, fresh)'
    BY <1>1, <1>3, <1>6 DEF Upto
  <2>2. QED
    BY <1>1, <1>2, <1>4, <1>6, <2>1 DEF FreshInv, Idle
<1>7. QED
  BY <1>5, <1>6

LEMMA FreshNext == FilesInv /\ FreshInv /\ [Next]_vars => FreshInv'
<1> SUFFICES ASSUME FilesInv, FreshInv, [Next]_vars PROVE FreshInv'
  OBVIOUS
<1>1. CASE Interrupt
  <2>1. UNCHANGED <<file, script, fresh>> /\ pending' = <<>>
    BY <1>1 DEF Interrupt
  <2>2. QED
    BY <2>1 DEF FreshInv, Upto, Idle
<1>2. CASE UNCHANGED <<file, pending, script, fresh>>
  BY <1>2 DEF FreshInv, Upto, Will, Writes, Idle
<1>3. QED
  BY <1>1, <1>2, FreshScripts, FreshWrite
     DEF Next, vars, RunEvaluations, EvaluateHeldout, VerifyFreeze, StartPool, Respawn, LoadModel,
         LoadExplainer, LoadThresholds

\* Running the three scripts to their ends and in order repairs every state that
\* interruptions and other orders can have left, for any number of versions and
\* runs; and with the frozen data, what verify_freeze.py does not hash is the
\* frozen release too.
THEOREM RerunIsEnough == Spec => []RerunRepairs
<1>1. Init => FreshInv
  <2> SUFFICES ASSUME Init PROVE FreshInv
    OBVIOUS
  <2>1. \A f \in Stage(1) : file[f] = Release(Shipped)[f]
    BY DEF Init, Stage, Release, File, Split
  <2>2. script = 0 /\ fresh = 1 /\ Idle
    BY DEF Init, Idle
  <2>3. Upto(Shipped, fresh)
    BY <2>1, <2>2 DEF Upto
  <2>4. QED
    BY <2>2, <2>3, ReleaseAssumption DEF FreshInv
<1>2. FilesInv /\ FreshInv => RerunRepairs
  <2> SUFFICES ASSUME FilesInv, FreshInv, fresh = 3
               PROVE  Coherent /\ (Verified => file = Release(Shipped))
    BY DEF RerunRepairs
  <2>1. PICK g \in Recipe : Upto(g, 3)
    BY DEF FreshInv
  <2>2. \A f \in File : file[f] = Release(g)[f]
    BY <2>1, StageFiles DEF Upto
  <2>3. file = [f \in File |-> file[f]] /\ Release(g) = [f \in File |-> Release(g)[f]]
    BY DEF FilesInv, Release
  <2>4. file = Release(g)
    BY <2>2, <2>3
  <2>5. ASSUME Verified PROVE g = Shipped
    <3>1. Csv("val", g) = Csv("val", Shipped)
      BY <2>4, <2>5 DEF Verified, Hashed, Release, File, Split
    <3>2. <<"val", g>> \in Csv("val", Shipped).from
      BY <3>1 DEF Csv
    <3>3. QED
      BY <3>2 DEF Csv, RatesFrom
  <2>6. QED
    BY <2>4, <2>5 DEF Coherent
<1>3. QED
  BY <1>1, <1>2, FilesAlways, FreshNext, PTL DEF Spec

\* Each process cache and the rates hold a file of the kind the reader expects.
LoadedInv ==
  /\ rates \in Loadable("rates")
  /\ constants \in Loadable("constants")
  /\ model \in [Worker -> Loadable("base")]
  /\ explainer \in [Worker -> Loadable("base")]
  /\ limits \in [Worker -> Loadable("thresholds")]
  /\ script \in 0..3
  /\ fresh \in 0..3
  /\ scripts \in 0..MaxScripts
  /\ starts \in 0..MaxStarts

LEMMA LoadedNext == FilesInv /\ LoadedInv /\ [Next]_vars => LoadedInv'
<1> SUFFICES ASSUME FilesInv, LoadedInv, [Next]_vars PROVE LoadedInv'
  OBVIOUS
<1> USE ReleaseAssumption
<1>f. /\ file["base"] \in Loadable("base")
      /\ file["thresholds"] \in Loadable("thresholds")
      /\ file["rates"] \in Loadable("rates")
      /\ file["constants"] \in Loadable("constants")
  BY DEF FilesInv, File, Loadable
<1>n. Unloaded \in [Worker -> Loadable("base")] /\ Unloaded \in [Worker -> Loadable("thresholds")]
  BY DEF Unloaded, Loadable
<1>1. ASSUME NEW n \in 1..3, NEW outputs, Run(n, outputs) PROVE LoadedInv'
  BY <1>1 DEF Run, LoadedInv, loaded
<1>2. CASE WriteNext \/ Interrupt \/ RunEvaluations \/ VerifyFreeze \/ UNCHANGED vars
  BY <1>2 DEF WriteNext, Interrupt, RunEvaluations, VerifyFreeze, vars, LoadedInv, loaded
<1>3. CASE StartPool
  BY <1>3, <1>f, <1>n DEF StartPool, Forget, LoadedInv
<1>4. ASSUME NEW w \in Worker, Respawn(w) PROVE LoadedInv'
  BY <1>4 DEF Respawn, LoadedInv, Loadable
<1>5. ASSUME NEW w \in Worker, LoadModel(w) PROVE LoadedInv'
  BY <1>5, <1>f DEF LoadModel, LoadedInv
<1>6. ASSUME NEW w \in Worker, LoadExplainer(w) PROVE LoadedInv'
  BY <1>6, <1>f DEF LoadExplainer, LoadedInv, ExplainerPath
<1>7. ASSUME NEW w \in Worker, LoadThresholds(w) PROVE LoadedInv'
  BY <1>7, <1>f DEF LoadThresholds, LoadedInv
<1>8. CASE TrainModel \/ OptimizeThresholds \/ \E g \in Recipe : GenerateData(g)
  <2>1. ASSUME NEW g \in Recipe, GenerateData(g) PROVE LoadedInv'
    <3>1. Run(1, <<Csv("train", g), Csv("val", g), Csv("heldout", g), Rates(g), Constants(g)>>)
      BY <2>1 DEF GenerateData
    <3>2. QED
      BY <1>1, <3>1
  <2>2. ASSUME TrainModel PROVE LoadedInv'
    <3>1. Run(2, <<Fit("calibrated", file["train"]), Fit("base", file["train"])>>)
      BY <2>2 DEF TrainModel
    <3>2. QED
      BY <1>1, <3>1
  <2>3. ASSUME OptimizeThresholds PROVE LoadedInv'
    <3>1. Run(3, <<Tune(file["calibrated"], file["val"])>>)
      BY <2>3 DEF OptimizeThresholds
    <3>2. QED
      BY <1>1, <3>1
  <2>4. QED
    BY <1>8, <2>1, <2>2, <2>3
<1>9. CASE \E w \in Worker : Respawn(w) \/ LoadModel(w) \/ LoadExplainer(w) \/ LoadThresholds(w)
  BY <1>4, <1>5, <1>6, <1>7, <1>9
<1>10. CASE EvaluateHeldout
  BY <1>2, <1>10 DEF EvaluateHeldout
<1>11. QED
  BY <1>2, <1>3, <1>8, <1>9, <1>10 DEF Next

\* Readers find the kind of file they expect at every path and in every process:
\* SHAP's TreeExplainer never gets the calibrated model.
THEOREM ReadersAreServed == Spec => []ReleaseTypeOK
<1>1. Init => LoadedInv
  <2>1. \A f : Unloaded \in [Worker -> Loadable(f)]
    BY DEF Unloaded, Loadable
  <2>2. NoFile \in Loadable("rates") /\ NoFile \in Loadable("constants") /\ 0 \in 0..MaxScripts /\ 0 \in 0..MaxStarts
    BY ReleaseAssumption DEF Loadable
  <2>3. QED
    BY <2>1, <2>2 DEF Init, LoadedInv
<1>2. FilesInv /\ LoadedInv => ReleaseTypeOK
  <2> SUFFICES ASSUME FilesInv, LoadedInv PROVE ReleaseTypeOK
    OBVIOUS
  <2>1. ASSUME NEW f \in File, NEW c \in Loadable(f)
        PROVE  c.kind \in {f, "none"} /\ c.from \subseteq Row
    <3>1. CASE c = NoFile
      BY <3>1 DEF NoFile
    <3>2. CASE c \in Content(f)
      BY <3>2 DEF Content, Plain, Tuned, Rows
    <3>3. QED
      BY <3>1, <3>2, <2>1 DEF Loadable
  <2>2. ASSUME NEW f \in File PROVE file[f] \in Loadable(f)
    BY DEF FilesInv, Loadable
  <2>3. {"rates", "constants", "base", "thresholds"} \subseteq File
    BY DEF File
  <2>4. rates.kind \in {"rates", "none"} /\ constants.kind \in {"constants", "none"}
    BY <2>1, <2>3 DEF LoadedInv
  <2>5. ASSUME NEW w \in Worker
        PROVE  /\ model[w].kind \in {"base", "none"}
               /\ explainer[w].kind \in {"base", "none"}
               /\ limits[w].kind \in {"thresholds", "none"}
    BY <2>1, <2>3 DEF LoadedInv
  <2>6. QED
    BY <2>1, <2>2, <2>4, <2>5 DEF LoadedInv, ReleaseTypeOK
<1>3. QED
  BY <1>1, <1>2, FilesAlways, LoadedNext, PTL DEF Spec
=============================================================================
