--------------------------- MODULE ThresholdSearch ---------------------------
(***************************************************************************)
(* How the thresholds t_low and t_high of the router are chosen and used:  *)
(* grid_search (scripts/optimize_thresholds.py) with the costs of          *)
(* CostEngine (app/ml/costs.py) on a labelled data set, and the three      *)
(* places that turn a probability into a tier: the search itself, route    *)
(* (app/services/router.py) in the worker, and simulate_router             *)
(* (scripts/evaluate_heldout.py) in the final evaluation.                  *)
(*                                                                         *)
(* Probabilities and thresholds are counted in steps of the grid, 0.025;   *)
(* costs are exact multiples of 1/400 rupee; floating point is left out.   *)
(***************************************************************************)
EXTENDS Integers, FiniteSets

CONSTANTS
  Row,       \* rows of val.csv
  Prob,      \* probabilities the model may predict
  LowFirst, LowLast,         \* range of t_low
  Gap,                       \* least distance of t_high from t_low
  HighLast,                  \* end of the range of t_high
  DefaultLow, DefaultHigh,   \* the safe thresholds
  CRto, CFpM, CFpH, D, V,    \* parameters of CostEngine in rupees ...
  GammaM, GammaH, Rho        \* ... and its rates in twentieths

Unit == 20

CostFN == Unit * Unit * CRto
CostTPM == Unit * (GammaM * D + (Unit - GammaM) * CRto)
CostFPM == Unit * (GammaM * D + (Unit - GammaM) * CFpM)
CostTPH == GammaH * (Unit * V + Rho * CRto)
CostFPH == Unit * ((Unit - GammaH) * CFpH + GammaH * V)

\* Catching a return pays, as with the defaults of CostEngine.
ASSUME SearchAssumption ==
  /\ IsFiniteSet(Row)
  /\ Prob \subseteq Int
  /\ {LowFirst, LowLast, HighLast, DefaultLow, DefaultHigh} \subseteq Int
  /\ Gap \in Nat
  /\ LowFirst <= LowLast /\ LowLast + Gap <= HighLast /\ DefaultLow <= DefaultHigh
  /\ {CostFN, CostTPM, CostFPM, CostTPH, CostFPH} \subseteq Int
  /\ CostTPM < CostFN /\ CostTPH < CostFN

VARIABLES
  prob,         \* predicted probability of each row
  rto,          \* the rows that were returned
  phase,
  tLow, tHigh,  \* the pair under consideration
  best,         \* best_t_low and best_t_high
  bestNet       \* best_net_saved, of no meaning while there is no best pair

data == <<prob, rto>>
vars == <<prob, rto, phase, tLow, tHigh, best, bestNet>>

NoPair == <<>>

-----------------------------------------------------------------------------
(* From probabilities to tiers, three times.                               *)

GetTier(p, low, high) ==
  IF p < low THEN "ALLOW_COD" ELSE IF p < high THEN "NUDGE_PREPAY" ELSE "SOFT_GATE_COD"

Route(score, low, high) ==
  IF score < low THEN "ALLOW_COD" ELSE IF score < high THEN "NUDGE_PREPAY" ELSE "SOFT_GATE_COD"

\* The gate is tested first here.
SimulateRouter(p, low, high) ==
  IF p >= high THEN "SOFT_GATE_COD" ELSE IF p >= low THEN "NUDGE_PREPAY" ELSE "ALLOW_COD"

-----------------------------------------------------------------------------
(* What a pair of thresholds is worth on the data.                         *)

InTier(tier, low, high) == {r \in Row : GetTier(prob[r], low, high) = tier}
TP(tier, low, high) == Cardinality(InTier(tier, low, high) \intersect rto)
FP(tier, low, high) == Cardinality(InTier(tier, low, high) \ rto)

\* evaluate_decisions: the loss without intervention less the loss with it.
NetSaved(low, high) ==
  CostFN * Cardinality(rto)
    - (CostFN * TP("ALLOW_COD", low, high)
       + CostTPM * TP("NUDGE_PREPAY", low, high) + CostFPM * FP("NUDGE_PREPAY", low, high)
       + CostTPH * TP("SOFT_GATE_COD", low, high) + CostFPH * FP("SOFT_GATE_COD", low, high))

\* The ratio tp/fp, infinite when fp = 0, is at least the breakeven ratio
\* penalty/gain, infinite unless gain > 0.
AnyRatio(tp, fp, gain, penalty) == TRUE  \* mutant: no constraint
MeetsBreakeven(tp, fp, gain, penalty) ==
  fp = 0 \/ (gain > 0 /\ tp * gain >= fp * penalty)

ValidM(low, high) ==
  MeetsBreakeven(TP("NUDGE_PREPAY", low, high), FP("NUDGE_PREPAY", low, high),
                 CostFN - CostTPM, CostFPM)
ValidH(low, high) ==
  MeetsBreakeven(TP("SOFT_GATE_COD", low, high), FP("SOFT_GATE_COD", low, high),
                 CostFN - CostTPH, CostFPH)

-----------------------------------------------------------------------------
(* The search.                                                             *)

AnyHigh(low) == LowFirst  \* mutant: the range of t_high ignores t_low
FirstHigh(low) == low + Gap

Init ==
  /\ prob \in [Row -> Prob]
  /\ rto \in SUBSET Row
  /\ phase = "grid"
  /\ tLow = LowFirst
  /\ tHigh = FirstHigh(LowFirst)
  /\ best = NoPair
  /\ bestNet = 0

AsGood(net) == best = NoPair \/ net >= bestNet  \* mutant: ties replace
Improves(net) == best = NoPair \/ net > bestNet

Consider(valid) ==
  IF valid /\ Improves(NetSaved(tLow, tHigh))
    THEN best' = <<tLow, tHigh>> /\ bestNet' = NetSaved(tLow, tHigh)
    ELSE UNCHANGED <<best, bestNet>>

Go(newPhase, low, high) == phase' = newPhase /\ tLow' = low /\ tHigh' = high

\* The M tier is empty when both thresholds are the same.
LowBelow(high) == high - 1  \* mutant: the tier is not collapsed
CollapsedLow(high) == high

\* One turn of the double loop; after the last one the collapsed tiers are
\* searched if nothing was found.
GridStep ==
  /\ phase = "grid"
  /\ Consider(ValidM(tLow, tHigh) /\ ValidH(tLow, tHigh))
  /\ \/ tHigh < HighLast /\ Go("grid", tLow, tHigh + 1)
     \/ tHigh >= HighLast /\ tLow < LowLast /\ Go("grid", tLow + 1, FirstHigh(tLow + 1))
     \/ /\ tHigh >= HighLast /\ tLow >= LowLast
        /\ IF best' = NoPair
             THEN Go("collapse", CollapsedLow(LowFirst), LowFirst)
             ELSE Go("done", tLow, tHigh)
  /\ UNCHANGED data

CollapseStep ==
  /\ phase = "collapse"
  /\ Consider(ValidH(tLow, tHigh))
  /\ \/ tHigh < HighLast /\ Go("collapse", CollapsedLow(tHigh + 1), tHigh + 1)
     \/ tHigh >= HighLast /\ Go(IF best' = NoPair THEN "default" ELSE "done", tLow, tHigh)
  /\ UNCHANGED data

UseDefault ==
  /\ phase = "default"
  /\ best' = <<DefaultLow, DefaultHigh>>
  /\ bestNet' = 0
  /\ Go("defaulted", tLow, tHigh)
  /\ UNCHANGED data

Written == phase \in {"done", "defaulted"} /\ UNCHANGED vars

Next == GridStep \/ CollapseStep \/ UseDefault \/ Written

Spec == Init /\ [][Next]_vars

-----------------------------------------------------------------------------
Pair == Int \X Int

\* Every variable keeps its type, and no pair leaves the ranges of the search.
SearchTypeOK ==
  /\ prob \in [Row -> Prob]
  /\ rto \subseteq Row
  /\ phase \in {"grid", "collapse", "default", "done", "defaulted"}
  /\ tLow \in LowFirst..HighLast /\ tHigh \in LowFirst..HighLast
  /\ best \in Pair \union {NoPair}
  /\ bestNet \in Int

\* The thresholds that are written mean the same to the search, to the live
\* router and to the final evaluation, although each has a cascade of its own:
\* an order is routed to the tier it was valued in.
RoutersAgree ==
  best # NoPair => \A p \in Prob :
    /\ Route(p, best[1], best[2]) = GetTier(p, best[1], best[2])
    /\ SimulateRouter(p, best[1], best[2]) = GetTier(p, best[1], best[2])

\* Thresholds the search has found never lose money on the data, against
\* letting every order pass, and best_net_saved is what they save: the
\* breakeven ratios of the two tiers imply it.
NeverLoses ==
  best # NoPair /\ phase # "defaulted" =>
    bestNet = NetSaved(best[1], best[2]) /\ bestNet >= 0

GridPairs == {q \in (LowFirst..LowLast) \X (LowFirst..HighLast) : q[2] >= q[1] + Gap}
Diagonal == {q \in (LowFirst..HighLast) \X (LowFirst..HighLast) : q[1] = q[2]}
GridValid(q) == ValidM(q[1], q[2]) /\ ValidH(q[1], q[2])
DiagonalValid(q) == ValidH(q[1], q[2])
Before(p, q) == p[1] < q[1] \/ (p[1] = q[1] /\ p[2] < q[2])

\* q is the first of the pairs in C that saves most.
FirstBest(q, C) ==
  /\ q \in C
  /\ \A p \in C : /\ NetSaved(p[1], p[2]) <= NetSaved(q[1], q[2])
                  /\ Before(p, q) => NetSaved(p[1], p[2]) < NetSaved(q[1], q[2])

\* The result of grid_search is the first best valid pair of the grid, else the
\* first best collapsed one, and the default only if there is no valid one.
SearchIsOptimal ==
  LET G == {q \in GridPairs : GridValid(q)}
      C == {q \in Diagonal : DiagonalValid(q)} IN
  /\ phase = "done" => FirstBest(best, IF G # {} THEN G ELSE C)
  /\ phase = "defaulted" => G = {} /\ C = {}

\* The cross-check that main reports passes for both tiers whenever a pair was
\* found, also when the M tier was collapsed and not constrained.
CrossCheckPasses == phase = "done" => GridValid(best)
=============================================================================
