------------------------ MODULE ThresholdSearchProofs ------------------------
(***************************************************************************)
(* Proofs about ThresholdSearch for any data set, grid and costs for which *)
(* catching a return pays.                                                 *)
(***************************************************************************)
EXTENDS ThresholdSearch, FiniteSetTheorems, TLAPS

USE DEF FirstHigh, CollapsedLow, Improves

\* The six counts of a pair of thresholds are naturals, and every returned row
\* is in exactly one tier.
LEMMA Counts ==
  ASSUME NEW low \in Int, NEW high \in Int, prob \in [Row -> Prob], rto \subseteq Row
  PROVE  /\ \A tier : TP(tier, low, high) \in Nat /\ FP(tier, low, high) \in Nat
         /\ Cardinality(rto) = TP("ALLOW_COD", low, high) + TP("NUDGE_PREPAY", low, high)
                                 + TP("SOFT_GATE_COD", low, high)
<1> DEFINE A == InTier("ALLOW_COD", low, high) \intersect rto
           M == InTier("NUDGE_PREPAY", low, high) \intersect rto
           H == InTier("SOFT_GATE_COD", low, high) \intersect rto
<1>1. \A S \in SUBSET Row : IsFiniteSet(S) /\ Cardinality(S) \in Nat
  BY SearchAssumption, FS_Subset, FS_CardinalityType
<1>2. \A tier : TP(tier, low, high) \in Nat /\ FP(tier, low, high) \in Nat
  <2>1. \A tier : InTier(tier, low, high) \subseteq Row
    BY DEF InTier
  <2> QED  BY <2>1, <1>1 DEF TP, FP
<1>3. /\ rto = (A \union M) \union H
      /\ A \intersect M = {}
      /\ (A \union M) \intersect H = {}
  BY DEF InTier, GetTier
<1>4. /\ A \in SUBSET Row /\ M \in SUBSET Row /\ H \in SUBSET Row
      /\ A \union M \in SUBSET Row
  OBVIOUS
<1> HIDE DEF A, M, H
<1>5. Cardinality(A \union M) = Cardinality(A) + Cardinality(M)
  <2>1. Cardinality(A \union M)
          = Cardinality(A) + Cardinality(M) - Cardinality(A \intersect M)
    BY <1>1, <1>4, FS_Union
  <2> QED  BY <2>1, <1>1, <1>3, <1>4, FS_EmptySet
<1>6. Cardinality(rto) = Cardinality(A \union M) + Cardinality(H)
  <2>1. Cardinality((A \union M) \union H)
          = Cardinality(A \union M) + Cardinality(H) - Cardinality((A \union M) \intersect H)
    BY <1>1, <1>4, FS_Union
  <2> QED  BY <2>1, <1>1, <1>3, <1>4, FS_EmptySet
<1>7. /\ Cardinality(A) = TP("ALLOW_COD", low, high)
      /\ Cardinality(M) = TP("NUDGE_PREPAY", low, high)
      /\ Cardinality(H) = TP("SOFT_GATE_COD", low, high)
  BY DEF A, M, H, TP
<1> QED  BY <1>2, <1>5, <1>6, <1>7

\* A tier that meets its breakeven ratio saves at least what it costs.
LEMMA Breakeven ==
  ASSUME NEW tp \in Nat, NEW fp \in Nat, NEW gain \in Int, NEW penalty \in Int,
         gain > 0, MeetsBreakeven(tp, fp, gain, penalty)
  PROVE  tp * gain >= fp * penalty
<1>1. CASE fp = 0
  <2>1. tp * gain >= 0
    OBVIOUS
  <2>2. fp * penalty = 0
    BY <1>1
  <2> QED  BY <2>1, <2>2
<1>2. CASE tp * gain >= fp * penalty
  BY <1>2
<1> QED  BY <1>1, <1>2 DEF MeetsBreakeven

\* What a pair saves is an integer, and nothing is lost by a pair both of whose
\* tiers meet their breakeven ratios.
LEMMA ValidPays ==
  ASSUME NEW low \in Int, NEW high \in Int, prob \in [Row -> Prob], rto \subseteq Row
  PROVE  /\ NetSaved(low, high) \in Int
         /\ ValidM(low, high) /\ ValidH(low, high) => NetSaved(low, high) >= 0
<1> DEFINE a == TP("ALLOW_COD", low, high)
           m == TP("NUDGE_PREPAY", low, high)
           h == TP("SOFT_GATE_COD", low, high)
           fm == FP("NUDGE_PREPAY", low, high)
           fh == FP("SOFT_GATE_COD", low, high)
<1>1. /\ a \in Nat /\ m \in Nat /\ h \in Nat /\ fm \in Nat /\ fh \in Nat
      /\ Cardinality(rto) = a + m + h
  BY Counts
<1>2. /\ CostFN \in Int /\ CostTPM \in Int /\ CostFPM \in Int
      /\ CostTPH \in Int /\ CostFPH \in Int
      /\ CostFN - CostTPM > 0 /\ CostFN - CostTPH > 0
  BY SearchAssumption
<1>3. NetSaved(low, high)
        = CostFN * (a + m + h) - (CostFN * a + CostTPM * m + CostFPM * fm
                                    + CostTPH * h + CostFPH * fh)
  BY <1>1 DEF NetSaved
<1>4. \A tp, fp \in Nat, gain, penalty \in Int :
        gain > 0 /\ MeetsBreakeven(tp, fp, gain, penalty) => tp * gain >= fp * penalty
  BY Breakeven
<1>5. /\ ValidM(low, high) => MeetsBreakeven(m, fm, CostFN - CostTPM, CostFPM)
      /\ ValidH(low, high) => MeetsBreakeven(h, fh, CostFN - CostTPH, CostFPH)
  BY DEF ValidM, ValidH
<1>6. CostFN - CostTPM \in Int /\ CostFN - CostTPH \in Int
  BY <1>2
<1>7. ValidM(low, high) => m * (CostFN - CostTPM) >= fm * CostFPM
  <2> HIDE DEF m, fm
  <2> QED  BY <1>1, <1>2, <1>4, <1>5, <1>6
<1>8. ValidH(low, high) => h * (CostFN - CostTPH) >= fh * CostFPH
  <2> HIDE DEF h, fh
  <2> QED  BY <1>1, <1>2, <1>4, <1>5, <1>6
<1> HIDE DEF a, m, h, fm, fh
<1>9. CostFN * (a + m + h) - (CostFN * a + CostTPM * m + CostFPM * fm
                                + CostTPH * h + CostFPH * fh)
        = (m * (CostFN - CostTPM) - fm * CostFPM) + (h * (CostFN - CostTPH) - fh * CostFPH)
  BY <1>1, <1>2
<1>10. /\ m * (CostFN - CostTPM) \in Int /\ fm * CostFPM \in Int
      /\ h * (CostFN - CostTPH) \in Int /\ fh * CostFPH \in Int
  BY <1>1, <1>2
<1> QED  BY <1>3, <1>7, <1>8, <1>9, <1>10

\* With equal thresholds no row is in the M tier, which therefore meets its
\* ratio.
LEMMA CollapsedIsValid ==
  ASSUME NEW low \in Int, prob \in [Row -> Prob]
  PROVE  ValidM(low, low)
<1>1. InTier("NUDGE_PREPAY", low, low) = {}
  BY SearchAssumption DEF InTier, GetTier
<1>2. InTier("NUDGE_PREPAY", low, low) \ rto = {}
  BY <1>1
<1>3. FP("NUDGE_PREPAY", low, low) = 0
  BY <1>2, FS_EmptySet DEF FP
<1> QED  BY <1>3 DEF ValidM, MeetsBreakeven

\* While the data set stays the same, so does the value of every pair.
LEMMA SameData ==
  ASSUME UNCHANGED data
  PROVE  /\ \A l, h : NetSaved(l, h)' = NetSaved(l, h)
         /\ \A l, h : ValidM(l, h)' = ValidM(l, h)
         /\ \A l, h : ValidH(l, h)' = ValidH(l, h)
<1>1. \A t, l, h : TP(t, l, h)' = TP(t, l, h) /\ FP(t, l, h)' = FP(t, l, h)
  BY DEF data, TP, FP, InTier, GetTier
<1>2. Cardinality(rto)' = Cardinality(rto)
  BY DEF data
<1> QED  BY <1>1, <1>2 DEF NetSaved, ValidM, ValidH, MeetsBreakeven

-----------------------------------------------------------------------------
(* Type correctness.                                                       *)

\* The pair under consideration is the one the loops have come to.
InRange ==
  /\ phase = "grid" => tLow \in LowFirst..LowLast /\ tHigh \in (tLow + Gap)..HighLast
  /\ phase = "collapse" => tLow = tHigh /\ tHigh \in LowFirst..HighLast

\* A best pair is ordered, and its value is an integer.
Ordered ==
  /\ best = NoPair \/ (best \in Pair /\ best[1] <= best[2])
  /\ bestNet \in Int

TInv == SearchTypeOK /\ InRange /\ Ordered

\* What Consider does to the best pair.
LEMMA ConsiderKeepsType ==
  ASSUME TInv, NEW valid \in BOOLEAN, Consider(valid),
         tLow \in Int, tHigh \in Int, tLow <= tHigh
  PROVE  /\ best' = NoPair \/ (best' \in Pair /\ best'[1] <= best'[2])
         /\ bestNet' \in Int
<1>1. NetSaved(tLow, tHigh) \in Int
  BY ValidPays DEF TInv, SearchTypeOK
<1> QED  BY <1>1 DEF Consider, TInv, Ordered, Pair, NoPair

LEMMA TypeInit == Init => TInv
<1> SUFFICES ASSUME Init PROVE TInv
  OBVIOUS
<1>1. LowFirst \in Int /\ LowLast \in Int /\ HighLast \in Int /\ Gap \in Nat
  BY SearchAssumption
<1> QED  BY <1>1, SearchAssumption DEF Init, TInv, SearchTypeOK, InRange, Ordered

LEMMA TypeStep == TInv /\ [Next]_vars => TInv'
<1> SUFFICES ASSUME TInv, [Next]_vars PROVE TInv'
  OBVIOUS
<1>0. LowFirst \in Int /\ LowLast \in Int /\ HighLast \in Int /\ Gap \in Nat
      /\ LowFirst <= LowLast /\ LowLast + Gap <= HighLast
  BY SearchAssumption
<1> USE DEF TInv, SearchTypeOK, InRange, data
<1>1. CASE GridStep
  <2>1. tLow \in Int /\ tHigh \in Int /\ tLow <= tHigh
    BY <1>0, <1>1 DEF GridStep
  <2>2. Ordered' /\ (best \in Pair \union {NoPair})'
    BY <1>1, <2>1, ConsiderKeepsType DEF GridStep, Ordered, ValidM, ValidH, MeetsBreakeven
  <2>3. (prob \in [Row -> Prob] /\ rto \subseteq Row)'
    BY <1>1 DEF GridStep
  <2>4. /\ InRange'
        /\ (phase \in {"grid", "collapse", "default", "done", "defaulted"})'
        /\ (tLow \in LowFirst..HighLast /\ tHigh \in LowFirst..HighLast)'
    BY <1>0, <1>1, <2>1 DEF GridStep, Go
  <2> QED  BY <2>2, <2>3, <2>4 DEF Ordered
<1>2. CASE CollapseStep
  <2>1. tLow \in Int /\ tHigh \in Int /\ tLow <= tHigh
    BY <1>0, <1>2 DEF CollapseStep
  <2>2. Ordered' /\ (best \in Pair \union {NoPair})'
    BY <1>2, <2>1, ConsiderKeepsType DEF CollapseStep, Ordered, ValidH, MeetsBreakeven
  <2>3. (prob \in [Row -> Prob] /\ rto \subseteq Row)'
    BY <1>2 DEF CollapseStep
  <2>4. /\ InRange'
        /\ (phase \in {"grid", "collapse", "default", "done", "defaulted"})'
        /\ (tLow \in LowFirst..HighLast /\ tHigh \in LowFirst..HighLast)'
    BY <1>0, <1>2, <2>1 DEF CollapseStep, Go
  <2> QED  BY <2>2, <2>3, <2>4 DEF Ordered
<1>3. CASE UseDefault
  BY <1>3, SearchAssumption DEF UseDefault, Go, Ordered, Pair
<1>4. CASE UNCHANGED vars
  BY <1>4 DEF vars, Ordered
<1> QED  BY <1>1, <1>2, <1>3, <1>4 DEF Next, Written

LEMMA AlwaysTyped == Spec => []TInv
<1>1. Init => TInv
  BY TypeInit
<1>2. TInv /\ [Next]_vars => TInv'
  BY TypeStep
<1> QED  BY <1>1, <1>2, PTL DEF Spec

\* Every variable of grid_search keeps its type.
THEOREM SearchTypeCorrect == Spec => []SearchTypeOK
<1>1. TInv => SearchTypeOK
  BY DEF TInv
<1> QED  BY <1>1, AlwaysTyped, PTL

\* For any thresholds the search may write, its default included, the three
\* cascades route every probability to the same tier.
THEOREM RoutersAlwaysAgree == Spec => []RoutersAgree
<1>1. TInv => RoutersAgree
  <2> SUFFICES ASSUME TInv, best # NoPair, NEW p \in Prob
               PROVE  /\ Route(p, best[1], best[2]) = GetTier(p, best[1], best[2])
                      /\ SimulateRouter(p, best[1], best[2]) = GetTier(p, best[1], best[2])
    BY DEF RoutersAgree
  <2>1. p \in Int /\ best[1] \in Int /\ best[2] \in Int /\ best[1] <= best[2]
    BY SearchAssumption DEF TInv, Ordered, Pair
  <2> QED  BY <2>1 DEF Route, SimulateRouter, GetTier
<1> QED  BY <1>1, AlwaysTyped, PTL
-----------------------------------------------------------------------------
(* Optimality.                                                             *)

\* The best pair is the first best of the valid pairs seen so far.
BestOf(C) ==
  IF best = NoPair THEN C = {}
  ELSE FirstBest(best, C) /\ bestNet = NetSaved(best[1], best[2])

ValidGrid == {q \in GridPairs : GridValid(q)}
ValidDiagonal == {q \in Diagonal : DiagonalValid(q)}
SeenBefore(C, q) == {p \in C : Before(p, q)}

\* The inductive invariant of the two loops.
SInv ==
  /\ phase = "grid" => BestOf(SeenBefore(ValidGrid, <<tLow, tHigh>>))
  /\ phase = "collapse" =>
       ValidGrid = {} /\ BestOf(SeenBefore(ValidDiagonal, <<tLow, tHigh>>))
  /\ phase = "default" => best = NoPair /\ ValidGrid = {} /\ ValidDiagonal = {}
  /\ phase = "defaulted" => ValidGrid = {} /\ ValidDiagonal = {}
  /\ phase = "done" => IF ValidGrid # {} THEN BestOf(ValidGrid) ELSE BestOf(ValidDiagonal)
  /\ phase = "done" => best # NoPair

IInv == TInv /\ SInv

\* One turn of a loop: the pair under consideration comes after all pairs of C,
\* and joins them if it is valid.
LEMMA ConsiderNext ==
  ASSUME TInv, UNCHANGED data, NEW C \in SUBSET Pair, BestOf(C),
         NEW cur \in Pair, cur = <<tLow, tHigh>>, \A q \in C : Before(q, cur),
         NEW valid \in BOOLEAN, Consider(valid)
  PROVE  BestOf(IF valid THEN C \union {cur} ELSE C)'
<1> DEFINE N(q) == NetSaved(q[1], q[2])
<1>1. \A l, h : NetSaved(l, h)' = NetSaved(l, h)
  BY SameData
<1>2. \A q \in Pair : N(q) \in Int
  BY ValidPays DEF Pair, TInv, SearchTypeOK
<1>3. /\ cur # NoPair /\ N(cur) = NetSaved(tLow, tHigh)
      /\ ~Before(cur, cur)
  BY DEF Pair, NoPair, Before
<1>4. \A b \in Pair, D1 \in SUBSET Pair : FirstBest(b, D1)' <=> FirstBest(b, D1)
  BY <1>1 DEF FirstBest, Before
<1>5. CASE valid /\ (best = NoPair \/ N(cur) > bestNet)
  <2>1. best' = cur /\ bestNet' = N(cur)
    BY <1>3, <1>5 DEF Consider
  <2>2. \A q \in C : N(q) < N(cur)
    <3> SUFFICES ASSUME NEW q \in C PROVE N(q) < N(cur)
      OBVIOUS
    <3>1. best # NoPair
      BY DEF BestOf
    <3>2. best \in C /\ N(q) <= N(best) /\ bestNet = N(best)
      BY <3>1 DEF BestOf, FirstBest
    <3>3. N(q) \in Int /\ N(best) \in Int /\ N(cur) \in Int
      BY <1>2, <3>2
    <3> HIDE DEF N
    <3> QED  BY <1>5, <3>1, <3>2, <3>3
  <2>3. \A q \in C \union {cur} : N(q) <= N(cur) /\ (Before(q, cur) => N(q) < N(cur))
    <3>1. \A q \in C \union {cur} : N(q) \in Int
      BY <1>2
    <3> HIDE DEF N
    <3> QED  BY <1>3, <2>2, <3>1
  <2>4. FirstBest(cur, C \union {cur})
    BY <2>3 DEF FirstBest
  <2>5. FirstBest(cur, C \union {cur})'
    BY <1>4, <2>4
  <2>6. NetSaved(cur[1], cur[2])' = N(cur)
    BY <1>1
  <2> QED  BY <1>3, <1>5, <2>1, <2>5, <2>6 DEF BestOf
<1>6. CASE valid /\ ~(best = NoPair \/ N(cur) > bestNet)
  <2>1. best' = best /\ bestNet' = bestNet
    BY <1>3, <1>6 DEF Consider
  <2>2. best # NoPair /\ FirstBest(best, C) /\ bestNet = N(best) /\ best \in C
    BY <1>6 DEF BestOf, FirstBest
  <2>3. N(best) \in Int /\ N(cur) \in Int
    BY <1>2, <2>2
  <2>4. N(cur) <= N(best)
    <3> HIDE DEF N
    <3> QED  BY <1>6, <2>2, <2>3
  <2>5. ~Before(cur, best)
    BY <2>2 DEF Before, Pair
  <2>6. FirstBest(best, C \union {cur})
    BY <2>2, <2>4, <2>5 DEF FirstBest
  <2> PICK b \in Pair : b = best
    BY <2>2
  <2>7. FirstBest(b, C \union {cur})' /\ NetSaved(b[1], b[2])' = N(b)
    BY <1>1, <1>4, <2>6
  <2>8. best' = b /\ b # NoPair /\ bestNet' = N(b)
    BY <2>1, <2>2
  <2> QED  BY <1>6, <2>7, <2>8 DEF BestOf
<1>7. CASE ~valid
  <2>1. best' = best /\ bestNet' = bestNet
    BY <1>7 DEF Consider
  <2>2. CASE best = NoPair
    BY <1>7, <2>1, <2>2 DEF BestOf
  <2>3. CASE best # NoPair
    <3> PICK b \in Pair : b = best
      BY <2>3 DEF BestOf, FirstBest
    <3>1. FirstBest(b, C) /\ bestNet = N(b)
      BY <2>3 DEF BestOf
    <3>2. FirstBest(b, C)' /\ NetSaved(b[1], b[2])' = N(b)
      BY <1>1, <1>4, <3>1
    <3>3. best' = b /\ b # NoPair /\ bestNet' = N(b)
      BY <2>1, <2>3, <3>1
    <3> QED  BY <1>7, <3>2, <3>3 DEF BestOf
  <2> QED  BY <2>2, <2>3
<1> QED  BY <1>5, <1>6, <1>7
\* The double loop visits the pairs of the grid in their order.
LEMMA GridOrder ==
  ASSUME NEW q \in GridPairs,
         NEW l \in LowFirst..LowLast, NEW h \in (l + Gap)..HighLast
  PROVE  /\ ~Before(q, <<LowFirst, FirstHigh(LowFirst)>>)
         /\ h < HighLast =>
              (Before(q, <<l, h + 1>>) <=> Before(q, <<l, h>>) \/ q = <<l, h>>)
         /\ h >= HighLast =>
              (Before(q, <<l + 1, FirstHigh(l + 1)>>) <=> Before(q, <<l, h>>) \/ q = <<l, h>>)
         /\ h >= HighLast /\ l >= LowLast => Before(q, <<l, h>>) \/ q = <<l, h>>
         /\ <<l, h>> \in GridPairs
<1>1. LowFirst \in Int /\ LowLast \in Int /\ HighLast \in Int /\ Gap \in Nat
  BY SearchAssumption
<1>2. /\ q = <<q[1], q[2]>> /\ q[1] \in LowFirst..LowLast
      /\ q[2] \in Int /\ q[2] >= q[1] + Gap /\ q[2] <= HighLast
  BY <1>1 DEF GridPairs
<1>3. q = <<l, h>> <=> q[1] = l /\ q[2] = h
  BY <1>2
<1> QED  BY <1>1, <1>2, <1>3 DEF Before, GridPairs

\* ... and the second loop those of the diagonal.
LEMMA DiagonalOrder ==
  ASSUME NEW q \in Diagonal, NEW h \in LowFirst..HighLast
  PROVE  /\ ~Before(q, <<LowFirst, LowFirst>>)
         /\ h < HighLast =>
              (Before(q, <<h + 1, h + 1>>) <=> Before(q, <<h, h>>) \/ q = <<h, h>>)
         /\ h >= HighLast => Before(q, <<h, h>>) \/ q = <<h, h>>
         /\ <<h, h>> \in Diagonal
<1>1. LowFirst \in Int /\ HighLast \in Int
  BY SearchAssumption
<1>2. q = <<q[1], q[2]>> /\ q[1] \in LowFirst..HighLast /\ q[1] = q[2]
  BY DEF Diagonal
<1>3. q = <<h, h>> <=> q[1] = h
  BY <1>2
<1> QED  BY <1>1, <1>2, <1>3 DEF Before, Diagonal

LEMMA SearchInit == Init => SInv
<1> SUFFICES ASSUME Init PROVE SInv
  OBVIOUS
<1>1. /\ LowFirst \in LowFirst..LowLast /\ FirstHigh(LowFirst) \in (LowFirst + Gap)..HighLast
  BY SearchAssumption
<1>2. \A q \in GridPairs : ~Before(q, <<LowFirst, FirstHigh(LowFirst)>>)
  BY <1>1, GridOrder
<1> QED  BY <1>2 DEF Init, SInv, BestOf, SeenBefore, ValidGrid

\* The sets of valid pairs depend on the data only.
LEMMA SameValid ==
  ASSUME UNCHANGED data
  PROVE  ValidGrid' = ValidGrid /\ ValidDiagonal' = ValidDiagonal
BY SameData DEF ValidGrid, ValidDiagonal, GridValid, DiagonalValid, GridPairs, Diagonal

LEMMA GridStepKeeps == IInv /\ GridStep => SInv'
<1> SUFFICES ASSUME IInv, GridStep PROVE SInv'
  OBVIOUS
<1>0. UNCHANGED data /\ phase = "grid" /\ TInv
  BY DEF GridStep, IInv
<1>1. /\ tLow \in LowFirst..LowLast /\ tHigh \in (tLow + Gap)..HighLast
      /\ LowFirst \in Int /\ LowLast \in Int /\ HighLast \in Int /\ Gap \in Nat
  BY <1>0, SearchAssumption DEF TInv, InRange
<1> PICK l \in LowFirst..LowLast : l = tLow
  BY <1>1
<1> PICK h \in (l + Gap)..HighLast : h = tHigh
  BY <1>1
<1> DEFINE cur == <<l, h>>
<1> PICK G \in SUBSET GridPairs : G = ValidGrid
  BY DEF ValidGrid
<1> PICK C \in SUBSET Pair : C = SeenBefore(G, cur)
  <2>1. SeenBefore(G, cur) \subseteq Pair
    BY <1>1 DEF SeenBefore, GridPairs, Pair
  <2> QED  BY <2>1
<1> PICK valid \in BOOLEAN : valid = (ValidM(tLow, tHigh) /\ ValidH(tLow, tHigh))
  BY DEF ValidM, ValidH, MeetsBreakeven
<1>2. cur \in Pair /\ cur = <<tLow, tHigh>> /\ \A q \in C : Before(q, cur)
  BY <1>1 DEF Pair, SeenBefore
<1>3. BestOf(C)
  BY <1>0 DEF IInv, SInv
<1>4. Consider(valid)
  BY DEF GridStep
<1> DEFINE C2 == IF valid THEN C \union {cur} ELSE C
<1>5. BestOf(C2)'
  <2> HIDE DEF cur
  <2> QED  BY <1>0, <1>2, <1>3, <1>4, ConsiderNext
<1>6. ValidGrid' = G /\ ValidDiagonal' = ValidDiagonal
  BY <1>0, SameValid
<1>7. valid <=> cur \in G
  <2>1. cur \in GridPairs
    BY <1>1 DEF GridPairs
  <2>2. valid = GridValid(cur)
    BY DEF GridValid
  <2> QED  BY <2>1, <2>2 DEF ValidGrid
<1>8. \A q \in G : q \in C2 <=> Before(q, cur) \/ q = cur
  BY <1>7 DEF SeenBefore
<1>9. C2 \subseteq G
  BY <1>7 DEF SeenBefore
<1>10. CASE tHigh < HighLast /\ Go("grid", tLow, tHigh + 1)
  <2>1. \A q \in G : q \in C2 <=> Before(q, <<l, h + 1>>)
    <3>1. h < HighLast
      BY <1>10
    <3> HIDE DEF cur, C2
    <3> QED  BY <1>8, <3>1, GridOrder DEF cur
  <2>2. C2 = SeenBefore(G, <<l, h + 1>>)
    BY <1>9, <2>1 DEF SeenBefore
  <2>3. SeenBefore(ValidGrid, <<tLow, tHigh>>)' = C2
    BY <1>6, <1>10, <2>2 DEF Go, SeenBefore, Before
  <2> QED  BY <1>5, <1>10, <2>3 DEF SInv, Go, BestOf
<1>11. CASE tHigh >= HighLast /\ tLow < LowLast /\ Go("grid", tLow + 1, FirstHigh(tLow + 1))
  <2>1. \A q \in G : q \in C2 <=> Before(q, <<l + 1, FirstHigh(l + 1)>>)
    <3>1. h >= HighLast
      BY <1>11
    <3> HIDE DEF cur, C2
    <3> QED  BY <1>8, <3>1, GridOrder DEF cur
  <2>2. C2 = SeenBefore(G, <<l + 1, FirstHigh(l + 1)>>)
    BY <1>9, <2>1 DEF SeenBefore
  <2>3. SeenBefore(ValidGrid, <<tLow, tHigh>>)' = C2
    BY <1>6, <1>11, <2>2 DEF Go, SeenBefore, Before
  <2> QED  BY <1>5, <1>11, <2>3 DEF SInv, Go, BestOf
<1>12. CASE /\ tHigh >= HighLast /\ tLow >= LowLast
            /\ IF best' = NoPair
                 THEN Go("collapse", CollapsedLow(LowFirst), LowFirst)
                 ELSE Go("done", tLow, tHigh)
  <2>0. h >= HighLast /\ l >= LowLast
    BY <1>12
  <2>1. C2 = G
    <3>1. \A q \in G : Before(q, <<l, h>>) \/ q = <<l, h>>
      BY <2>0, GridOrder
    <3> HIDE DEF C2
    <3> QED  BY <1>8, <1>9, <3>1
  <2>2. CASE best' = NoPair
    <3>1. G = {}
      BY <1>5, <2>1, <2>2 DEF BestOf
    <3>2. \A q \in Diagonal : ~Before(q, <<LowFirst, LowFirst>>)
      <4>1. LowFirst \in LowFirst..HighLast
        BY <1>1
      <4> QED  BY <4>1, DiagonalOrder
    <3>3. phase' = "collapse" /\ tLow' = LowFirst /\ tHigh' = LowFirst
      BY <1>12, <2>2 DEF Go
    <3>4. SeenBefore(ValidDiagonal, <<tLow, tHigh>>)' = {}
      BY <3>2, <3>3 DEF SeenBefore, ValidDiagonal, Before
    <3> QED  BY <1>6, <2>2, <3>1, <3>3, <3>4 DEF SInv, BestOf
  <2>3. CASE best' # NoPair
    <3>1. phase' = "done"
      BY <1>12, <2>3 DEF Go
    <3>2. G # {} /\ BestOf(G)'
      BY <1>5, <2>1, <2>3 DEF BestOf, FirstBest
    <3> QED  BY <1>6, <2>3, <3>1, <3>2 DEF SInv, BestOf
  <2> QED  BY <2>2, <2>3
<1> QED  BY <1>10, <1>11, <1>12 DEF GridStep
LEMMA CollapseStepKeeps == IInv /\ CollapseStep => SInv'
<1> SUFFICES ASSUME IInv, CollapseStep PROVE SInv'
  OBVIOUS
<1>0. UNCHANGED data /\ phase = "collapse" /\ TInv
  BY DEF CollapseStep, IInv
<1>1. /\ tLow = tHigh /\ tHigh \in LowFirst..HighLast
      /\ LowFirst \in Int /\ HighLast \in Int
  BY <1>0, SearchAssumption DEF TInv, InRange
<1> PICK h \in LowFirst..HighLast : h = tHigh
  BY <1>1
<1> DEFINE cur == <<h, h>>
<1> PICK G \in SUBSET Diagonal : G = ValidDiagonal
  BY DEF ValidDiagonal
<1> PICK C \in SUBSET Pair : C = SeenBefore(G, cur)
  <2>1. SeenBefore(G, cur) \subseteq Pair
    BY <1>1 DEF SeenBefore, Diagonal, Pair
  <2> QED  BY <2>1
<1> PICK valid \in BOOLEAN : valid = ValidH(tLow, tHigh)
  BY DEF ValidH, MeetsBreakeven
<1>2. cur \in Pair /\ cur = <<tLow, tHigh>> /\ \A q \in C : Before(q, cur)
  BY <1>1 DEF Pair, SeenBefore
<1>3. ValidGrid = {} /\ BestOf(C)
  BY <1>0, <1>1 DEF IInv, SInv
<1>4. Consider(valid)
  BY DEF CollapseStep
<1> DEFINE C2 == IF valid THEN C \union {cur} ELSE C
<1>5. BestOf(C2)'
  <2> HIDE DEF cur
  <2> QED  BY <1>0, <1>2, <1>3, <1>4, ConsiderNext
<1>6. ValidGrid' = {} /\ ValidDiagonal' = G
  BY <1>0, <1>3, SameValid
<1>7. valid <=> cur \in G
  <2>1. cur \in Diagonal
    BY <1>1 DEF Diagonal
  <2>2. valid = DiagonalValid(cur)
    BY <1>1 DEF DiagonalValid
  <2> QED  BY <2>1, <2>2 DEF ValidDiagonal
<1>8. \A q \in G : q \in C2 <=> Before(q, cur) \/ q = cur
  BY <1>7 DEF SeenBefore
<1>9. C2 \subseteq G
  BY <1>7 DEF SeenBefore
<1>10. CASE tHigh < HighLast /\ Go("collapse", CollapsedLow(tHigh + 1), tHigh + 1)
  <2>1. \A q \in G : q \in C2 <=> Before(q, <<h + 1, h + 1>>)
    <3>1. h < HighLast
      BY <1>10
    <3> HIDE DEF cur, C2
    <3> QED  BY <1>8, <3>1, DiagonalOrder DEF cur
  <2>2. C2 = SeenBefore(G, <<h + 1, h + 1>>)
    BY <1>9, <2>1 DEF SeenBefore
  <2>3. SeenBefore(ValidDiagonal, <<tLow, tHigh>>)' = C2
    BY <1>6, <1>10, <2>2 DEF Go, SeenBefore, Before
  <2> QED  BY <1>5, <1>6, <1>10, <2>3 DEF SInv, Go, BestOf
<1>11. CASE /\ tHigh >= HighLast
            /\ Go(IF best' = NoPair THEN "default" ELSE "done", tLow, tHigh)
  <2>1. h >= HighLast
    BY <1>11
  <2>2. C2 = G
    <3> HIDE DEF cur, C2
    <3> QED  BY <1>8, <1>9, <2>1, DiagonalOrder DEF cur
  <2>3. CASE best' = NoPair
    <3>1. G = {}
      BY <1>5, <2>2, <2>3 DEF BestOf
    <3> QED  BY <1>6, <1>11, <2>3, <3>1 DEF SInv, Go
  <2>4. CASE best' # NoPair
    <3>1. BestOf(G)'
      BY <1>5, <2>2
    <3> QED  BY <1>6, <1>11, <2>4, <3>1 DEF SInv, Go, BestOf
  <2> QED  BY <2>3, <2>4
<1> QED  BY <1>10, <1>11 DEF CollapseStep

LEMMA SearchStep == IInv /\ [Next]_vars => IInv'
<1> SUFFICES ASSUME IInv, [Next]_vars PROVE IInv'
  OBVIOUS
<1>1. TInv'
  BY TypeStep DEF IInv
<1>2. CASE GridStep
  BY <1>1, <1>2, GridStepKeeps DEF IInv
<1>3. CASE CollapseStep
  BY <1>1, <1>3, CollapseStepKeeps DEF IInv
<1>4. CASE UseDefault
  BY <1>1, <1>4, SameValid DEF UseDefault, Go, IInv, SInv
<1>5. CASE UNCHANGED vars
  <2>1. UNCHANGED data /\ UNCHANGED <<phase, tLow, tHigh, best, bestNet>>
    BY <1>5 DEF vars, data
  <2>2. /\ ValidGrid' = ValidGrid /\ ValidDiagonal' = ValidDiagonal
        /\ \A l, h : NetSaved(l, h)' = NetSaved(l, h)
    BY <2>1, SameData, SameValid
  <2>3. \A D1 \in SUBSET Pair : BestOf(D1)' <=> BestOf(D1)
    BY <2>1, <2>2 DEF BestOf, FirstBest, Before
  <2>4. SInv'
    <3>5. GridPairs \subseteq Pair /\ Diagonal \subseteq Pair
      BY SearchAssumption DEF GridPairs, Diagonal, Pair
    <3>6. ValidGrid \in SUBSET Pair /\ ValidDiagonal \in SUBSET Pair
      BY <3>5 DEF ValidGrid, ValidDiagonal
    <3> PICK G \in SUBSET Pair : G = ValidGrid
      BY <3>6
    <3> PICK E \in SUBSET Pair : E = ValidDiagonal
      BY <3>6
    <3> PICK G1 \in SUBSET Pair : G1 = SeenBefore(ValidGrid, <<tLow, tHigh>>)
      BY DEF SeenBefore
    <3> PICK E1 \in SUBSET Pair : E1 = SeenBefore(ValidDiagonal, <<tLow, tHigh>>)
      BY DEF SeenBefore
    <3>1. ValidGrid' = G /\ ValidDiagonal' = E
      BY <2>2
    <3>2. /\ SeenBefore(ValidGrid, <<tLow, tHigh>>)' = G1
          /\ SeenBefore(ValidDiagonal, <<tLow, tHigh>>)' = E1
      BY <2>1, <2>2 DEF SeenBefore, Before
    <3>3. SInv
      BY DEF IInv
    <3> QED  BY <2>1, <2>3, <3>1, <3>2, <3>3 DEF SInv
  <2> QED  BY <1>1, <2>4 DEF IInv
<1> QED  BY <1>2, <1>3, <1>4, <1>5 DEF Next, Written

LEMMA SearchInvariant == Spec => []IInv
<1>1. Init => IInv
  BY TypeInit, SearchInit DEF IInv
<1>2. IInv /\ [Next]_vars => IInv'
  BY SearchStep
<1> QED  BY <1>1, <1>2, PTL DEF Spec

\* grid_search returns the first best valid pair of its grid, else the first best
\* collapsed one, and its default only if there is no valid pair at all.
THEOREM SearchFindsTheBest == Spec => []SearchIsOptimal
<1>1. IInv => SearchIsOptimal
  BY DEF IInv, SInv, BestOf, SearchIsOptimal, ValidGrid, ValidDiagonal
<1> QED  BY <1>1, SearchInvariant, PTL
\* A valid pair, of the grid or of the diagonal, passes main's check of both
\* tiers and does not lose money.
LEMMA ValidIsGood ==
  ASSUME TInv, NEW q \in ValidGrid \union ValidDiagonal
  PROVE  GridValid(q) /\ NetSaved(q[1], q[2]) >= 0
<1>1. q[1] \in Int /\ q[2] \in Int
  BY SearchAssumption DEF ValidGrid, ValidDiagonal, GridPairs, Diagonal
<1>2. GridValid(q)
  <2>1. CASE q \in ValidGrid
    BY <2>1 DEF ValidGrid
  <2>2. CASE q \in ValidDiagonal
    <3>1. ValidM(q[1], q[1])
      BY <1>1, CollapsedIsValid DEF TInv, SearchTypeOK
    <3>2. q[1] = q[2] /\ ValidH(q[1], q[2])
      BY <2>2 DEF ValidDiagonal, Diagonal, DiagonalValid
    <3> QED  BY <3>1, <3>2 DEF GridValid
  <2> QED  BY <2>1, <2>2
<1> QED  BY <1>1, <1>2, ValidPays DEF GridValid, TInv, SearchTypeOK

LEMMA FoundIsValid ==
  ASSUME IInv, best # NoPair, phase # "defaulted"
  PROVE  best \in ValidGrid \union ValidDiagonal /\ bestNet = NetSaved(best[1], best[2])
<1>1. phase \in {"grid", "collapse", "done"}
  BY DEF IInv, TInv, SearchTypeOK, SInv
<1> QED  BY <1>1 DEF IInv, SInv, BestOf, FirstBest, SeenBefore

\* Thresholds found by the search never lose money on its data, for any costs
\* with which catching a return pays, and best_net_saved is what they save.
THEOREM ThresholdsNeverLose == Spec => []NeverLoses
<1>1. IInv => NeverLoses
  BY ValidIsGood, FoundIsValid DEF IInv, NeverLoses
<1> QED  BY <1>1, SearchInvariant, PTL

\* Whatever pair was found passes the cross-check of both tiers.
THEOREM CrossChecked == Spec => []CrossCheckPasses
<1>1. IInv => CrossCheckPasses
  <2> SUFFICES ASSUME IInv, phase = "done" PROVE GridValid(best)
    BY DEF CrossCheckPasses
  <2>1. best # NoPair
    BY DEF IInv, SInv
  <2> QED  BY <2>1, ValidIsGood, FoundIsValid DEF IInv
<1> QED  BY <1>1, SearchInvariant, PTL
=============================================================================
