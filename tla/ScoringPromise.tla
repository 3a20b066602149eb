--------------------------- MODULE ScoringPromise ---------------------------
(***************************************************************************)
(* What order scoring promises, without queues, keys, retries or crashes:  *)
(* for each event a verdict is recorded once and for all, and then, in     *)
(* this order and each at most once, the action of its tier is triggered   *)
(* and an explanation is requested.  ScoringPipeline implements it.        *)
(***************************************************************************)
CONSTANT Event

VARIABLES
  record,   \* the tier recorded for each event, or NoTier
  done      \* the set of side effects triggered for each event

Tier == {"ALLOW_COD", "NUDGE_PREPAY", "SOFT_GATE_COD"}
NoTier == "none"

\* The action each tier asks for besides the explanation.
ActionOf(tier) ==
  CASE tier = "NUDGE_PREPAY" -> "link"
    [] tier = "SOFT_GATE_COD" -> "gate"
    [] OTHER -> "none"

Init ==
  /\ record = [e \in Event |-> NoTier]
  /\ done = [e \in Event |-> {}]

Record(e, tier) ==
  /\ record[e] = NoTier
  /\ record' = [record EXCEPT ![e] = tier]
  /\ UNCHANGED done

Act(e) ==
  /\ record[e] \in {"NUDGE_PREPAY", "SOFT_GATE_COD"}
  /\ done[e] = {}
  /\ done' = [done EXCEPT ![e] = {ActionOf(record[e])}]
  /\ UNCHANGED record

\* The explanation comes last; it may be all there is when the tier asks for
\* no action.
Explain(e) ==
  /\ record[e] # NoTier
  /\ done[e] = {ActionOf(record[e])} \ {"none"}
  /\ done' = [done EXCEPT ![e] = @ \union {"explanation"}]
  /\ UNCHANGED record

Next == \E e \in Event : (\E tier \in Tier : Record(e, tier)) \/ Act(e) \/ Explain(e)

Spec == Init /\ [][Next]_<<record, done>>
=============================================================================
