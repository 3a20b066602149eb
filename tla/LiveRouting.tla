----------------------------- MODULE LiveRouting -----------------------------
(***************************************************************************)
(* From an order to its tier: the features the worker computes             *)
(* (FeaturePipeline) take it through a tree of the model, to a leaf, whose *)
(* probability is compared with the thresholds the search has written      *)
(* (ThresholdSearch).  A tree is one split here: orders that go the same   *)
(* way at every split reach the same leaf of any tree.                     *)
(***************************************************************************)
EXTENDS ThresholdSearch, FeaturePipeline

Side == {"left", "right"}
SideOf(features, split) == IF Less(features[split[1]], split[2]) THEN "left" ELSE "right"

\* Orders that the simulation behind the training data could have made.
Simulated == {o \in Order : o.cart >= CartMin /\ o.items <= MaxItems}

\* How an order goes, with the one features and the other, at the splits whose
\* cut is out of the reach of the rounding in training.
WaysBy(served, trained) ==
  {<<SideOf(served, split), SideOf(trained, split)>> :
     split \in {s \in Learned : ~Blurred(served, s)}}

\* With the features the worker computes, and with those training would have.
Ways == UNION {WaysBy(Served(o), Trained(o)) : o \in Simulated}

-----------------------------------------------------------------------------
\* A live order gets the tier that was meant for it: whatever probabilities the
\* model has learned for the two sides of a split, the worker routes the order
\* like the row that training would have made of it, on thresholds of any data.
\* The worker clips nothing, and need not, except for orders below the least
\* cart or above the largest basket of the simulation; it rounds nothing, which
\* tells at most where a cut is within half a ten-thousandth of the feature.
RoutedAsTrained ==
  phase \in {"done", "defaulted"} =>
    \A way \in Ways, leaf \in [Side -> Prob] :
      Route(leaf[way[1]], best[1], best[2]) = Route(leaf[way[2]], best[1], best[2])
=============================================================================
