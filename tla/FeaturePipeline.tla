--------------------------- MODULE FeaturePipeline ---------------------------
(***************************************************************************)
(* The features of an order, computed twice: by scripts/generate_data.py   *)
(* for the rows a model is trained and evaluated on, and by                *)
(* extract_features (app/features/pipeline.py) in the worker for a live    *)
(* order.  Two implementations, one model.                                 *)
(*                                                                         *)
(* A feature is a fraction, free of floating point.  Training rounds two   *)
(* of them to four places, the worker rounds nothing.  Left out are        *)
(* hub_distance_km (simulated noise in training),                          *)
(* address_tfidf_ambiguity_score (unrelated in training, and documented    *)
(* so) and the features passed on unchanged by both sides.                 *)
(***************************************************************************)
EXTENDS Integers, FiniteSets

CONSTANTS
  Category, Median, P95,         \* CATEGORIES, CATEGORY_MEDIAN_CART, CATEGORY_P95_BASKET
  NovelPincode,                  \* NOVEL_PINCODES
  CartMin, CartMax, MaxItems,    \* what the raw values of training are clipped to ...
  ZMax, LengthMin, LengthMax, AgeMax,  \* ... and its features
  TrainOrder,  \* the orders behind train.csv
  Order,       \* orders to score
  Cut          \* fractions a tree may compare a feature with

Fraction == [num : Int, den : Nat \ {0}]
Less(x, y) == x.num * y.den < y.num * x.den
Whole(n) == [num |-> n, den |-> 1]

\* np.clip
Clip(x, low, high) == IF Less(x, low) THEN low ELSE IF Less(high, x) THEN high ELSE x
ClipInt(n, low, high) ==
  IF n < low THEN low ELSE IF n > high THEN high ELSE n

\* np.round(x, 4): to the nearest ten-thousandth, from half-way to the even one.
Decimals == 10000
Nearest(x) == (2 * x.num * Decimals + x.den) \div (2 * x.den)
HalfWay(x) == 2 * x.den * Nearest(x) = 2 * x.num * Decimals + x.den
Round(x) ==
  [num |-> IF HalfWay(x) /\ Nearest(x) % 2 = 1 THEN Nearest(x) - 1 ELSE Nearest(x),
   den |-> Decimals]

\* x and y are no further apart than rounding moves a number: half a Decimal.
Near(x, y) ==
  LET gap  == x.num * y.den - y.num * x.den
      room == (x.den * y.den) \div (2 * Decimals)
  IN  -room <= gap /\ gap <= room

\* placed: the minute of the Indian day.  zone: minutes that the clock of the
\* order_timestamp is ahead of UTC.
OrderType ==
  [category : Category, cart : Nat, items : Nat \ {0}, placed : 0..1439, zone : -720..840,
   pincode : STRING, length : Nat, age : Nat, cod : BOOLEAN, rto : BOOLEAN]

ASSUME FeatureAssumption ==
  /\ Median \in [Category -> Nat \ {0}]
  /\ P95 \in [Category -> Nat \ {0}]
  /\ {CartMin, CartMax, MaxItems, ZMax, LengthMin, LengthMax, AgeMax} \subseteq Nat
  /\ CartMin <= CartMax /\ 1 <= MaxItems /\ LengthMin <= LengthMax
  /\ \A c \in Category : 2 * CartMax > (ZMax + 2) * Median[c]
  /\ TrainOrder \subseteq OrderType
  /\ Order \subseteq OrderType
  /\ Cut \subseteq Fraction

-----------------------------------------------------------------------------
(* compute_historical_rates, from the COD orders of the training split.     *)

CodOrders == {o \in TrainOrder : o.cod}
MeanRto(S) == [num |-> Cardinality({o \in S : o.rto}), den |-> Cardinality(S)]
TargetRto == [num |-> 24, den |-> 100]  \* TARGET_RTO_IN_COD
GlobalRate == IF CodOrders = {} THEN TargetRto ELSE MeanRto(CodOrders)
PincodeRates ==
  [p \in {o.pincode : o \in CodOrders} |-> MeanRto({o \in CodOrders : o.pincode = p})]
CategoryRates ==
  [c \in {o.category : o \in CodOrders} |-> MeanRto({o \in CodOrders : o.category = c})]

\* map(rates).fillna(global), and rates.get(key, global) in the worker.
Lookup(rates, key) == IF key \in DOMAIN rates THEN rates[key] ELSE GlobalRate

-----------------------------------------------------------------------------
Flag(b) == Whole(IF b THEN 1 ELSE 0)

\* (cart - median) / std, the deviation taken to be half the median.
ZScore(cart, median) == [num |-> 2 * (cart - median), den |-> median]

\* generate_split and attach_historical_rates
Trained(o) ==
  [pincode_rate  |-> Lookup(PincodeRates, o.pincode),
   category_rate |-> Lookup(CategoryRates, o.category),
   cart_value    |-> Round(Clip(ZScore(ClipInt(o.cart, CartMin, CartMax), Median[o.category]),
                                Whole(-ZMax), Whole(ZMax))),
   item_quantity |-> Round([num |-> ClipInt(o.items, 1, MaxItems), den |-> P95[o.category]]),
   is_night      |-> Flag(o.placed \div 60 < 5),
   length        |-> Whole(ClipInt(o.length, LengthMin, LengthMax)),
   age           |-> Whole(ClipInt(o.age, 0, AgeMax)),
   is_novel      |-> Flag(o.pincode \in NovelPincode),
   is_flash      |-> Flag(o.pincode \in NovelPincode)]

\* The order_timestamp says when the order was placed on the clock of its zone;
\* fromisoformat and astimezone take it back to Indian time, UTC+05:30.
Ist == 330
Timestamp(o) == [minute |-> (o.placed - Ist + o.zone) % 1440, zone |-> o.zone]
AsWritten(t) == t.minute  \* mutant: the hour as it is written
ToIst(t) == (t.minute - t.zone + Ist) % 1440

\* extract_features
Served(o) ==
  [pincode_rate  |-> Lookup(PincodeRates, o.pincode),
   category_rate |-> Lookup(CategoryRates, o.category),
   cart_value    |-> ZScore(o.cart, Median[o.category]),
   item_quantity |-> [num |-> o.items, den |-> P95[o.category]],
   is_night      |-> Flag(ToIst(Timestamp(o)) \div 60 < 5),
   length        |-> Whole(o.length),
   age           |-> Whole(o.age),
   is_novel      |-> Flag(o.pincode \in NovelPincode),
   is_flash      |-> Flag(o.pincode \in NovelPincode)]

Feature == {"pincode_rate", "category_rate", "cart_value", "item_quantity", "is_night",
            "length", "age", "is_novel", "is_flash"}

\* What a tree can have learned: to compare a feature with a value that separates
\* two rows it was trained on.
Cuts(column) == {cut \in Cut : (\E x \in column : Less(x, cut)) /\ \E x \in column : ~Less(x, cut)}
Learned == UNION {{f} \X Cuts({Trained(o)[f] : o \in TrainOrder}) : f \in Feature}

-----------------------------------------------------------------------------
\* A split may tell the features of a live order from its rounded row in training:
\* 2 / 3 is below a cut at 0.6667, and 0.6667 is not.
Blurred(features, split) ==
  split[1] \in {"cart_value", "item_quantity"} /\ Near(features[split[1]], split[2])

\* At every split a tree may have learned, a live order goes the way of the row
\* the training side would have made of it, unless its cart is below the least
\* or its basket above the largest of the simulation, or the rounding of that row
\* reaches the cut.
ServedAsTrained ==
  \A o \in Order : o.cart >= CartMin /\ o.items <= MaxItems =>
    \A split \in Learned : ~Blurred(Served(o), split) =>
      (Less(Served(o)[split[1]], split[2]) <=> Less(Trained(o)[split[1]], split[2]))
=============================================================================
