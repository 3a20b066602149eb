------------------------ MODULE FeaturePipelineProofs ------------------------
(***************************************************************************)
(* A proof that the worker's features, which are neither clipped nor       *)
(* rounded, take the same way through any tree as those of training, which *)
(* are, wherever rounding does not reach the cut: for any categories,      *)
(* medians, baskets, orders and splits.                                    *)
(***************************************************************************)
EXTENDS LiveRouting, TLAPS

\* Products keep an order.
LEMMA Scale ==
  ASSUME NEW a \in Int, NEW b \in Int, NEW c \in Nat \ {0}
  PROVE  /\ a < b <=> a * c < b * c
         /\ a <= b <=> a * c <= b * c
OBVIOUS

\* Fractions are compared transitively.
LEMMA LessTrans ==
  ASSUME NEW x \in Fraction, NEW y \in Fraction, NEW z \in Fraction
  PROVE  /\ Less(x, y) /\ ~Less(z, y) => Less(x, z)
         /\ ~Less(y, x) /\ Less(y, z) => Less(x, z)
<1>t. /\ x.num \in Int /\ y.num \in Int /\ z.num \in Int
      /\ x.den \in Nat \ {0} /\ y.den \in Nat \ {0} /\ z.den \in Nat \ {0}
  BY DEF Fraction
<1> DEFINE xy == x.num * y.den
           yx == y.num * x.den
           yz == y.num * z.den
           zy == z.num * y.den
           xz == x.num * z.den
           zx == z.num * x.den
<1>1. /\ xy \in Int /\ yx \in Int /\ yz \in Int /\ zy \in Int /\ xz \in Int /\ zx \in Int
  BY <1>t
<1>2. /\ xy * z.den = xz * y.den
      /\ yx * z.den = yz * x.den
      /\ zy * x.den = zx * y.den
  BY <1>t
<1> HIDE DEF xy, yx, yz, zy, xz, zx
<1>3. xy < yx <=> xy * z.den < yx * z.den
  BY <1>t, <1>1, Scale
<1>4. yz <= zy <=> yz * x.den <= zy * x.den
  BY <1>t, <1>1, Scale
<1>5. xy <= yx <=> xy * z.den <= yx * z.den
  BY <1>t, <1>1, Scale
<1>6. yz < zy <=> yz * x.den < zy * x.den
  BY <1>t, <1>1, Scale
<1>7. xz < zx <=> xz * y.den < zx * y.den
  BY <1>t, <1>1, Scale
<1> DEFINE A == xy * z.den
           B == yz * x.den
           C == zx * y.den
<1>8. A \in Int /\ B \in Int /\ C \in Int
  BY <1>t, <1>1
<1>9. /\ xy < yx <=> A < B
      /\ xy <= yx <=> A <= B
      /\ yz < zy <=> B < C
      /\ yz <= zy <=> B <= C
      /\ xz < zx <=> A < C
  BY <1>2, <1>3, <1>4, <1>5, <1>6, <1>7
<1> HIDE DEF A, B, C
<1>10. (xy < yx /\ yz <= zy => xz < zx) /\ (xy <= yx /\ yz < zy => xz < zx)
  BY <1>8, <1>9
<1>11. /\ Less(x, y) <=> xy < yx
       /\ Less(y, x) <=> yx < xy
       /\ Less(y, z) <=> yz < zy
       /\ Less(z, y) <=> zy < yz
       /\ Less(x, z) <=> xz < zx
  BY DEF Less, xy, yx, yz, zy, xz, zx
<1>12. QED
  BY <1>1, <1>10, <1>11

LEMMA LessAsym ==
  ASSUME NEW x \in Fraction, NEW y \in Fraction, Less(x, y)
  PROVE  ~Less(y, x)
<1>1. x.num * y.den \in Int /\ y.num * x.den \in Int
  BY DEF Fraction
<1>2. QED
  BY <1>1 DEF Less

LEMMA Wholes == \A n \in Int : Whole(n) \in Fraction
BY DEF Whole, Fraction

\* Clipping does not change the side of a split inside the range of the clip.
LEMMA ClipKeepsSides ==
  ASSUME NEW x \in Fraction, NEW low \in Fraction, NEW high \in Fraction, NEW at \in Fraction,
         Less(low, at), ~Less(high, at)
  PROVE  Less(x, at) <=> Less(Clip(x, low, high), at)
<1>1. CASE Less(x, low)
  <2>1. Clip(x, low, high) = low /\ ~Less(low, x)
    BY <1>1, LessAsym DEF Clip
  <2>2. QED
    BY <2>1, LessTrans
<1>2. CASE Less(high, x) /\ ~Less(x, low)
  <2>1. Clip(x, low, high) = high /\ ~Less(x, high)
    BY <1>2, LessAsym DEF Clip
  <2>2. QED
    BY <2>1, LessTrans
<1>3. CASE ~Less(high, x) /\ ~Less(x, low)
  BY <1>3 DEF Clip
<1>4. QED
  BY <1>1, <1>2, <1>3

\* A clipped value lies in the range of the clip.
LEMMA ClipInRange ==
  ASSUME NEW x \in Fraction, NEW low \in Fraction, NEW high \in Fraction, ~Less(high, low)
  PROVE  /\ Clip(x, low, high) \in Fraction
         /\ ~Less(Clip(x, low, high), low) /\ ~Less(high, Clip(x, low, high))
BY LessAsym DEF Clip

LEMMA Succ ==
  ASSUME NEW a \in Int, NEW c \in Nat \ {0}
  PROVE  (a + 1) * c = a * c + c
OBVIOUS

LEMMA Quotient ==
  ASSUME NEW a \in Int, NEW b \in Nat \ {0}
  PROVE  a \div b \in Int /\ b * (a \div b) <= a /\ a < b * (a \div b) + b
OBVIOUS

\* Rounding moves a number by no more than half a Decimal.
LEMMA RoundIsClose ==
  ASSUME NEW x \in Fraction
  PROVE  /\ Round(x) \in Fraction /\ Round(x).den = Decimals
         /\ 2 * x.den * Round(x).num <= 2 * x.num * Decimals + x.den
         /\ 2 * x.den * Round(x).num >= 2 * x.num * Decimals - x.den
<1> DEFINE a == 2 * x.num * Decimals + x.den
           b == 2 * x.den
           q == Nearest(x)
<1>1. a \in Int /\ b \in Nat \ {0} /\ x.den \in Nat
  BY DEF Fraction, Decimals
<1>2. q \in Int /\ b * q <= a /\ a < b * q + b
  BY <1>1, Quotient DEF Nearest
<1>3. HalfWay(x) => b * (q - 1) = a - b
  BY <1>1, <1>2 DEF HalfWay
<1>4. Round(x).num \in Int /\ b * Round(x).num <= a /\ b * Round(x).num >= a - b
  BY <1>1, <1>2, <1>3 DEF Round
<1>5. a - b = 2 * x.num * Decimals - x.den
  BY DEF Fraction, Decimals
<1>6. QED
  BY <1>4, <1>5 DEF Round, Fraction, Decimals

\* Rounding does not change the side of a cut that it does not reach.
LEMMA RoundKeepsSides ==
  ASSUME NEW x \in Fraction, NEW at \in Fraction, ~Near(x, at)
  PROVE  Less(x, at) <=> Less(Round(x), at)
<1> DEFINE n == x.num
           d == x.den
           a == at.num
           b == at.den
           r == Round(x).num
           nb == n * b
           ad == a * d
           db == d * b
           rb == r * b
           aU == a * Decimals
           gap == nb - ad
<1>1. n \in Int /\ d \in Nat \ {0} /\ a \in Int /\ b \in Nat \ {0} /\ r \in Int
  BY RoundIsClose DEF Fraction
<1>2. nb \in Int /\ ad \in Int /\ db \in Nat /\ rb \in Int /\ aU \in Int
  BY <1>1 DEF Decimals
<1>3. gap < -(db \div 20000) \/ gap > db \div 20000
  BY <1>2 DEF Near, Decimals
<1>4. 20000 * gap < -db \/ 20000 * gap > db
  BY <1>2, <1>3
<1>5. /\ 2 * d * r <= 20000 * n + d
      /\ 2 * d * r >= 20000 * n - d
  BY <1>1, RoundIsClose DEF Decimals
<1>6. /\ (2 * d * r) * b <= (20000 * n + d) * b
      /\ (2 * d * r) * b >= (20000 * n - d) * b
  <2> DEFINE l == 2 * d * r
             u == 20000 * n + d
             v == 20000 * n - d
  <2>1. l \in Int /\ u \in Int /\ v \in Int
    BY <1>1
  <2> HIDE DEF l, u, v
  <2>2. (l <= u <=> l * b <= u * b) /\ (v <= l <=> v * b <= l * b)
    BY <1>1, <2>1, Scale
  <2>3. l <= u /\ v <= l
    BY <1>5 DEF l, u, v
  <2>4. l * b <= u * b /\ v * b <= l * b /\ l * b \in Int /\ v * b \in Int
    BY <1>1, <2>1, <2>2, <2>3
  <2>5. QED
    BY <2>4 DEF l, u, v
<1>7. /\ (2 * d * r) * b = 2 * (rb * d)
      /\ (20000 * n + d) * b = 20000 * nb + db
      /\ (20000 * n - d) * b = 20000 * nb - db
      /\ aU * d = 10000 * ad
  BY <1>1 DEF Decimals
<1> HIDE DEF nb, ad, db, rb, aU
<1>8. rb * d \in Int /\ aU * d \in Int
  BY <1>1, <1>2
<1>9. /\ 2 * (rb * d) <= 20000 * nb + db
      /\ 2 * (rb * d) >= 20000 * nb - db
  BY <1>6, <1>7
<1>10. nb < ad <=> rb * d < aU * d
  BY <1>2, <1>4, <1>7, <1>8, <1>9
<1>11. rb < aU <=> rb * d < aU * d
  BY <1>1, <1>2, Scale
<1>12. /\ Less(x, at) <=> nb < ad
       /\ Less(Round(x), at) <=> rb < aU
  BY RoundIsClose DEF Less, nb, ad, rb, aU
<1>13. QED
  BY <1>10, <1>11, <1>12

\* Rounding stays on the same side of a whole number.
LEMMA RoundInRange ==
  ASSUME NEW x \in Fraction, NEW k \in Int
  PROVE  /\ ~Less(x, Whole(k)) => ~Less(Round(x), Whole(k))
         /\ ~Less(Whole(k), x) => ~Less(Whole(k), Round(x))
<1> DEFINE n == x.num
           d == x.den
           r == Round(x).num
           kU == k * 10000
           kd == k * d
           rd == d * r
<1>1. n \in Int /\ d \in Nat \ {0} /\ r \in Int /\ kU \in Int /\ kd \in Int /\ rd \in Int
  BY RoundIsClose DEF Fraction
<1>2. /\ Less(x, Whole(k)) <=> n < kd
      /\ Less(Whole(k), x) <=> kd < n
      /\ Less(Round(x), Whole(k)) <=> r < kU
      /\ Less(Whole(k), Round(x)) <=> kU < r
  BY <1>1, RoundIsClose DEF Less, Whole, Decimals
<1>3. 2 * rd <= 20000 * n + d /\ 2 * rd >= 20000 * n - d
  <2>1. 2 * d * r = 2 * rd /\ 2 * n * Decimals = 20000 * n
    BY <1>1 DEF Decimals
  <2>2. QED
    BY <2>1, RoundIsClose
<1>4. kU * d = 10000 * kd /\ r * d = rd
  BY <1>1
<1> HIDE DEF n, d, r, kd, rd, kU
<1>5. ASSUME r < kU PROVE rd <= 10000 * kd - d
  <2>1. r + 1 <= kU /\ r + 1 \in Int
    BY <1>1, <1>5
  <2>2. (r + 1) * d <= kU * d
    BY <1>1, <2>1, Scale
  <2>3. (r + 1) * d = rd + d
    BY <1>1, <1>4, Succ
  <2>4. QED
    BY <1>1, <1>4, <2>2, <2>3
<1>6. ASSUME kU < r PROVE rd >= 10000 * kd + d
  <2>1. kU + 1 <= r /\ kU + 1 \in Int
    BY <1>1, <1>6
  <2>2. (kU + 1) * d <= r * d
    BY <1>1, <2>1, Scale
  <2>3. (kU + 1) * d = 10000 * kd + d
    BY <1>1, <1>4, Succ
  <2>4. QED
    BY <1>1, <1>4, <2>2, <2>3
<1>7. QED
  BY <1>1, <1>2, <1>3, <1>5, <1>6

LEMMA ClipIntIsClip ==
  ASSUME NEW n \in Int, NEW low \in Int, NEW high \in Int
  PROVE  Whole(ClipInt(n, low, high)) = Clip(Whole(n), Whole(low), Whole(high))
BY DEF Whole, ClipInt, Clip, Less

\* From the day in India to any clock on earth and back.
LEMMA TimeRoundTrip ==
  ASSUME NEW o \in OrderType
  PROVE  ToIst(Timestamp(o)) = o.placed
<1>1. o.placed \in 0..1439 /\ o.zone \in Int
  BY DEF OrderType
<1>2. (((o.placed - 330 + o.zone) % 1440) - o.zone + 330) % 1440 = o.placed
  BY <1>1
<1>3. QED
  BY <1>2 DEF ToIst, Timestamp, Ist

\* The features that are computed alike.
LEMMA SameFeatures ==
  ASSUME NEW o \in OrderType,
         NEW f \in Feature \ {"cart_value", "item_quantity", "length", "age"}
  PROVE  Served(o)[f] = Trained(o)[f]
<1>1. ToIst(Timestamp(o)) = o.placed
  BY TimeRoundTrip
<1>2. QED
  BY <1>1 DEF Served, Trained, Feature

\* A split on a feature that has a range in training lies in that range.
LEMMA SplitInRange ==
  ASSUME NEW split \in Learned, NEW low \in Fraction, NEW high \in Fraction,
         \A o \in OrderType :
           /\ Trained(o)[split[1]] \in Fraction
           /\ ~Less(Trained(o)[split[1]], low) /\ ~Less(high, Trained(o)[split[1]])
  PROVE  split[2] \in Fraction /\ Less(low, split[2]) /\ ~Less(high, split[2])
<1>1. PICK f \in Feature : split \in {f} \X Cuts({Trained(o)[f] : o \in TrainOrder})
  BY DEF Learned
<1>2. split[1] = f /\ split[2] \in Cuts({Trained(o)[f] : o \in TrainOrder})
  BY <1>1
<1>3. split[2] \in Fraction
  BY <1>2, FeatureAssumption DEF Cuts
<1>4. PICK u \in TrainOrder : Less(Trained(u)[f], split[2])
  BY <1>2 DEF Cuts
<1>5. PICK v \in TrainOrder : ~Less(Trained(v)[f], split[2])
  BY <1>2 DEF Cuts
<1>6. u \in OrderType /\ v \in OrderType
  BY FeatureAssumption
<1>7. QED
  BY <1>2, <1>3, <1>4, <1>5, <1>6, LessTrans

LEMMA LearnedSplits == \A split \in Learned : split[1] \in Feature /\ split[2] \in Fraction
BY FeatureAssumption DEF Learned, Cuts

LEMMA ScoreIsFraction ==
  ASSUME NEW c \in Int, NEW m \in Nat \ {0}
  PROVE  ZScore(c, m) \in Fraction
BY DEF ZScore, Fraction

\* The raw cart is clipped before the division and its score after it; for a
\* cart that is not too small one clip is as good as both.
ClippedScore(o) ==
  Clip(ZScore(ClipInt(o.cart, CartMin, CartMax), Median[o.category]), Whole(-ZMax), Whole(ZMax))

LEMMA CartClips ==
  ASSUME NEW o \in OrderType, o.cart >= CartMin
  PROVE  ClippedScore(o) = Clip(ZScore(o.cart, Median[o.category]), Whole(-ZMax), Whole(ZMax))
<1> DEFINE m == Median[o.category]
           k == ZMax * m
<1>t. /\ m \in Nat \ {0} /\ o.cart \in Nat /\ CartMin \in Nat /\ CartMax \in Nat /\ ZMax \in Nat
      /\ 2 * CartMax > (ZMax + 2) * m
  BY FeatureAssumption DEF OrderType
<1>k. k \in Nat /\ (ZMax + 2) * m = k + 2 * m /\ (-ZMax) * m = -k
  BY <1>t
<1>1. CASE o.cart <= CartMax
  BY <1>1, <1>t DEF ClippedScore, ClipInt
<1>2. CASE o.cart > CartMax
  <2>1. ASSUME NEW c \in Nat, c >= CartMax
        PROVE  Clip(ZScore(c, m), Whole(-ZMax), Whole(ZMax)) = Whole(ZMax)
    <3>1. 2 * (c - m) \in Int /\ 2 * (c - m) > k
      BY <1>t, <1>k, <2>1
    <3>2. Less(Whole(ZMax), ZScore(c, m)) <=> k < 2 * (c - m)
      BY <1>t DEF Less, Whole, ZScore
    <3>3. Less(ZScore(c, m), Whole(-ZMax)) <=> 2 * (c - m) < (-ZMax) * m
      BY <1>t DEF Less, Whole, ZScore
    <3>4. ~(2 * (c - m) < -k)
      BY <1>k, <3>1
    <3> HIDE DEF k, m
    <3>5. QED
      BY <1>k, <3>1, <3>2, <3>3, <3>4 DEF Clip
  <2>2. ClipInt(o.cart, CartMin, CartMax) = CartMax
    BY <1>2, <1>t, FeatureAssumption DEF ClipInt
  <2>3. ClippedScore(o) = Clip(ZScore(CartMax, m), Whole(-ZMax), Whole(ZMax))
    BY <2>2 DEF ClippedScore
  <2>4. QED
    BY <1>2, <1>t, <2>1, <2>3
<1>3. QED
  BY <1>1, <1>2, <1>t

\* The cart: clipped, then rounded, in training.
LEMMA CartAgrees ==
  ASSUME NEW o \in OrderType, o.cart >= CartMin,
         NEW split \in Learned, split[1] = "cart_value", ~Near(Served(o)[split[1]], split[2])
  PROVE  Less(Served(o)[split[1]], split[2]) <=> Less(Trained(o)[split[1]], split[2])
<1> DEFINE low == Whole(-ZMax)
           high == Whole(ZMax)
           at == split[2]
           x == ZScore(o.cart, Median[o.category])
<1>1. /\ low \in Fraction /\ high \in Fraction /\ -ZMax \in Int /\ ZMax \in Int
      /\ ~Less(high, low)
  BY Wholes, FeatureAssumption DEF Less, Whole
<1>2. \A c \in Category, n \in Int : ZScore(n, Median[c]) \in Fraction
  BY ScoreIsFraction, FeatureAssumption
<1>3. ASSUME NEW p \in OrderType
      PROVE  /\ Trained(p)[split[1]] = Round(ClippedScore(p)) /\ ClippedScore(p) \in Fraction
             /\ ~Less(ClippedScore(p), low) /\ ~Less(high, ClippedScore(p))
  <2>1. ClipInt(p.cart, CartMin, CartMax) \in Int /\ p.category \in Category
    BY FeatureAssumption DEF ClipInt, OrderType
  <2>2. Trained(p)[split[1]] = Round(ClippedScore(p))
    BY DEF Trained, ClippedScore
  <2>3. ZScore(ClipInt(p.cart, CartMin, CartMax), Median[p.category]) \in Fraction
    BY <1>2, <2>1
  <2> HIDE DEF low, high
  <2>4. QED
    BY <1>1, <2>2, <2>3, ClipInRange DEF ClippedScore, low, high
<1>4. at \in Fraction /\ Less(low, at) /\ ~Less(high, at)
  <2>1. ASSUME NEW p \in OrderType
        PROVE  /\ Trained(p)[split[1]] \in Fraction
               /\ ~Less(Trained(p)[split[1]], low) /\ ~Less(high, Trained(p)[split[1]])
    BY <1>1, <1>3, RoundIsClose, RoundInRange
  <2> HIDE DEF low, high
  <2>2. QED
    BY <1>1, <2>1, SplitInRange
<1>5. x \in Fraction /\ Served(o)[split[1]] = x /\ Trained(o)[split[1]] = Round(Clip(x, low, high))
  BY <1>2, <1>3, CartClips DEF Served, OrderType
<1> HIDE DEF x
<1>6. CASE Clip(x, low, high) = x
  BY <1>4, <1>5, <1>6, RoundKeepsSides
<1>7. CASE Less(x, low)
  <2>1. Clip(x, low, high) = low
    BY <1>7 DEF Clip
  <2>2. Round(low) \in Fraction /\ ~Less(low, Round(low))
    BY <1>1, RoundIsClose, RoundInRange, LessAsym
  <2>3. Less(Round(low), at) /\ Less(x, at)
    <3> HIDE DEF low, high, at
    <3>1. ~Less(at, low)
      BY <1>1, <1>4, LessAsym
    <3>2. QED
      BY <1>1, <1>4, <1>5, <1>7, <2>2, <3>1, LessTrans
  <2>4. QED
    BY <1>5, <2>1, <2>3
<1>8. CASE Less(high, x) /\ ~Less(x, low)
  <2>1. Clip(x, low, high) = high
    BY <1>8 DEF Clip
  <2>2. Round(high) \in Fraction /\ ~Less(Round(high), high)
    BY <1>1, RoundIsClose, RoundInRange, LessAsym
  <2>3. ~Less(Round(high), at) /\ ~Less(x, at)
    <3> HIDE DEF low, high, at
    <3>1. QED
      BY <1>1, <1>4, <1>5, <1>8, <2>2, LessTrans, LessAsym
  <2>4. QED
    BY <1>5, <2>1, <2>3
<1>9. QED
  BY <1>6, <1>7, <1>8 DEF Clip

\* A whole number that training clips.
LEMMA WholeAgrees ==
  ASSUME NEW split \in Learned, NEW low \in Int, NEW high \in Int, low <= high,
         NEW amount \in [OrderType -> Int],
         \A p \in OrderType : Trained(p)[split[1]] = Whole(ClipInt(amount[p], low, high)),
         NEW o \in OrderType, Served(o)[split[1]] = Whole(amount[o])
  PROVE  Less(Served(o)[split[1]], split[2]) <=> Less(Trained(o)[split[1]], split[2])
<1>1. Whole(low) \in Fraction /\ Whole(high) \in Fraction /\ ~Less(Whole(high), Whole(low))
  BY Wholes DEF Less, Whole
<1>2. \A p \in OrderType : amount[p] \in Int /\ Whole(amount[p]) \in Fraction
  BY Wholes
<1>3. \A p \in OrderType :
        Trained(p)[split[1]] = Clip(Whole(amount[p]), Whole(low), Whole(high))
  BY <1>2, ClipIntIsClip
<1>4. split[2] \in Fraction /\ Less(Whole(low), split[2]) /\ ~Less(Whole(high), split[2])
  <2>1. \A p \in OrderType :
          /\ Trained(p)[split[1]] \in Fraction
          /\ ~Less(Trained(p)[split[1]], Whole(low)) /\ ~Less(Whole(high), Trained(p)[split[1]])
    BY <1>1, <1>2, <1>3, ClipInRange
  <2>2. QED
    BY <1>1, <2>1, SplitInRange
<1>5. QED
  BY <1>1, <1>2, <1>3, <1>4, ClipKeepsSides

\* At every split that a tree can have learned, the worker's features of an order
\* go the way of those that training would have computed, though only training
\* clips and rounds them, unless the cut is within half a ten-thousandth of the
\* worker's feature.
THEOREM NoClipNeeded == ServedAsTrained
<1> SUFFICES ASSUME NEW o \in Order, o.cart >= CartMin, o.items <= MaxItems,
                    NEW split \in Learned, ~Blurred(Served(o), split)
             PROVE  Less(Served(o)[split[1]], split[2]) <=> Less(Trained(o)[split[1]], split[2])
  BY DEF ServedAsTrained
<1>t. o \in OrderType /\ split[1] \in Feature /\ split[2] \in Fraction
  BY FeatureAssumption, LearnedSplits
<1>1. CASE split[1] = "cart_value"
  BY <1>1, <1>t, CartAgrees DEF Blurred
<1>2. CASE split[1] = "item_quantity"
  <2> DEFINE x == [num |-> o.items, den |-> P95[o.category]]
  <2>1. ClipInt(o.items, 1, MaxItems) = o.items
    BY <1>t, FeatureAssumption DEF ClipInt, OrderType
  <2>2. x \in Fraction
    BY <1>t, FeatureAssumption DEF OrderType, Fraction
  <2>3. Served(o)[split[1]] = x /\ Trained(o)[split[1]] = Round(x)
    BY <1>2, <2>1 DEF Served, Trained
  <2>4. ~Near(x, split[2])
    BY <1>2, <2>3 DEF Blurred
  <2> HIDE DEF x
  <2>5. QED
    BY <1>t, <2>2, <2>3, <2>4, RoundKeepsSides
<1>3. CASE split[1] = "length"
  <2> DEFINE amount == [p \in OrderType |-> p.length]
  <2>1. amount \in [OrderType -> Int]
    BY DEF OrderType
  <2>2. \A p \in OrderType : Trained(p)[split[1]] = Whole(ClipInt(amount[p], LengthMin, LengthMax))
    BY <1>3 DEF Trained
  <2>3. Served(o)[split[1]] = Whole(amount[o])
    BY <1>3, <1>t DEF Served
  <2>4. LengthMin \in Int /\ LengthMax \in Int /\ LengthMin <= LengthMax
    BY FeatureAssumption
  <2> HIDE DEF amount
  <2>5. QED
    BY <1>t, <2>1, <2>2, <2>3, <2>4, WholeAgrees
<1>4. CASE split[1] = "age"
  <2> DEFINE amount == [p \in OrderType |-> p.age]
  <2>1. amount \in [OrderType -> Int]
    BY DEF OrderType
  <2>2. \A p \in OrderType : Trained(p)[split[1]] = Whole(ClipInt(amount[p], 0, AgeMax))
    BY <1>4 DEF Trained
  <2>3. Served(o)[split[1]] = Whole(amount[o])
    BY <1>4, <1>t DEF Served
  <2>4. 0 \in Int /\ AgeMax \in Int /\ 0 <= AgeMax
    BY FeatureAssumption
  <2> HIDE DEF amount
  <2>5. QED
    BY <1>t, <2>1, <2>2, <2>3, <2>4, WholeAgrees
<1>5. CASE split[1] \notin {"cart_value", "item_quantity", "length", "age"}
  BY <1>5, <1>t, SameFeatures
<1>6. QED
  BY <1>1, <1>2, <1>3, <1>4, <1>5

\* The exception is there for a reason: two thirds, as the worker computes it of
\* two items of a category whose large basket is three, is below a cut at 0.6667,
\* and its rounding in training is not.
THEOREM RoundingCanTell ==
  LET live == [num |-> 2, den |-> 3]
      cut  == [num |-> 6667, den |-> 10000]
  IN  Less(live, cut) /\ ~Less(Round(live), cut) /\ Near(live, cut)
<1> DEFINE live == [num |-> 2, den |-> 3]
<1>1. Nearest(live) = 6667 /\ ~HalfWay(live)
  BY DEF Nearest, HalfWay, Decimals
<1>2. Round(live) = [num |-> 6667, den |-> 10000]
  BY <1>1 DEF Round, Decimals
<1>3. QED
  BY <1>2 DEF Less, Near, Decimals

\* Every simulated order gets the tier that its training row would have got: the
\* worker's features and those of training lead to the same side of every split
\* whose cut the rounding does not reach.
THEOREM TierAsTrained == Spec => []RoutedAsTrained
<1>1. ASSUME NEW o \in Simulated, NEW split \in Learned, ~Blurred(Served(o), split)
      PROVE  SideOf(Served(o), split) = SideOf(Trained(o), split)
  BY <1>1, NoClipNeeded DEF ServedAsTrained, Simulated, SideOf
<1>2. ASSUME NEW way \in Ways PROVE way[1] = way[2]
  <2>1. PICK o \in Simulated : way \in WaysBy(Served(o), Trained(o))
    BY DEF Ways
  <2>2. PICK split \in Learned :
          ~Blurred(Served(o), split)
            /\ way = <<SideOf(Served(o), split), SideOf(Trained(o), split)>>
    BY <2>1 DEF WaysBy
  <2>3. QED
    BY <1>1, <2>2
<1>3. RoutedAsTrained
  BY <1>2, Zenon DEF RoutedAsTrained
<1>4. QED
  BY <1>3, PTL
=============================================================================
