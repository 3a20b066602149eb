---------------------------- MODULE MCThresholds ----------------------------
(* Instances of LiveRouting for TLC: the categories and clips of            *)
(* generate_data.py, and orders at and around their limits.                 *)
EXTENDS LiveRouting, TLC

Symmetry == Permutations(Row)

Medians == [Electronics |-> 4500, Apparel |-> 900, Home |-> 1800, Beauty |-> 600, Books |-> 350]
Baskets == [Electronics |-> 3, Apparel |-> 5, Home |-> 4, Beauty |-> 6, Books |-> 4]

Plain == [category |-> "Books", cart |-> 350, items |-> 1, placed |-> 720, zone |-> 0,
          pincode |-> "PIN_001", length |-> 45, age |-> 300, cod |-> TRUE, rto |-> FALSE]

\* Orders that differ from Plain in cart, basket, time, or address and age.
Purchases == {[Plain EXCEPT !.category = c, !.cart = v, !.items = n] :
               c \in DOMAIN Medians, v \in {0, 150, 349, 900, 13500, 20000, 60000},
               n \in {1, 2, 5, 10, 11}}
Times == {[Plain EXCEPT !.placed = p, !.zone = z] :
            p \in {0, 299, 300, 329, 330, 1439}, z \in {-480, 0, 330, 540}}
Others == {[Plain EXCEPT !.pincode = p, !.length = l, !.age = a, !.rto = r, !.cod = d] :
             p \in {"PIN_001", "PIN_002", "PIN_091", "110001"}, l \in {0, 10, 150, 400},
             a \in {0, 3000, 5000}, r \in BOOLEAN, d \in BOOLEAN}

Orders == Purchases \union Times \union Others
Training == {o \in Orders : o.pincode = "PIN_001" \/ (o.pincode = "PIN_002" /\ ~o.cod)}
SomeCuts == {[num |-> n, den |-> 2] : n \in {-3, -2, 0, 1, 2, 7, 8, 9, 20, 90, 300, 5999, 6000, 6001}}
          \union {[num |-> 7, den |-> 4], [num |-> 6667, den |-> 10000],
                  [num |-> 6668, den |-> 10000], [num |-> 34286, den |-> 10000]}
=============================================================================
