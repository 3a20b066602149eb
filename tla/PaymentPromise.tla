---------------------------- MODULE PaymentPromise ----------------------------
(***************************************************************************)
(* What the payment link of an order promises, without tasks, retries or   *)
(* webhooks: one link is offered, the customer pays it, and the order is   *)
(* settled; nothing is ever taken back.  It is what is behind the states   *)
(* of payment_link_state (app/db/models.py), PENDING_PREPAY and PAID, and  *)
(* PaymentLink implements it where retries are safe and nobody pays early. *)
(***************************************************************************)
CONSTANTS Order, Link, NoLink

VARIABLES
  stage,   \* how far each order is
  link     \* the link it offers, or NoLink

Init ==
  /\ stage = [o \in Order |-> "open"]
  /\ link = [o \in Order |-> NoLink]

Offer(o, l) ==
  /\ stage[o] = "open"
  /\ stage' = [stage EXCEPT ![o] = "offered"]
  /\ link' = [link EXCEPT ![o] = l]

Pay(o) ==
  /\ stage[o] = "offered"
  /\ stage' = [stage EXCEPT ![o] = "paid"]
  /\ UNCHANGED link

Settle(o) ==
  /\ stage[o] = "paid"
  /\ stage' = [stage EXCEPT ![o] = "settled"]
  /\ UNCHANGED link

Next == \E o \in Order : (\E l \in Link : Offer(o, l)) \/ Pay(o) \/ Settle(o)

Spec == Init /\ [][Next]_<<stage, link>>
=============================================================================
