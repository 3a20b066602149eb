------------------------------ MODULE MCPayment ------------------------------
(* Instances of PaymentLink for TLC. *)
EXTENDS PaymentLink, TLC

CONSTANTS o1, o2, t1, t2, t3, t4, t5, t6

AllFaults == EnvKind
\* The copies of one order's messages ...
LoneCopies == (t1 :> o1) @@ (t2 :> o1) @@ (t3 :> o1)
\* ... with a second message of the order, and with one of another order.
AllCopies == LoneCopies @@ (t4 :> o1) @@ (t5 :> o2) @@ (t6 :> o2)

=============================================================================
