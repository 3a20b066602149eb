------------------------------ MODULE MCPolling ------------------------------
(* Instances of ResultPolling for TLC. *)
EXTENDS ResultPolling, TLC

Survivable == {"worker_crash", "connection_lost", "key_expiry", "poll_error"}

WithLostDelete == Survivable \union {"delete_error"}

Symmetry == Permutations(Request) \union Permutations(Worker)
=============================================================================
