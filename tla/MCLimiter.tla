------------------------------ MODULE MCLimiter ------------------------------
(* Instances of RateLimiter for TLC. *)
EXTENDS RateLimiter, TLC

Symmetry == Permutations(Call)
=============================================================================
