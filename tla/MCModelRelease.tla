---------------------------- MODULE MCModelRelease ----------------------------
(* Instances of ModelRelease for TLC. *)
EXTENDS ModelRelease, TLC

Symmetry == Permutations(Worker)
=============================================================================
