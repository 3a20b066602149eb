------------------------------ MODULE MCScoring ------------------------------
(* Instances of ScoringPipeline for TLC. *)
EXTENDS ScoringPipeline, TLC

Everything == EnvKind
Symmetry == Permutations(Request) \union Permutations(Worker) \union Permutations(Event)
=============================================================================
