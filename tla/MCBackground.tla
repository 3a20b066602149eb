----------------------------- MODULE MCBackground -----------------------------
(* An instance of BackgroundTasks for TLC. *)
EXTENDS BackgroundTasks, TLC
=============================================================================
