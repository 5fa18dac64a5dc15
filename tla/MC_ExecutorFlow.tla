-------------------------- MODULE MC_ExecutorFlow --------------------------
(* Instances of ExecutorFlow for TLC. *)
EXTENDS ExecutorFlow
=============================================================================
