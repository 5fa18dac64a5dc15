---------------------------- MODULE MC_RetryFlow ----------------------------
(* Instances of RetryFlow for TLC. *)
EXTENDS RetryFlow
=============================================================================
