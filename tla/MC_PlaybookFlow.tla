-------------------------- MODULE MC_PlaybookFlow --------------------------
(* Instances of PlaybookFlow for TLC. *)
EXTENDS PlaybookFlow
=============================================================================
