-------------------------- MODULE MC_ApprovalFlow --------------------------
(* Instances of ApprovalFlow for TLC. *)
EXTENDS ApprovalFlow, TLC

\* Handlers are interchangeable; used by the safety run only.
Symmetry == Permutations(Handlers)
=============================================================================
