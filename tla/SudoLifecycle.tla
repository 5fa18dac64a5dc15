--------------------------- MODULE SudoLifecycle ---------------------------
(***************************************************************************)
(* What sudo-service promises about one SudoRequest, with no controller,   *)
(* cache, worker or HTTP handler in sight: the phases a request moves      *)
(* through (types.go, PhasePending .. PhaseExpired), and the one approval  *)
(* link that is live while, and only while, a human decision is open.      *)
(***************************************************************************)
EXTENDS Naturals

VARIABLES phase, link

None == 0

Phases == {"New", "Pending", "Approved", "Denied", "Executed", "Failed", "Expired"}

Terminal == {"Denied", "Executed", "Failed", "Expired"}

LInit == phase = "New" /\ link = None

\* The controller refuses the spec, or approves it by rule, without a human.
SettleWithoutHuman ==
  /\ phase = "New"
  /\ phase' \in {"Denied", "Approved"}
  /\ UNCHANGED link

\* A human is asked: exactly one approval link becomes live.
OpenForDecision ==
  /\ phase = "New"
  /\ phase' = "Pending"
  /\ link' \in Nat \ {None}

\* Approve, deny or expiry: the first one wins and kills the link.
Decide ==
  /\ phase = "Pending"
  /\ phase' \in {"Approved", "Denied", "Expired"}
  /\ link' = None

\* The approved workload is reported, once.
Finish ==
  /\ phase = "Approved"
  /\ phase' \in {"Executed", "Failed"}
  /\ UNCHANGED link

LNext == SettleWithoutHuman \/ OpenForDecision \/ Decide \/ Finish

LSpec == LInit /\ [][LNext]_<<phase, link>>
=============================================================================
