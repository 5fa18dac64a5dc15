---------------------------- MODULE PlaybookFlow ----------------------------
(***************************************************************************)
(* The typed playbook job.cleanup-terminal/v1 (playbooks.go), from the     *)
(* check that lets it be approved without a human to the deletion of its   *)
(* target, while the cluster finishes, removes and recreates Jobs under    *)
(* the target's name.  The Jobs and the decisions of handleApproved are    *)
(* read uncached; only the phase that routes a reconcile comes from the    *)
(* informer's cache.  A playbook that falls back to a human leaves this    *)
(* module at Pending.                                                      *)
(***************************************************************************)
EXTENDS Naturals, Sequences

CONSTANTS
  Families,  \* whether the name fits an allowlisted family: a subset of BOOLEAN
  MaxJobs,   \* bound: Jobs ever created under the target's name
  MaxFaults, \* bound: failed or ambiguous calls and crashes
  MaxStale   \* bound: reconciles started from a lagging cache

ASSUME FamiliesAssumption == Families \subseteq BOOLEAN
ASSUME BoundsAssumption == MaxJobs \in Nat /\ MaxFaults \in Nat /\ MaxStale \in Nat

VARIABLES
  family, \* the target's name fits an allowlisted family; constant
  jobs,   \* every Job ever created under that name, by UID
  req, cache, queued, rec,
  first,  \* what the approval was first pinned to (history)
  faults, stale

vars == <<family, jobs, req, cache, queued, rec, first, faults, stale>>

None == 0

\* matches is matchesTerminalJobRule; by says who removed the Job.
Job == [terminal: BOOLEAN, matches: BOOLEAN, by: {"nobody", "playbook", "others"}]

\* auto, uid and absent are PlaybookAutoApproved, -TargetUID and -TargetAbsent.
Request == [rv: Nat, phase: {"New", "Pending", "Approved", "Executed", "Failed"},
            auto: BOOLEAN, uid: Nat, absent: BOOLEAN]

NewRequest == [rv |-> 1, phase |-> "New", auto |-> FALSE, uid |-> None, absent |-> FALSE]

Pins == {"none", "absent", "pinned"}

\* u: the Job that was read.
Rec == [pc: {"idle", "prepare", "approve", "fallback", "approved", "execute", "delete",
             "executed", "failed"}, snap: Request, u: Nat]

Idle == [pc |-> "idle", snap |-> NewRequest, u |-> None]

TypeOK ==
  /\ family \in Families
  /\ jobs \in Seq(Job) /\ Len(jobs) =< MaxJobs
  /\ req \in Request /\ cache \in Request /\ req.uid \in 0..Len(jobs)
  /\ queued \in BOOLEAN /\ rec \in Rec /\ rec.u \in 0..Len(jobs)
  /\ first \in [pin: Pins, uid: 0..Len(jobs)]
  /\ faults \in 0..MaxFaults /\ stale \in 0..MaxStale

Init ==
  /\ family \in Families
  /\ jobs = << >> /\ req = NewRequest /\ cache = NewRequest /\ queued = TRUE /\ rec = Idle
  /\ first = [pin |-> "none", uid |-> None] /\ faults = 0 /\ stale = 0

-----------------------------------------------------------------------------
(* The cluster, the informer and the process.                              *)

Uids == 1..Len(jobs)

\* The UID at the target's name.
Target == IF \E u \in Uids : jobs[u].by = "nobody"
          THEN CHOOSE u \in Uids : jobs[u].by = "nobody" ELSE None

Commit(r) == req' = [r EXCEPT !.rv = req.rv + 1]

Fault == faults < MaxFaults /\ faults' = faults + 1

NoFault == UNCHANGED faults

JobCreated ==
  /\ Target = None /\ Len(jobs) < MaxJobs
  /\ \E m \in BOOLEAN : jobs' = Append(jobs, [terminal |-> FALSE, matches |-> m, by |-> "nobody"])
  /\ UNCHANGED <<family, req, cache, queued, rec, first, faults, stale>>

JobFinishes ==
  /\ Target # None /\ ~jobs[Target].terminal
  /\ jobs' = [jobs EXCEPT ![Target].terminal = TRUE]
  /\ UNCHANGED <<family, req, cache, queued, rec, first, faults, stale>>

JobRemoved ==
  /\ Target # None
  /\ jobs' = [jobs EXCEPT ![Target].by = "others"]
  /\ UNCHANGED <<family, req, cache, queued, rec, first, faults, stale>>

CacheSync ==
  /\ cache # req
  /\ cache' = req /\ queued' = TRUE
  /\ UNCHANGED <<family, jobs, req, rec, first, faults, stale>>

Crash ==
  /\ Fault
  /\ rec' = Idle /\ queued' = TRUE /\ cache' = req
  /\ UNCHANGED <<family, jobs, req, first, stale>>

-----------------------------------------------------------------------------
(* The reconcile worker.                                                   *)

End(again) == rec' = Idle /\ queued' = (queued \/ again)

Goto(r) == rec' = r /\ UNCHANGED queued

\* updateStatus: a conflict is retried on the refetched object, so the mutation
\* lands on the current one; an error may hide a committed write.
UpdateStatus(r, again) ==
  \/ Commit(r) /\ NoFault /\ End(again)
  \/ Fault /\ (Commit(r) \/ UNCHANGED req) /\ End(TRUE)

Reconcile ==
  /\ queued /\ rec.pc = "idle"
  /\ \/ cache = req /\ UNCHANGED stale
     \/ cache # req /\ stale < MaxStale /\ stale' = stale + 1
  /\ queued' = FALSE
  /\ rec' = CASE cache.phase = "New"      -> [Idle EXCEPT !.pc = "prepare", !.snap = cache]
              [] cache.phase = "Approved" -> [Idle EXCEPT !.pc = "approved", !.snap = cache]
              [] OTHER                    -> Idle
  /\ UNCHANGED <<family, jobs, req, cache, first, faults>>

\* The target as prepareAutoApprovedPlaybook wants it: absent under an allowlisted
\* family, or terminal and matching a rule.
Eligible(u) == IF u = None THEN family ELSE jobs[u].terminal /\ jobs[u].matches

\* prepareAutoApprovedPlaybook: approve and pin what was seen, or ask a human.
Prepare ==
  /\ rec.pc = "prepare"
  /\ \/ Eligible(Target) /\ Goto([rec EXCEPT !.pc = "approve", !.u = Target]) /\ NoFault
     \/ ~Eligible(Target) /\ Goto([rec EXCEPT !.pc = "fallback"]) /\ NoFault
     \/ Fault /\ End(TRUE)
  /\ UNCHANGED <<family, jobs, req, cache, first, stale>>

\* handleNew records the automatic approval.
ApprovePlaybook ==
  /\ rec.pc = "approve"
  /\ UpdateStatus([req EXCEPT !.phase = "Approved", !.auto = TRUE, !.uid = rec.u,
                              !.absent = (rec.u = None)], TRUE)
  /\ first' = IF first.pin = "none" /\ req' # req
              THEN [pin |-> IF rec.u = None THEN "absent" ELSE "pinned", uid |-> rec.u]
              ELSE first
  /\ UNCHANGED <<family, jobs, cache, stale>>

\* handleNew goes on to the human: a plain, conditional write of Pending.
FallBack ==
  /\ rec.pc = "fallback"
  /\ \/ rec.snap.rv = req.rv /\ Commit([req EXCEPT !.phase = "Pending"]) /\ NoFault
     \/ rec.snap.rv # req.rv /\ UNCHANGED req /\ NoFault
     \/ rec.snap.rv = req.rv /\ Fault /\ (Commit([req EXCEPT !.phase = "Pending"]) \/ UNCHANGED req)
  /\ End(TRUE)
  /\ UNCHANGED <<family, jobs, cache, first, stale>>

\* handleApproved refetches.
HandleApproved ==
  /\ rec.pc = "approved"
  /\ \/ req.phase = "Approved" /\ Goto([rec EXCEPT !.pc = "execute", !.snap = req]) /\ NoFault
     \/ req.phase # "Approved" /\ End(TRUE) /\ NoFault
     \/ Fault /\ End(TRUE)
  /\ UNCHANGED <<family, jobs, req, cache, first, stale>>

\* Mutant: a target that changed sends the request back to the human.
VerdictAskHuman(s, u) ==
  IF u = None THEN "executed" ELSE IF u = s.uid /\ jobs[u].terminal THEN "delete" ELSE "pending"

\* What executeAutoApprovedPlaybook decides from the pinned status s when it finds
\* the Job u at the name.
Verdict(s, u) ==
  IF u = None THEN "executed"
  ELSE IF ~s.absent /\ u = s.uid /\ jobs[u].terminal THEN "delete" ELSE "failed"

\* Mutant: while another Job holds the name, wait for it to go.
ExecuteWaiting ==
  /\ rec.pc = "execute"
  /\ IF Target = None \/ Target = rec.snap.uid
     THEN Goto([rec EXCEPT !.pc = Verdict(rec.snap, Target), !.u = Target])
     ELSE End(TRUE)
  /\ UNCHANGED <<family, jobs, req, cache, first, faults, stale>>

ExecutePlaybook ==
  /\ rec.pc = "execute"
  /\ \/ Goto([rec EXCEPT !.pc = Verdict(rec.snap, Target), !.u = Target]) /\ NoFault
     \/ Fault /\ End(TRUE)
  /\ UNCHANGED <<family, jobs, req, cache, first, stale>>

\* Mutants: the deletion has no UID precondition; its error is ignored.
DeleteByName ==
  /\ rec.pc = "delete"
  /\ jobs' = IF Target # None THEN [jobs EXCEPT ![Target].by = "playbook"] ELSE jobs
  /\ Goto([rec EXCEPT !.pc = "executed"]) /\ NoFault
  /\ UNCHANGED <<family, req, cache, first, stale>>

DeleteBestEffort ==
  /\ rec.pc = "delete"
  /\ \/ Target = rec.u /\ jobs' = [jobs EXCEPT ![rec.u].by = "playbook"] /\ NoFault
     \/ Target # rec.u /\ UNCHANGED jobs /\ NoFault
     \/ UNCHANGED jobs /\ Fault
  /\ Goto([rec EXCEPT !.pc = "executed"])
  /\ UNCHANGED <<family, req, cache, first, stale>>

\* The Delete with the UID precondition: NotFound is success, a Job that took the
\* name meanwhile is a conflict, and a reported error may have deleted.
DeleteTarget ==
  LET deleted == jobs' = [jobs EXCEPT ![rec.u].by = "playbook"]
  IN  /\ rec.pc = "delete"
      /\ \/ Target = rec.u /\ deleted /\ Goto([rec EXCEPT !.pc = "executed"]) /\ NoFault
         \/ Target = None /\ UNCHANGED jobs /\ Goto([rec EXCEPT !.pc = "executed"]) /\ NoFault
         \/ Target \notin {None, rec.u} /\ UNCHANGED jobs /\ End(TRUE) /\ NoFault
         \/ UNCHANGED jobs /\ End(TRUE) /\ Fault
         \/ Target = rec.u /\ deleted /\ End(TRUE) /\ Fault
      /\ UNCHANGED <<family, req, cache, first, stale>>

MarkPlaybookExecuted ==
  /\ rec.pc = "executed"
  /\ UpdateStatus([req EXCEPT !.phase = "Executed"], FALSE)
  /\ UNCHANGED <<family, jobs, cache, first, stale>>

\* markFailed: the target appeared, was replaced, or is active again.
MarkFailed ==
  /\ rec.pc = "failed"
  /\ UpdateStatus([req EXCEPT !.phase = "Failed"], FALSE)
  /\ UNCHANGED <<family, jobs, cache, first, stale>>

RecStep ==
  \/ Prepare \/ ApprovePlaybook \/ FallBack \/ HandleApproved \/ ExecutePlaybook
  \/ DeleteTarget \/ MarkPlaybookExecuted \/ MarkFailed

Next ==
  \/ JobCreated \/ JobFinishes \/ JobRemoved \/ CacheSync \/ Crash \/ Reconcile \/ RecStep

\* The controller and its informer run; the cluster owes nothing.
Fairness == WF_vars(CacheSync) /\ WF_vars(Reconcile) /\ WF_vars(RecStep)

Spec == Init /\ [][Next]_vars

FairSpec == Spec /\ Fairness

-----------------------------------------------------------------------------
(* Properties.                                                             *)

\* Whatever happens under the target's name between the check, the approval, the
\* re-check and the Delete, the playbook removes only finished Jobs that match an
\* allowlist rule (prepareAutoApprovedPlaybook, executeAutoApprovedPlaybook).
DeletesOnlyVetted ==
  \A u \in Uids : jobs[u].by = "playbook" => jobs[u].terminal /\ jobs[u].matches

\* Executed means that the Job the approval is pinned to is gone, or its deletion was
\* accepted, also after a conflicting, failed or ambiguous Delete (markPlaybookExecuted).
ExecutedMeansGone ==
  req.phase = "Executed" /\ req.uid # None => jobs[req.uid].by # "nobody"

\* An automatically approved playbook ends, whatever replaces its target.
PlaybookEnds == req.phase = "Approved" ~> req.phase \in {"Executed", "Failed"}

\* "A missing target is recorded as a checked no-op, so a later Job with the same
\* name cannot be deleted" (README.md), and the recorded UID "pins that automatic
\* approval to the exact object that passed" (types.go): no other Job is deleted.
PinHolds ==
  \A u \in Uids : jobs[u].by = "playbook" => first = [pin |-> "pinned", uid |-> u]
=============================================================================
