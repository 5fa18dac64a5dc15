---------------------------- MODULE ExecutorFlow ----------------------------
(***************************************************************************)
(* The execution of one Approved SudoRequest: handleApproved and the       *)
(* deletion path of Reconcile (reconciler.go) with the Job handling of     *)
(* executor.go, against a cluster that runs pods, garbage-collects Jobs    *)
(* and their dependents asynchronously, and may fail any call.             *)
(*                                                                         *)
(* req is the request in the apiserver and cache the informer's copy of    *)
(* it, which only routes a reconcile and drives the deletion path:         *)
(* handleApproved refetches uncached.  job is the Job object at the minted *)
(* name, pods[u] the pod of the Job whose UID is u; a pod outlives its     *)
(* deleted Job until the cluster reaps it.                                 *)
(***************************************************************************)
EXTENDS Naturals, Sequences

CONSTANTS
  CrossNamespace, \* which placements to explore: a subset of BOOLEAN
  Stdin,          \* whether the spec may carry stdin: a subset of BOOLEAN
  Sidecar,        \* whether a webhook may inject a sidecar: a subset of BOOLEAN
  MaxFaults       \* bound: failed or ambiguous calls, crashes, lost pods, foreign Jobs

ASSUME ScopeAssumption ==
  CrossNamespace \subseteq BOOLEAN /\ Stdin \subseteq BOOLEAN /\ Sidecar \subseteq BOOLEAN
ASSUME MaxFaultsAssumption == MaxFaults \in Nat

VARIABLES
  scope,   \* the request's placement, stdin and the cluster's webhook; constant
  req, cache,
  job,     \* the Job object at status.executorJobName; uid None when absent
  pods,    \* one pod per Job ever created under that name, by UID
  stdin,   \* UID of the Job owning the stdin Secret, None when it does not exist
  late,    \* ExecutorStartDeadline has passed for the current Job
  queued,  \* the workqueue holds the request, or its RequeueAfter is pending
  rec,     \* the reconcile in progress
  faults

vars == <<scope, req, cache, job, pods, stdin, late, queued, rec, faults>>

None == 0

Codes == {"none", "zero", "nonzero"}

Outputs == {"none", "Available", "CaptureFailed", "DeliveryFailed"}

Reasons == {"none", "rejected", "foreign", "replaced", "timeout", "disappeared", "undetermined"}

\* The fields of the SudoRequest that handleApproved reads or writes.  named is
\* executorJobName # "", exit is exitCode, output summarises the output fields.
Request == [rv: Nat, exists: BOOLEAN, phase: {"Approved", "Executed", "Failed"},
            named: BOOLEAN, uid: Nat, exit: Codes, output: Outputs, reason: Reasons,
            finalizer: BOOLEAN, deleting: BOOLEAN]

ApprovedRequest ==
  [rv |-> 1, exists |-> TRUE, phase |-> "Approved", named |-> FALSE, uid |-> None,
   exit |-> "none", output |-> "none", reason |-> "none", finalizer |-> FALSE, deleting |-> FALSE]

NoSnap == [ApprovedRequest EXCEPT !.rv = 0]

Job == [uid: Nat, finished: BOOLEAN, terminating: BOOLEAN]

NoJob == [uid |-> None, finished |-> FALSE, terminating |-> FALSE]

\* ours, started and code outlive the pod: they record whose Job it was of, and
\* what the cluster really ran.
Pod == [state: {"none", "waiting", "running", "ended", "gone"},
        ours: BOOLEAN, started: BOOLEAN, code: Codes]

NewPod(ours) == [state |-> "none", ours |-> ours, started |-> FALSE, code |-> "none"]

RecPCs == {"idle", "finalize", "release", "approved", "addFinalizer", "mint", "findJob",
           "create", "stdin", "recordUID", "observe", "capture", "recordResult", "teardown",
           "conclude", "stopAndFail", "fail"}

\* u and fresh: the Job found or created; finished: what was read of its counts;
\* exit/output: the captured result; reason: why the request is being failed.
Rec == [pc: RecPCs, snap: Request, u: Nat, fresh: BOOLEAN, finished: BOOLEAN,
        exit: Codes, output: Outputs, reason: Reasons]

Idle == [pc |-> "idle", snap |-> NoSnap, u |-> None, fresh |-> FALSE, finished |-> FALSE,
         exit |-> "none", output |-> "none", reason |-> "none"]

TypeOK ==
  /\ scope \in [cross: CrossNamespace, stdin: Stdin, sidecar: Sidecar]
  /\ req \in Request /\ cache \in Request
  /\ job \in Job /\ pods \in Seq(Pod) /\ stdin \in Nat
  /\ job.uid \in 0..Len(pods) /\ stdin \in 0..Len(pods)
  /\ req.uid \in 0..Len(pods) /\ rec.u \in 0..Len(pods)
  /\ late \in BOOLEAN /\ queued \in BOOLEAN /\ rec \in Rec
  /\ faults \in 0..MaxFaults

Init ==
  /\ scope \in [cross: CrossNamespace, stdin: Stdin, sidecar: Sidecar]
  /\ req = ApprovedRequest /\ cache = ApprovedRequest
  /\ job = NoJob /\ pods = << >> /\ stdin = None /\ late = FALSE
  /\ queued = TRUE /\ rec = Idle /\ faults = 0

-----------------------------------------------------------------------------
(* The apiserver, the informer and the process.                            *)

Commit(r) == req' = [r EXCEPT !.rv = req.rv + 1]

NoCommit == UNCHANGED req

Fault == faults < MaxFaults /\ faults' = faults + 1

NoFault == UNCHANGED faults

\* The informer catches up, after any lag, and enqueues the request.
CacheSync ==
  /\ cache # req
  /\ cache' = req /\ queued' = TRUE
  /\ UNCHANGED <<scope, req, job, pods, stdin, late, rec, faults>>

\* The controller dies and is restarted; the informer lists afresh.
Crash ==
  /\ Fault
  /\ rec' = Idle /\ queued' = TRUE
  /\ cache' = req
  /\ UNCHANGED <<scope, req, job, pods, stdin, late>>

\* The user deletes the request: at once, or once the finalizer is released.
UserDelete ==
  /\ req.exists /\ ~req.deleting
  /\ IF req.finalizer THEN Commit([req EXCEPT !.deleting = TRUE])
                      ELSE Commit([req EXCEPT !.exists = FALSE])
  /\ UNCHANGED <<scope, cache, job, pods, stdin, late, queued, rec, faults>>

(* The cluster: Job controller, kubelet, TTL controller, garbage collector. *)

\* The Job and its pod as handleApproved reads them.
JobPod(u) == IF u # None /\ pods[u].state \in {"waiting", "running", "ended"}
             THEN pods[u] ELSE NewPod(FALSE)

ExecutorTerminated(u) == JobPod(u).state = "ended" /\ JobPod(u).started

SetPod(u, p) == pods' = [pods EXCEPT ![u] = p]

Live(u) == job.uid = u /\ ~job.terminating

PodScheduled(u) ==
  /\ Live(u) /\ pods[u].state = "none"
  /\ SetPod(u, [pods[u] EXCEPT !.state = "waiting"])
  /\ UNCHANGED <<scope, req, cache, job, stdin, late, queued, rec, faults>>

\* The pod blocks on its stdin mount until the Secret exists.  A pod whose Job
\* was deleted in the background may still start before it is reaped.
ExecutorStarts(u) ==
  /\ pods[u].state = "waiting"
  /\ scope.stdin => stdin # None
  /\ SetPod(u, [pods[u] EXCEPT !.state = "running", !.started = TRUE])
  /\ UNCHANGED <<scope, req, cache, job, stdin, late, queued, rec, faults>>

ExecutorExits(u) ==
  /\ pods[u].state = "running"
  /\ \E c \in {"zero", "nonzero"} : SetPod(u, [pods[u] EXCEPT !.state = "ended", !.code = c])
  /\ UNCHANGED <<scope, req, cache, job, stdin, late, queued, rec, faults>>

InitContainerFails(u) ==
  /\ pods[u].state = "waiting"
  /\ SetPod(u, [pods[u] EXCEPT !.state = "ended", !.code = "nonzero"])
  /\ UNCHANGED <<scope, req, cache, job, stdin, late, queued, rec, faults>>

\* Eviction or node loss: the pod object goes, and with it its logs.
PodLost(u) ==
  /\ Fault
  /\ pods[u].state \in {"waiting", "running", "ended"}
  /\ SetPod(u, [pods[u] EXCEPT !.state = "gone"])
  /\ UNCHANGED <<scope, req, cache, job, stdin, late, queued, rec>>

\* The Job's succeeded/failed count advances once its pod is over (backoffLimit 0);
\* an injected sidecar delays that for as long as it runs.
JobFinishes ==
  /\ job.uid # None /\ ~job.finished /\ pods[job.uid].state \in {"ended", "gone"}
  /\ job' = [job EXCEPT !.finished = TRUE]
  /\ UNCHANGED <<scope, req, cache, pods, stdin, late, queued, rec, faults>>

\* ttlSecondsAfterFinished, or a deletion taking effect.
JobGone ==
  /\ job.uid # None /\ (job.finished \/ job.terminating)
  /\ job' = NoJob /\ late' = FALSE
  /\ UNCHANGED <<scope, req, cache, pods, stdin, queued, rec, faults>>

\* Background propagation: dependents go after their owner, in no set order.
PodReaped(u) ==
  /\ job.uid # u /\ pods[u].state # "gone"
  /\ SetPod(u, [pods[u] EXCEPT !.state = "gone"])
  /\ UNCHANGED <<scope, req, cache, job, stdin, late, queued, rec, faults>>

StdinReaped ==
  /\ stdin # None /\ stdin # job.uid
  /\ stdin' = None
  /\ UNCHANGED <<scope, req, cache, job, pods, late, queued, rec, faults>>

\* A controller-namespace Job is owned by the request and goes with it.
OwnerCascade ==
  /\ ~req.exists /\ ~scope.cross /\ job.uid # None /\ ~job.terminating
  /\ job' = [job EXCEPT !.terminating = TRUE]
  /\ UNCHANGED <<scope, req, cache, pods, stdin, late, queued, rec, faults>>

\* Someone else's Job takes the name (possible in a target namespace only).
ForeignJob ==
  /\ Fault
  /\ scope.cross /\ req.named /\ job.uid = None
  /\ pods' = Append(pods, NewPod(FALSE))
  /\ job' = [NoJob EXCEPT !.uid = Len(pods) + 1]
  /\ UNCHANGED <<scope, req, cache, stdin, late, queued, rec>>

StartDeadlinePasses ==
  /\ job.uid # None /\ ~late /\ ~JobPod(job.uid).started
  /\ late' = TRUE
  /\ UNCHANGED <<scope, req, cache, job, pods, stdin, queued, rec, faults>>

-----------------------------------------------------------------------------
(* The reconcile worker.                                                   *)

\* An error, Requeue and RequeueAfter all bring the request back.
End(again) == rec' = Idle /\ queued' = (queued \/ again)

Step(r) == rec' = r /\ UNCHANGED queued

Env == UNCHANGED <<scope, cache, pods, stdin, late>>

\* stopJob deletes by name, in the background; an absent Job is no error.
StopJob == job' = IF job.uid = None THEN job ELSE [job EXCEPT !.terminating = TRUE]

\* updateStatus: conflicts are retried on the refetched object, so the mutation
\* lands on the current one; what remains is success, a missing object, or an
\* error that may hide a committed write.
UpdateStatus(r, ok, failed) ==
  \/ req.exists /\ Commit(r) /\ NoFault /\ ok
  \/ ~req.exists /\ NoCommit /\ NoFault /\ failed
  \/ req.exists /\ Fault /\ (NoCommit \/ Commit(r)) /\ failed

\* Reconcile: the cached read, the deletion branch and the switch on the phase.
Reconcile ==
  /\ queued /\ rec.pc = "idle"
  /\ queued' = FALSE
  /\ rec' = IF ~cache.exists \/ (cache.deleting /\ ~cache.finalizer) THEN Idle
            ELSE IF cache.deleting THEN [Idle EXCEPT !.pc = "finalize", !.snap = cache]
            ELSE IF cache.phase = "Approved" THEN [Idle EXCEPT !.pc = "approved", !.snap = cache]
            ELSE Idle
  /\ NoCommit /\ NoFault /\ Env /\ UNCHANGED job

\* Deletion: stop the Job at the minted name before the finalizer goes.
FinalizeStopJob ==
  /\ rec.pc = "finalize"
  /\ \/ /\ IF rec.snap.named THEN StopJob ELSE UNCHANGED job
        /\ Step([rec EXCEPT !.pc = "release"]) /\ NoFault
     \/ rec.snap.named /\ UNCHANGED job /\ End(TRUE) /\ Fault
  /\ NoCommit /\ Env

\* Mutant: the error of the Update is dropped.
ReleaseAndForget ==
  /\ rec.pc = "release"
  /\ \/ /\ rec.snap.rv = req.rv /\ NoFault
        /\ Commit([req EXCEPT !.finalizer = FALSE, !.exists = FALSE])
     \/ rec.snap.rv # req.rv /\ NoFault /\ NoCommit
     \/ rec.snap.rv = req.rv /\ Fault /\ NoCommit
  /\ End(FALSE) /\ Env /\ UNCHANGED job

\* RemoveFinalizer and Update: the cached resourceVersion must be current.
FinalizeRelease ==
  LET released == Commit([req EXCEPT !.finalizer = FALSE, !.exists = FALSE])
  IN  /\ rec.pc = "release"
      /\ \/ rec.snap.rv = req.rv /\ released /\ NoFault /\ End(FALSE)
         \/ rec.snap.rv # req.rv /\ NoCommit /\ NoFault /\ End(TRUE)
         \/ rec.snap.rv = req.rv /\ (NoCommit \/ released) /\ Fault /\ End(TRUE)
      /\ Env /\ UNCHANGED job

\* An uncached Get or List fails: the reconcile ends with the error.
ReadFails ==
  /\ rec.pc \in {"approved", "findJob", "create", "observe"}
  /\ Fault /\ End(TRUE)
  /\ NoCommit /\ Env /\ UNCHANGED job

\* handleApproved: the uncached refetch and the decisions it gates.
HandleApproved ==
  /\ rec.pc = "approved"
  /\ IF ~req.exists THEN End(FALSE)
     ELSE IF req.phase # "Approved" THEN End(TRUE)
     ELSE Step([rec EXCEPT !.snap = req,
                !.pc = IF scope.cross /\ ~req.finalizer THEN "addFinalizer"
                       ELSE IF ~req.named THEN "mint"
                       ELSE IF req.uid = None THEN "findJob" ELSE "observe"])
  /\ NoCommit /\ NoFault /\ Env /\ UNCHANGED job

AddFinalizer ==
  /\ rec.pc = "addFinalizer"
  /\ \/ /\ req.exists /\ rec.snap.rv = req.rv
        /\ \/ Commit([req EXCEPT !.finalizer = TRUE]) /\ (NoFault \/ Fault)
           \/ NoCommit /\ Fault
     \/ ~(req.exists /\ rec.snap.rv = req.rv) /\ NoCommit /\ NoFault
  /\ End(TRUE) /\ Env /\ UNCHANGED job

MintNames ==
  /\ rec.pc = "mint"
  /\ UpdateStatus([req EXCEPT !.named = TRUE], End(TRUE), End(TRUE))
  /\ Env /\ UNCHANGED job

\* findOrCreateJob: wait out a terminating Job, adopt one in the controller
\* namespace, refuse one elsewhere, create when there is none.  A forbidden Get is
\* as permanent as a forbidden Create.
FindJob ==
  /\ rec.pc = "findJob"
  /\ \/ job.terminating /\ End(TRUE) /\ NoFault
     \/ /\ job.uid # None /\ ~job.terminating /\ NoFault
        /\ IF scope.cross
           THEN Step([rec EXCEPT !.pc = "stopAndFail", !.reason = "foreign"])
           ELSE Step([rec EXCEPT !.pc = "stdin", !.u = job.uid])
     \/ job.uid = None /\ Step([rec EXCEPT !.pc = "create"]) /\ NoFault
     \/ Step([rec EXCEPT !.pc = "stopAndFail", !.reason = "rejected"]) /\ Fault
  /\ NoCommit /\ Env /\ UNCHANGED job

\* The SA-token check and the Create.  A refusal (disallowed Secret, Invalid,
\* Forbidden, no namespace) is permanent; another error may have created the Job.
CreateJob ==
  LET u == Len(pods) + 1
      created == pods' = Append(pods, NewPod(TRUE)) /\ job' = [NoJob EXCEPT !.uid = u]
  IN  /\ rec.pc = "create"
      /\ \/ job.uid = None /\ created /\ NoFault
            /\ Step([rec EXCEPT !.pc = "stdin", !.u = u, !.fresh = TRUE])
         \/ job.uid # None /\ End(TRUE) /\ NoFault /\ UNCHANGED <<job, pods>>
         \/ /\ Fault /\ UNCHANGED <<job, pods>>
            /\ Step([rec EXCEPT !.pc = "stopAndFail", !.reason = "rejected"])
         \/ /\ Fault /\ End(TRUE)
            /\ UNCHANGED <<job, pods>> \/ (job.uid = None /\ created)
      /\ NoCommit /\ UNCHANGED <<scope, cache, stdin, late>>

\* ensureStdinSecret.  A Secret of that name owned by another Job is foreign, and
\* one that vanishes between Create and Get is a permanent NotFound, as a forbidden
\* Create is permanent; after a fresh Create any failure rolls the Job back.
EnsureStdin ==
  LET rollback == IF rec.fresh THEN StopJob ELSE UNCHANGED job
  IN  /\ rec.pc = "stdin"
      /\ \/ /\ ~scope.stdin \/ stdin = rec.u
            /\ \/ Step([rec EXCEPT !.pc = "recordUID"]) /\ NoFault
               \/ scope.stdin /\ End(TRUE) /\ Fault
            /\ UNCHANGED <<job, stdin>>
         \/ /\ scope.stdin /\ stdin = None
            /\ \/ stdin' = rec.u /\ NoFault /\ UNCHANGED job /\ Step([rec EXCEPT !.pc = "recordUID"])
               \/ stdin' \in {None, rec.u} /\ Fault /\ rollback /\ End(TRUE)
               \/ stdin' \in {None, rec.u} /\ Fault /\ UNCHANGED job /\ End(TRUE)
               \/ /\ UNCHANGED stdin /\ Fault /\ rollback
                  /\ Step([rec EXCEPT !.pc = "stopAndFail", !.reason = "rejected"])
         \/ /\ scope.stdin /\ stdin \notin {None, rec.u}
            /\ \/ /\ rollback /\ NoFault
                  /\ \/ /\ Step([rec EXCEPT !.pc = "stopAndFail", !.reason = "foreign"])
                        /\ UNCHANGED stdin
                     \/ /\ Step([rec EXCEPT !.pc = "stopAndFail", !.reason = "rejected"])
                        /\ stdin # job.uid /\ stdin' = None
               \/ rec.fresh /\ UNCHANGED <<job, stdin>> /\ Fault /\ End(TRUE)
      /\ NoCommit /\ UNCHANGED <<scope, cache, pods, late>>

\* Record the UID; when that fails the Job is rolled back, at best effort.
RecordUID ==
  /\ rec.pc = "recordUID"
  /\ UpdateStatus([req EXCEPT !.uid = IF @ = None THEN rec.u ELSE @],
                  End(TRUE) /\ UNCHANGED job,
                  End(TRUE) /\ (StopJob \/ UNCHANGED job))
  /\ Env

Recorded(r) == r.exit # "none" /\ r.output # "none"

(* Mutants of the three definitions below. *)
NeverReplaced == FALSE
NoStartDeadline(u) == FALSE
RecreateMissingJob == Step([rec EXCEPT !.pc = "create"])

\* "A different Job now occupies our name."
Replaced == job.uid \notin {None, rec.snap.uid}

\* executorStartTimedOut.
StartTimedOut(u) == late /\ ~JobPod(u).started

\* The recorded Job is gone: conclude from a recorded result, else fail.
JobMissing ==
  Step(IF Recorded(rec.snap)
       THEN [rec EXCEPT !.pc = "conclude", !.exit = rec.snap.exit, !.output = rec.snap.output]
       ELSE [rec EXCEPT !.pc = "fail", !.reason = "disappeared"])

\* handleApproved on a recorded Job: replaced, gone, still running, or done.
Observe ==
  /\ rec.pc = "observe"
  /\ \/ Replaced /\ Step([rec EXCEPT !.pc = "stopAndFail", !.reason = "replaced"])
     \/ job.uid = None /\ JobMissing
     \/ /\ job.uid # None /\ ~Replaced
        /\ IF job.finished \/ ExecutorTerminated(job.uid)
           THEN Step([rec EXCEPT !.pc = "capture", !.u = job.uid, !.finished = job.finished])
           ELSE IF StartTimedOut(job.uid)
           THEN Step([rec EXCEPT !.pc = "stopAndFail", !.reason = "timeout"])
           ELSE End(TRUE)
  /\ NoCommit /\ NoFault /\ Env /\ UNCHANGED job

\* Where a captured result goes: straight to the terminal write when the Job has
\* finished; otherwise it is recorded first and the Job torn down afterwards.
Captured(code, out) ==
  [rec EXCEPT !.exit = code, !.output = out,
              !.pc = IF rec.finished THEN "conclude"
                     ELSE IF rec.snap.exit = "none" THEN "recordResult" ELSE "teardown"]

\* Mutant: only a terminated executor container has an exit code.
CaptureExecutorOnly ==
  LET pod == JobPod(rec.u)
  IN  /\ rec.pc = "capture" /\ NoFault
      /\ IF pod.state = "ended" /\ pod.started THEN Step(Captured(pod.code, "Available"))
         ELSE IF rec.finished THEN Step([rec EXCEPT !.pc = "fail", !.reason = "undetermined"])
         ELSE End(TRUE)
      /\ NoCommit /\ Env /\ UNCHANGED job

\* captureJobOutput: the pod's terminated container, its logs, the output Secret.
CaptureOutput ==
  LET pod == JobPod(rec.u)
  IN  /\ rec.pc = "capture"
      /\ \/ pod.state # "ended" /\ NoFault
            /\ IF rec.finished THEN Step([rec EXCEPT !.pc = "fail", !.reason = "undetermined"])
                               ELSE End(TRUE)
         \/ pod.state = "ended" /\ NoFault /\ Step(Captured(pod.code, "Available"))
         \/ /\ pod.state = "ended" /\ Fault
            /\ IF rec.finished
               THEN \/ \E out \in {"CaptureFailed", "DeliveryFailed"} :
                         Step(Captured(pod.code, out))
                    \/ Step([rec EXCEPT !.pc = "fail", !.reason = "undetermined"])
               ELSE End(TRUE)
      /\ NoCommit /\ Env /\ UNCHANGED job

WithResult(r) == [r EXCEPT !.exit = rec.exit, !.output = rec.output]

\* Sidecar, first phase: make the result durable while still Approved.
RecordResult ==
  /\ rec.pc = "recordResult"
  /\ UpdateStatus(WithResult(req), End(TRUE), End(TRUE))
  /\ Env /\ UNCHANGED job

\* Sidecar, second phase: stop the Job, then go terminal.
Teardown ==
  /\ rec.pc = "teardown"
  /\ \/ StopJob /\ NoFault /\ Step([rec EXCEPT !.pc = "conclude"])
     \/ UNCHANGED job /\ Fault /\ End(TRUE)
  /\ NoCommit /\ Env

\* finalizeFromRecordedResult.
Conclude ==
  /\ rec.pc = "conclude"
  /\ UpdateStatus([WithResult(req) EXCEPT !.phase = IF rec.exit = "zero" THEN "Executed" ELSE "Failed"],
                  End(FALSE), End(TRUE))
  /\ Env /\ UNCHANGED job

\* Mutant: stopping the Job is best effort.
StopBestEffort ==
  /\ rec.pc = "stopAndFail"
  /\ (StopJob /\ NoFault) \/ (UNCHANGED job /\ Fault)
  /\ Step([rec EXCEPT !.pc = "fail"])
  /\ NoCommit /\ Env

\* failApproved: stopping the Job at the minted name comes first.
StopAndFail ==
  /\ rec.pc = "stopAndFail"
  /\ \/ StopJob /\ NoFault /\ Step([rec EXCEPT !.pc = "fail"])
     \/ UNCHANGED job /\ Fault /\ End(TRUE)
  /\ NoCommit /\ Env

\* markFailed.
MarkFailed ==
  /\ rec.pc = "fail"
  /\ UpdateStatus([req EXCEPT !.phase = "Failed", !.reason = rec.reason], End(FALSE), End(TRUE))
  /\ Env /\ UNCHANGED job

RecStep ==
  \/ FinalizeStopJob \/ FinalizeRelease \/ HandleApproved \/ AddFinalizer \/ MintNames
  \/ FindJob \/ CreateJob \/ EnsureStdin \/ RecordUID \/ Observe \/ CaptureOutput
  \/ RecordResult \/ Teardown \/ Conclude \/ StopAndFail \/ MarkFailed \/ ReadFails

ClusterStep ==
  \/ \E u \in 1..Len(pods) : \/ PodScheduled(u) \/ ExecutorStarts(u) \/ ExecutorExits(u)
                             \/ InitContainerFails(u) \/ PodLost(u) \/ PodReaped(u)
  \/ JobFinishes \/ JobGone \/ StdinReaped \/ OwnerCascade \/ ForeignJob \/ StartDeadlinePasses

Next == CacheSync \/ Crash \/ UserDelete \/ Reconcile \/ RecStep \/ ClusterStep

\* The controller and its informer run; deletions complete; a clock passes; a
\* started command ends, and without a sidecar its Job is then counted.  Nothing
\* makes a pod start: the start deadline is for the ones that never do.
Fairness ==
  /\ WF_vars(CacheSync) /\ WF_vars(Reconcile) /\ WF_vars(RecStep)
  /\ WF_vars(job.terminating /\ JobGone)
  /\ WF_vars(~(scope.sidecar /\ ExecutorTerminated(job.uid)) /\ JobFinishes)
  /\ WF_vars(StdinReaped) /\ WF_vars(StartDeadlinePasses)
  /\ WF_vars(\E u \in 1..Len(pods) : ExecutorExits(u))

Spec == Init /\ [][Next]_vars

FairSpec == Spec /\ Fairness

-----------------------------------------------------------------------------
(* Properties.                                                             *)

Over == ~req.exists \/ req.phase # "Approved"

\* No executor Job of ours keeps running once nobody will look at it again: when
\* the request is terminal, or deleted, the Job has finished or is being stopped
\* (failApproved, the sidecar teardown, the executor-cleanup finalizer).  In the
\* controller namespace a deleted request leaves this to the ownerRef cascade.
NoOrphanWorkload ==
  Over /\ (req.exists \/ scope.cross) =>
    \/ job.uid = None \/ job.finished \/ job.terminating
    \/ ~pods[job.uid].ours

\* The result reported is the approved workload's own: a recorded exit code is
\* that of the pod of the recorded Job UID, never of a Job that took its name,
\* and Executed means that this pod exited with 0 (handleApproved's UID check).
OwnResult ==
  /\ req.exit # "none" => req.uid # None /\ req.exit = pods[req.uid].code
  /\ req.phase = "Executed" => req.exit = "zero"

\* The outcome of a finished command is lost only with its pod or to a failed call:
\* without a fault no request fails as undetermined while the pod is still there to
\* be read, whichever of its containers ended it (captureJobOutput, podTerminated).
OutcomeReported ==
  req.reason = "undetermined" /\ faults = 0 => pods[req.uid].state = "gone"

\* Once the Job UID is recorded no further Job is created: a Job that is gone
\* fails the request instead of replaying the command (types.go, ExecutorJobUID).
NoReplayOnceRecorded ==
  [][req.uid # None => \A u \in 1..Len(pods') : pods'[u].ours => u \in 1..Len(pods)]_vars

\* An approved request that is not deleted comes to an end: a result, a failure,
\* or the start deadline -- also when calls fail and the controller restarts.
ApprovedTerminates == [](req.exists /\ req.phase = "Approved" => <>Over)

\* A deleted request is released: its finalizer never wedges it.
DeletionCompletes == req.deleting ~> ~req.exists

\* The command of one approval starts at most once (types.go: "created then
\* GC'd ... fail rather than replay").
RunsAtMostOnce ==
  \A u, v \in 1..Len(pods) :
    pods[u].ours /\ pods[v].ours /\ pods[u].started /\ pods[v].started => u = v

\* "Once ExitCode is known, output failures must not rewrite the command's
\* outcome" (executor.go, capturedOutput): a recorded result is what is reported.
RecordedOutcomeKept ==
  [][Recorded(req) => /\ req'.exit = req.exit /\ req'.output = req.output
                      /\ req'.phase = "Failed" => req.exit = "nonzero"]_vars
=============================================================================
