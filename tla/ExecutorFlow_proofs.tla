------------------------ MODULE ExecutorFlow_proofs ------------------------
(***************************************************************************)
(* Proofs about ExecutorFlow, for either placement, with and without stdin *)
(* and sidecars, and for any number of faults: the reported result is the  *)
(* approved workload's own, no workload is left running once nobody looks  *)
(* at it again, an outcome is lost only with its pod, and no Job is        *)
(* created once one is recorded.                                           *)
(***************************************************************************)
EXTENDS ExecutorFlow, SequenceTheorems, TLAPS

-----------------------------------------------------------------------------
(* The inductive invariant.                                                *)

Uids == 1..Len(pods)

\* The states of a pod that is over.
PodOver == {"ended", "gone"}

\* The steps of handleApproved after its uncached refetch.
Working == RecPCs \ {"idle", "finalize", "release", "approved"}

\* No workload of ours is running under the minted name, or none will be for long.
Quiet == job.uid = None \/ job.finished \/ job.terminating \/ ~pods[job.uid].ours

\* A pod that ended has an exit code, and only such a pod does; a Job is counted
\* as finished only after its pod.
Cluster ==
  /\ \A u \in Uids : /\ pods[u].state = "ended" => pods[u].code # "none"
                     /\ pods[u].code # "none" => pods[u].state \in PodOver
  /\ job.finished => job.uid # None /\ pods[job.uid].state \in PodOver

\* Between the refetch and the last write of a reconcile nobody else writes the
\* status, so the worker's copy of it is current and the phase is Approved.
Tracks ==
  rec.pc \in Working =>
    /\ req.phase = "Approved"
    /\ rec.snap.uid = req.uid /\ rec.snap.exit = req.exit /\ rec.snap.output = req.output

\* What the worker has established by the time it reaches each step.
Stage ==
  /\ rec.pc \in {"findJob", "create", "stdin", "recordUID"} => req.named /\ req.uid = None
  /\ rec.pc \in {"stdin", "recordUID"} => rec.u # None
  /\ rec.pc \in {"observe", "capture", "recordResult", "teardown", "conclude"} => req.uid # None
  /\ rec.pc = "capture" => rec.u = req.uid
  /\ rec.pc = "capture" /\ rec.finished => Quiet /\ pods[rec.u].state \in PodOver
  /\ rec.pc \in {"recordResult", "teardown", "conclude"} =>
       rec.exit # "none" /\ rec.exit = pods[req.uid].code
  /\ rec.pc \in {"conclude", "fail"} => Quiet
  /\ rec.reason = "undetermined" =>
       rec.pc = "fail" /\ req.uid # None /\ (faults = 0 => pods[req.uid].state = "gone")

\* An older copy of the request has an older resourceVersion.
Copy(r) == r.rv =< req.rv /\ (r.rv = req.rv => r = req)

\* The deletion branch acts on a copy from the cache, and stops the Job before the
\* finalizer goes.
Deletion ==
  /\ Copy(cache)
  /\ rec.pc \in {"finalize", "release"} => Copy(rec.snap)
  /\ rec.pc = "release" /\ rec.snap.named => Quiet

\* In a target namespace the finalizer comes before the name, the name before the
\* Job, and while the worker is past the finalizer the request cannot go away.
Guarded ==
  /\ req.finalizer => req.exists
  /\ scope.cross /\ req.exists /\ req.named => req.finalizer
  /\ scope.cross /\ ~req.named => job.uid = None
  /\ scope.cross /\ rec.pc \in Working \ {"addFinalizer"} => req.finalizer

\* A loss is of a recorded Job.
Lost == req.reason = "undetermined" => req.uid # None

IInv == /\ TypeOK /\ Cluster /\ Tracks /\ Stage /\ Deletion /\ Guarded /\ Lost
        /\ NoOrphanWorkload /\ OwnResult /\ OutcomeReported

-----------------------------------------------------------------------------
(* Types of the building blocks.                                           *)

\* The records the specification starts from are well typed.
LEMMA ConstantRecords ==
  /\ ApprovedRequest \in Request /\ NoSnap \in Request /\ Idle \in Rec /\ NoJob \in Job
  /\ \A b \in BOOLEAN : NewPod(b) \in Pod
  BY DEF ApprovedRequest, NoSnap, Idle, NoJob, NewPod, Request, Rec, Job, Pod, RecPCs, Codes, Outputs,
         Reasons, None

\* A committed write changes the resourceVersion, and nothing else of what is written.
LEMMA CommitEffect ==
  ASSUME req \in Request, NEW r \in Request, Commit(r)
  PROVE  /\ req' \in Request /\ req'.rv = req.rv + 1
         /\ req'.exists = r.exists /\ req'.phase = r.phase /\ req'.named = r.named
         /\ req'.uid = r.uid /\ req'.exit = r.exit /\ req'.output = r.output
         /\ req'.reason = r.reason /\ req'.finalizer = r.finalizer /\ req'.deleting = r.deleting
  <1>1. req.rv + 1 \in Nat
    BY DEF Request
  <1> QED BY <1>1 DEF Commit, Request

\* The budget of faults is kept, and never given back.
LEMMA FaultsType ==
  ASSUME faults \in 0..MaxFaults, Fault \/ NoFault
  PROVE  faults' \in 0..MaxFaults /\ (faults' = 0 => faults = 0)
  BY MaxFaultsAssumption DEF Fault, NoFault

\* Stopping a Job marks it, or finds none.
LEMMA StopJobEffect ==
  ASSUME job \in Job, StopJob
  PROVE  /\ job' \in Job /\ job'.uid = job.uid /\ job'.finished = job.finished
         /\ job'.uid = None \/ job'.terminating
  BY DEF StopJob, Job

\* One pod changes, the others stay as they were.
LEMMA SetPodEffect ==
  ASSUME pods \in Seq(Pod), NEW u \in Uids, NEW p \in Pod, SetPod(u, p)
  PROVE  /\ pods' \in Seq(Pod) /\ Len(pods') = Len(pods)
         /\ pods'[u] = p /\ \A v \in Uids : v # u => pods'[v] = pods[v]
  BY ExceptSeq DEF SetPod, Uids

\* A new Job has a new UID, and the other pods stay as they were.
LEMMA AppendEffect ==
  ASSUME pods \in Seq(Pod), NEW p \in Pod, pods' = Append(pods, p)
  PROVE  /\ pods' \in Seq(Pod) /\ Len(pods') = Len(pods) + 1
         /\ pods'[Len(pods) + 1] = p /\ \A v \in Uids : pods'[v] = pods[v]
  BY DEF Uids

-----------------------------------------------------------------------------
(* The steps of the cluster.                                               *)

\* What no step undoes: a pod stays whose it is, and one that is over stays over,
\* with its exit code.
Grows ==
  /\ Len(pods) =< Len(pods')
  /\ \A u \in Uids :
       /\ pods'[u].ours = pods[u].ours
       /\ pods[u].state \in PodOver => pods'[u].state \in PodOver
       /\ pods[u].state = "gone" => pods'[u].state = "gone"
       /\ pods[u].code # "none" => pods'[u].code = pods[u].code

\* The facts every step owes the rest of the proof about the Job and the pods.
ClusterFacts ==
  /\ pods' \in Seq(Pod) /\ job' \in Job /\ job'.uid \in 0..Len(pods')
  /\ Cluster' /\ Grows

\* A pod moves on: it stays whose it was, and gets its exit code when it ends.
LEMMA PodMoves ==
  ASSUME TypeOK, Cluster, NEW u \in Uids, NEW p \in Pod, SetPod(u, p), UNCHANGED job,
         p.ours = pods[u].ours,
         p.state = "ended" => p.code # "none",
         p.code # "none" => p.state \in PodOver,
         pods[u].state \in PodOver => p.state = "gone" /\ p.code = pods[u].code
  PROVE  ClusterFacts /\ (Quiet => Quiet')
  <1>0. pods \in Seq(Pod) /\ job \in Job /\ job.uid \in 0..Len(pods) /\ Len(pods) \in Nat
    BY DEF TypeOK
  <1>1. /\ pods' \in Seq(Pod) /\ Len(pods') = Len(pods)
        /\ pods'[u] = p /\ \A v \in Uids : v # u => pods'[v] = pods[v]
    BY <1>0, SetPodEffect
  <1>2. pods[u].code # "none" => p.code = pods[u].code
    BY DEF Cluster
  <1>3. Grows
    BY <1>0, <1>1, <1>2 DEF Grows, PodOver
  <1>4. job.uid # None => job.uid \in Uids
    BY <1>0 DEF Uids, None
  <1>5. Cluster'
    BY <1>1, <1>4 DEF Cluster, Uids, PodOver
  <1>6. Quiet => Quiet'
    BY <1>1, <1>4 DEF Quiet
  <1> QED BY <1>0, <1>1, <1>3, <1>5, <1>6 DEF ClusterFacts

\* The Job changes and no pod does.
LEMMA JobMoves ==
  ASSUME TypeOK, Cluster, UNCHANGED pods, job' \in Job,
         \/ job'.uid = None /\ ~job'.finished
         \/ /\ job'.uid = job.uid
            /\ job'.finished => job.finished \/ (job.uid # None /\ pods[job.uid].state \in PodOver)
            /\ (job.finished => job'.finished) /\ (job.terminating => job'.terminating)
  PROVE  ClusterFacts /\ (Quiet => Quiet')
  <1>0. pods \in Seq(Pod) /\ job.uid \in 0..Len(pods) /\ Len(pods) \in Nat /\ 0 \in 0..Len(pods)
    BY DEF TypeOK
  <1>1. job'.uid \in 0..Len(pods')
    BY <1>0 DEF None
  <1>2. Grows
    BY <1>0 DEF Grows
  <1>3. Cluster'
    BY DEF Cluster, Uids, PodOver, None
  <1>4. Quiet => Quiet'
    BY DEF Quiet, None
  <1> QED BY <1>0, <1>1, <1>2, <1>3, <1>4 DEF ClusterFacts

\* The object of a newly created Job.
LEMMA NewJobEffect ==
  ASSUME NEW u \in Nat, NEW j, j = [NoJob EXCEPT !.uid = u]
  PROVE  j \in Job /\ j.uid = u /\ ~j.finished /\ ~j.terminating
  BY DEF NoJob, Job

\* A sequence of pods that got one more has only grown.
LEMMA OneMoreGrows ==
  ASSUME Len(pods) \in Nat, Len(pods') = Len(pods) + 1, \A v \in Uids : pods'[v] = pods[v]
  PROVE  Grows
  BY DEF Grows

\* A Job is created, here or by someone else.
LEMMA JobAppears ==
  ASSUME TypeOK, Cluster, NEW b \in BOOLEAN, pods' = Append(pods, NewPod(b)),
         job' = [NoJob EXCEPT !.uid = Len(pods) + 1]
  PROVE  /\ ClusterFacts /\ (~b => Quiet')
         /\ job'.uid = Len(pods) + 1 /\ Len(pods') = Len(pods) + 1
         /\ pods'[Len(pods) + 1].ours = b
  <1>0. pods \in Seq(Pod) /\ Len(pods) \in Nat /\ NewPod(b) \in Pod
    BY ConstantRecords DEF TypeOK
  <1>1. /\ pods' \in Seq(Pod) /\ Len(pods') = Len(pods) + 1
        /\ pods'[Len(pods) + 1] = NewPod(b) /\ \A v \in Uids : pods'[v] = pods[v]
    BY <1>0, AppendEffect
  <1>2. /\ job' \in Job /\ job'.uid = Len(pods) + 1
        /\ ~job'.finished /\ ~job'.terminating
    <2>1. Len(pods) + 1 \in Nat
      BY <1>0
    <2> QED BY <2>1, NewJobEffect
  <1>3. Grows
    BY <1>0, <1>1, OneMoreGrows
  <1>4. Cluster'
    <2> SUFFICES ASSUME NEW v \in Uids'
                 PROVE  /\ pods'[v].state = "ended" => pods'[v].code # "none"
                        /\ pods'[v].code # "none" => pods'[v].state \in PodOver
      BY <1>2 DEF Cluster, PodOver
    <2>1. CASE v \in Uids
      BY <1>1, <2>1 DEF Cluster
    <2>2. CASE v = Len(pods) + 1
      BY <1>1, <2>2 DEF NewPod
    <2> QED BY <1>0, <1>1, <2>1, <2>2 DEF Uids
  <1>5. pods'[Len(pods) + 1].ours = b
    BY <1>1 DEF NewPod
  <1>6. ~b => Quiet'
    BY <1>2, <1>5 DEF Quiet
  <1>7. job'.uid \in 0..Len(pods')
    BY <1>0, <1>1, <1>2
  <1> QED BY <1>1, <1>2, <1>3, <1>4, <1>5, <1>6, <1>7 DEF ClusterFacts

\* A UID that is not None is the UID of a pod.
LEMMA UidsKnown ==
  ASSUME TypeOK
  PROVE  /\ job.uid # None => job.uid \in Uids
         /\ req.uid # None => req.uid \in Uids
         /\ rec.u # None => rec.u \in Uids
         /\ Len(pods) + 1 \notin Uids
  <1>1. Len(pods) \in Nat
    BY DEF TypeOK
  <1> QED BY <1>1 DEF TypeOK, Uids, None

\* What a step that leaves the request alone keeps of the facts about it, whatever
\* the cluster does, as long as it starts no workload of a request that is over.
LEMMA RequestKept ==
  ASSUME IInv, UNCHANGED <<scope, req>>, ClusterFacts,
         faults' = 0 => faults = 0,
         (Over /\ (req.exists \/ scope.cross)) /\ Quiet => Quiet',
         scope.cross /\ ~req.named => job'.uid = None
  PROVE  /\ Cluster' /\ Lost' /\ NoOrphanWorkload' /\ OwnResult' /\ OutcomeReported'
         /\ (req.finalizer => req.exists)'
         /\ (scope.cross /\ req.exists /\ req.named => req.finalizer)'
         /\ (scope.cross /\ ~req.named => job.uid = None)'
  <1>1. req.uid # None => req.uid \in Uids
    BY UidsKnown DEF IInv
  <1>2. Cluster' /\ Grows
    BY DEF ClusterFacts
  <1>3. NoOrphanWorkload'
    BY DEF IInv, NoOrphanWorkload, Over, Quiet
  <1>4. OwnResult'
    BY <1>1, <1>2 DEF IInv, OwnResult, Grows, None
  <1>5. OutcomeReported' /\ Lost'
    BY <1>1, <1>2 DEF IInv, OutcomeReported, Lost, Grows, None
  <1>6. /\ (req.finalizer => req.exists)'
        /\ (scope.cross /\ req.exists /\ req.named => req.finalizer)'
        /\ (scope.cross /\ ~req.named => job.uid = None)'
    BY DEF IInv, Guarded, None
  <1> QED BY <1>2, <1>3, <1>4, <1>5, <1>6

\* A reconcile ends without having written the request, or the process restarts.
LEMMA IdleKeeps ==
  ASSUME IInv, TypeOK', UNCHANGED <<scope, req>>, ClusterFacts,
         faults' = 0 => faults = 0,
         (Over /\ (req.exists \/ scope.cross)) /\ Quiet => Quiet',
         scope.cross /\ ~req.named => job'.uid = None,
         rec' = Idle, cache' = cache \/ cache' = req
  PROVE  IInv'
  <1>1. rec'.pc = "idle" /\ rec'.reason = "none"
    BY DEF Idle
  <1>2. Tracks' /\ Stage'
    BY <1>1 DEF Tracks, Stage, Working
  <1>3. Deletion'
    <2>1. Copy(cache)
      BY DEF IInv, Deletion
    <2>2. req.rv =< req.rv
      BY DEF IInv, TypeOK, Request
    <2>3. Copy(cache)'
      BY <2>1, <2>2 DEF Copy
    <2> QED BY <1>1, <2>3 DEF Deletion
  <1>4. Guarded'
    BY <1>1, RequestKept DEF Guarded, Working
  <1> QED BY <1>2, <1>3, <1>4, RequestKept DEF IInv

\* The cluster takes a step: nothing the worker has established is undone.
LEMMA ClusterKeeps ==
  ASSUME IInv, TypeOK', UNCHANGED <<scope, req, cache, rec>>, ClusterFacts,
         faults' = 0 => faults = 0, Quiet => Quiet',
         scope.cross /\ ~req.named => job'.uid = None
  PROVE  IInv'
  <1>1. Tracks'
    BY DEF IInv, Tracks, Working, RecPCs
  <1>2. /\ req.uid # None => req.uid \in Uids
        /\ Grows
    BY UidsKnown DEF IInv, ClusterFacts
  <1>3. Stage'
    BY <1>2 DEF IInv, Stage, Cluster, Grows, None, PodOver
  <1>4. Deletion'
    BY DEF IInv, Deletion, Copy
  <1>5. Guarded'
    BY RequestKept DEF IInv, Guarded, Working, RecPCs
  <1> QED BY <1>1, <1>3, <1>4, <1>5, RequestKept DEF IInv

\* The types of what a step of the cluster leaves alone or changes.
LEMMA ClusterTypes ==
  ASSUME TypeOK, ClusterFacts, UNCHANGED <<scope, req, cache, queued, rec>>,
         stdin' = stdin \/ stdin' = None, late' \in BOOLEAN, Fault \/ NoFault
  PROVE  TypeOK' /\ (faults' = 0 => faults = 0)
  <1>1. faults' \in 0..MaxFaults /\ (faults' = 0 => faults = 0)
    BY FaultsType DEF TypeOK
  <1>2. Len(pods) \in Nat /\ Len(pods') \in Nat /\ Len(pods) =< Len(pods')
    BY DEF TypeOK, ClusterFacts, Grows
  <1>3. \A n \in 0..Len(pods) : n \in 0..Len(pods')
    BY <1>2
  <1>4. stdin' \in 0..Len(pods') /\ stdin' \in Nat
    BY <1>2, <1>3 DEF TypeOK, None
  <1>5. /\ pods' \in Seq(Pod) /\ job' \in Job /\ job'.uid \in 0..Len(pods')
    BY DEF ClusterFacts
  <1> QED BY <1>1, <1>3, <1>4, <1>5 DEF TypeOK

\* A pod moves on, and nothing else happens.
LEMMA PodKeeps ==
  ASSUME IInv, NEW u \in Uids, NEW p \in Pod, SetPod(u, p), Fault \/ NoFault,
         UNCHANGED <<scope, req, cache, job, stdin, late, queued, rec>>,
         p.ours = pods[u].ours,
         p.state = "ended" => p.code # "none",
         p.code # "none" => p.state \in PodOver,
         pods[u].state \in PodOver => p.state = "gone" /\ p.code = pods[u].code
  PROVE  IInv'
  <1>1. ClusterFacts /\ (Quiet => Quiet')
    BY PodMoves DEF IInv
  <1>2. TypeOK' /\ (faults' = 0 => faults = 0)
    BY <1>1, ClusterTypes DEF IInv, TypeOK
  <1>3. scope.cross /\ ~req.named => job'.uid = None
    BY DEF IInv, Guarded
  <1> QED BY <1>1, <1>2, <1>3, ClusterKeeps

\* The Job moves on, and nothing else happens but to the clock and the stdin Secret.
LEMMA JobKeeps ==
  ASSUME IInv, job' \in Job, Fault \/ NoFault,
         UNCHANGED <<scope, req, cache, pods, queued, rec>>,
         stdin' = stdin \/ stdin' = None, late' \in BOOLEAN,
         \/ job'.uid = None /\ ~job'.finished
         \/ /\ job'.uid = job.uid
            /\ job'.finished => job.finished \/ (job.uid # None /\ pods[job.uid].state \in PodOver)
            /\ (job.finished => job'.finished) /\ (job.terminating => job'.terminating)
  PROVE  IInv'
  <1>1. ClusterFacts /\ (Quiet => Quiet')
    BY JobMoves DEF IInv
  <1>2. TypeOK' /\ (faults' = 0 => faults = 0)
    BY <1>1, ClusterTypes DEF IInv
  <1>3. scope.cross /\ ~req.named => job'.uid = None
    BY DEF IInv, Guarded
  <1> QED BY <1>1, <1>2, <1>3, ClusterKeeps

\* A pod is scheduled, starts, ends, is lost or is reaped.
LEMMA PodStepKeeps ==
  ASSUME IInv, NEW u \in Uids,
         \/ PodScheduled(u) \/ ExecutorStarts(u) \/ ExecutorExits(u)
         \/ InitContainerFails(u) \/ PodLost(u) \/ PodReaped(u)
  PROVE  IInv'
  <1>1. pods[u] \in Pod
    BY DEF IInv, TypeOK, Uids
  <1>2. /\ pods[u].state = "ended" => pods[u].code # "none"
        /\ pods[u].code # "none" => pods[u].state \in PodOver
    BY DEF IInv, Cluster
  <1>3. CASE PodScheduled(u)
    <2> DEFINE p == [pods[u] EXCEPT !.state = "waiting"]
    <2>1. /\ p \in Pod /\ p.ours = pods[u].ours /\ p.code = pods[u].code /\ p.state = "waiting"
      BY <1>1 DEF Pod
    <2>2. /\ SetPod(u, p) /\ pods[u].state = "none" /\ NoFault
          /\ UNCHANGED <<scope, req, cache, job, stdin, late, queued, rec>>
      BY <1>3 DEF PodScheduled, NoFault
    <2> HIDE DEF p
    <2> QED BY <1>2, <2>1, <2>2, PodKeeps DEF PodOver
  <1>4. CASE ExecutorStarts(u)
    <2> DEFINE p == [pods[u] EXCEPT !.state = "running", !.started = TRUE]
    <2>1. /\ p \in Pod /\ p.ours = pods[u].ours /\ p.code = pods[u].code /\ p.state = "running"
      BY <1>1 DEF Pod
    <2>2. /\ SetPod(u, p) /\ pods[u].state = "waiting" /\ NoFault
          /\ UNCHANGED <<scope, req, cache, job, stdin, late, queued, rec>>
      BY <1>4 DEF ExecutorStarts, NoFault
    <2> HIDE DEF p
    <2> QED BY <1>2, <2>1, <2>2, PodKeeps DEF PodOver
  <1>5. CASE ExecutorExits(u)
    <2>0. PICK c \in {"zero", "nonzero"} :
            SetPod(u, [pods[u] EXCEPT !.state = "ended", !.code = c])
      BY <1>5 DEF ExecutorExits
    <2> DEFINE p == [pods[u] EXCEPT !.state = "ended", !.code = c]
    <2>1. p \in Pod /\ p.ours = pods[u].ours /\ p.code = c /\ p.state = "ended"
      BY <1>1 DEF Pod, Codes
    <2>2. /\ SetPod(u, p) /\ pods[u].state = "running" /\ NoFault
          /\ UNCHANGED <<scope, req, cache, job, stdin, late, queued, rec>>
      BY <1>5, <2>0 DEF ExecutorExits, NoFault
    <2> HIDE DEF p
    <2> QED BY <2>1, <2>2, PodKeeps DEF PodOver
  <1>6. CASE InitContainerFails(u)
    <2> DEFINE p == [pods[u] EXCEPT !.state = "ended", !.code = "nonzero"]
    <2>1. p \in Pod /\ p.ours = pods[u].ours /\ p.code = "nonzero" /\ p.state = "ended"
      BY <1>1 DEF Pod, Codes
    <2>2. /\ SetPod(u, p) /\ pods[u].state = "waiting" /\ NoFault
          /\ UNCHANGED <<scope, req, cache, job, stdin, late, queued, rec>>
      BY <1>6 DEF InitContainerFails, NoFault
    <2> HIDE DEF p
    <2> QED BY <2>1, <2>2, PodKeeps DEF PodOver
  <1>7. CASE PodLost(u) \/ PodReaped(u)
    <2> DEFINE p == [pods[u] EXCEPT !.state = "gone"]
    <2>1. p \in Pod /\ p.ours = pods[u].ours /\ p.code = pods[u].code /\ p.state = "gone"
      BY <1>1 DEF Pod
    <2>2. /\ SetPod(u, p) /\ (Fault \/ NoFault)
          /\ UNCHANGED <<scope, req, cache, job, stdin, late, queued, rec>>
      BY <1>7 DEF PodLost, PodReaped, NoFault
    <2> HIDE DEF p
    <2> QED BY <2>1, <2>2, PodKeeps DEF PodOver
  <1> QED BY <1>3, <1>4, <1>5, <1>6, <1>7

\* Every step of the cluster keeps the invariant.
LEMMA ClusterStepKeeps ==
  ASSUME IInv, ClusterStep
  PROVE  IInv'
  <1>0. job \in Job /\ late \in BOOLEAN
    BY DEF IInv, TypeOK
  <1>1. CASE \E u \in 1..Len(pods) : \/ PodScheduled(u) \/ ExecutorStarts(u) \/ ExecutorExits(u)
                                     \/ InitContainerFails(u) \/ PodLost(u) \/ PodReaped(u)
    BY <1>1, PodStepKeeps DEF Uids
  <1>2. CASE JobFinishes
    <2>1. /\ job' \in Job /\ job'.uid = job.uid /\ job'.terminating = job.terminating /\ job'.finished
          /\ job.uid # None /\ pods[job.uid].state \in PodOver
      BY <1>0, <1>2 DEF JobFinishes, Job, PodOver
    <2> QED BY <1>0, <1>2, <2>1, JobKeeps DEF JobFinishes, NoFault
  <1>3. CASE JobGone
    <2>1. job' \in Job /\ job'.uid = None /\ ~job'.finished
      BY <1>3, ConstantRecords DEF JobGone, NoJob
    <2> QED BY <1>3, <2>1, JobKeeps DEF JobGone, NoFault
  <1>4. CASE OwnerCascade
    <2>1. /\ job' \in Job /\ job'.uid = job.uid /\ job'.terminating /\ job'.finished = job.finished
      BY <1>0, <1>4 DEF OwnerCascade, Job
    <2> QED BY <1>0, <1>4, <2>1, JobKeeps DEF OwnerCascade, NoFault
  <1>5. CASE StdinReaped
    BY <1>0, <1>5, JobKeeps DEF StdinReaped, NoFault
  <1>6. CASE StartDeadlinePasses
    BY <1>0, <1>6, JobKeeps DEF StartDeadlinePasses, NoFault
  <1>7. CASE ForeignJob
    <2>1. /\ pods' = Append(pods, NewPod(FALSE)) /\ job' = [NoJob EXCEPT !.uid = Len(pods) + 1]
          /\ UNCHANGED <<scope, req, cache, stdin, late, queued, rec>> /\ req.named /\ Fault
      BY <1>7 DEF ForeignJob
    <2>2. ClusterFacts /\ Quiet'
      BY <2>1, JobAppears DEF IInv
    <2>3. TypeOK' /\ (faults' = 0 => faults = 0)
      BY <1>0, <2>1, <2>2, ClusterTypes DEF IInv
    <2> QED BY <2>1, <2>2, <2>3, ClusterKeeps
  <1> QED BY <1>1, <1>2, <1>3, <1>4, <1>5, <1>6, <1>7 DEF ClusterStep

-----------------------------------------------------------------------------
(* The shapes of a step of the worker.                                     *)

\* The types after a step of the worker.
LEMMA WorkerTypes ==
  ASSUME TypeOK, ClusterFacts, UNCHANGED <<scope, late>>,
         cache' \in Request, queued' \in BOOLEAN, stdin' \in 0..Len(pods'),
         req' \in Request, req'.uid \in 0..Len(pods'),
         rec' \in Rec, rec'.u \in 0..Len(pods'), Fault \/ NoFault
  PROVE  TypeOK' /\ (faults' = 0 => faults = 0)
  <1>1. faults' \in 0..MaxFaults /\ (faults' = 0 => faults = 0)
    BY FaultsType DEF TypeOK
  <1>2. Len(pods') \in Nat
    BY DEF ClusterFacts
  <1>3. stdin' \in Nat
    BY <1>2
  <1>4. pods' \in Seq(Pod) /\ job' \in Job /\ job'.uid \in 0..Len(pods')
    BY DEF ClusterFacts
  <1> QED BY <1>1, <1>3, <1>4 DEF TypeOK

\* The worker creates no Job: it leaves the one there is alone, or stops it.
LEMMA JobHeld ==
  ASSUME IInv, UNCHANGED <<scope, pods>>, StopJob \/ UNCHANGED job
  PROVE  /\ ClusterFacts /\ (Quiet => Quiet') /\ job'.uid = job.uid
         /\ scope.cross /\ ~req.named => job'.uid = None
         /\ StopJob => Quiet'
  <1>1. job \in Job
    BY DEF IInv, TypeOK
  <1>2. /\ job' \in Job /\ job'.uid = job.uid /\ job'.finished = job.finished
        /\ job.terminating => job'.terminating
        /\ StopJob => job'.uid = None \/ job'.terminating
    BY <1>1, StopJobEffect DEF StopJob
  <1>3. ClusterFacts /\ (Quiet => Quiet')
    BY <1>2, JobMoves DEF IInv
  <1>4. scope.cross /\ ~req.named => job'.uid = None
    BY <1>2 DEF IInv, Guarded
  <1>5. StopJob => Quiet'
    BY <1>2 DEF Quiet, None
  <1> QED BY <1>2, <1>3, <1>4, <1>5

\* A reconcile ends without having written the request, or the process restarts.
LEMMA EndKeeps ==
  ASSUME IInv, UNCHANGED <<scope, req, pods, late>>, StopJob \/ UNCHANGED job,
         stdin' \in {stdin, None, rec.u}, cache' = cache \/ cache' = req,
         rec' = Idle, queued' \in BOOLEAN, Fault \/ NoFault
  PROVE  IInv'
  <1>1. /\ ClusterFacts /\ (Quiet => Quiet')
        /\ scope.cross /\ ~req.named => job'.uid = None
    BY JobHeld
  <1>2. stdin' \in 0..Len(pods') /\ None \in 0..Len(pods')
    <2>1. Len(pods) \in Nat
      BY DEF IInv, TypeOK
    <2> QED BY <2>1 DEF IInv, TypeOK, None
  <1>3. rec' \in Rec /\ rec'.u = None
    BY ConstantRecords DEF Idle
  <1>4. /\ cache' \in Request /\ req' \in Request /\ req'.uid \in 0..Len(pods')
    BY DEF IInv, TypeOK
  <1>5. TypeOK' /\ (faults' = 0 => faults = 0)
    BY <1>1, <1>2, <1>3, <1>4, WorkerTypes DEF IInv
  <1> QED BY <1>1, <1>5, IdleKeeps

\* The worker goes on inside handleApproved, with the request it refetched.
LEMMA StepKeeps ==
  ASSUME IInv, UNCHANGED <<scope, req, cache, pods, late, queued>>, StopJob \/ UNCHANGED job,
         stdin' \in {stdin, None, rec.u}, Fault \/ NoFault,
         rec' \in Rec, rec'.u \in {rec.u, job.uid}, rec'.snap = rec.snap,
         rec.pc \in Working \ {"addFinalizer"}, rec'.pc \in Working \ {"addFinalizer"},
         Stage'
  PROVE  IInv'
  <1>1. /\ ClusterFacts /\ (Quiet => Quiet')
        /\ scope.cross /\ ~req.named => job'.uid = None
    BY JobHeld
  <1>2. stdin' \in 0..Len(pods') /\ rec'.u \in 0..Len(pods')
    <2>1. Len(pods) \in Nat
      BY DEF IInv, TypeOK
    <2> QED BY <2>1 DEF IInv, TypeOK, None
  <1>3. /\ cache' \in Request /\ req' \in Request /\ req'.uid \in 0..Len(pods')
        /\ queued' \in BOOLEAN
    BY DEF IInv, TypeOK
  <1>4. TypeOK' /\ (faults' = 0 => faults = 0)
    BY <1>1, <1>2, <1>3, WorkerTypes DEF IInv
  <1>5. Tracks'
    BY DEF IInv, Tracks, Working, RecPCs
  <1>6. Deletion'
    BY DEF IInv, Deletion, Copy, Working, RecPCs
  <1>7. Guarded'
    <2>1. scope.cross => req.finalizer
      BY DEF IInv, Guarded
    <2> QED BY <1>1, <1>4, <2>1, RequestKept DEF Guarded
  <1> QED BY <1>1, <1>4, <1>5, <1>6, <1>7, RequestKept DEF IInv

\* The worker writes the request and is done with it.
LEMMA WriteKeeps ==
  ASSUME IInv, UNCHANGED <<scope, cache, pods, stdin, late>>, StopJob \/ UNCHANGED job,
         req' \in Request, req'.rv = req.rv + 1, req'.uid \in 0..Len(pods),
         rec' = Idle, queued' \in BOOLEAN, Fault \/ NoFault,
         /\ (req.finalizer => req.exists)'
         /\ (scope.cross /\ req.exists /\ req.named => req.finalizer)'
         /\ (scope.cross /\ ~req.named => job.uid = None)',
         Lost', NoOrphanWorkload', OwnResult', OutcomeReported'
  PROVE  IInv'
  <1>1. ClusterFacts
    BY JobHeld
  <1>2. stdin' \in 0..Len(pods') /\ cache' \in Request /\ None \in 0..Len(pods')
    <2>1. Len(pods) \in Nat
      BY DEF IInv, TypeOK
    <2> QED BY <2>1 DEF IInv, TypeOK, None
  <1>3. rec' \in Rec /\ rec'.u = None /\ rec'.pc = "idle" /\ rec'.reason = "none"
    BY ConstantRecords DEF Idle
  <1>4. TypeOK'
    BY <1>1, <1>2, <1>3, WorkerTypes DEF IInv
  <1>5. Tracks' /\ Stage'
    BY <1>3 DEF Tracks, Stage, Working
  <1>6. Deletion'
    <2>1. cache.rv =< req.rv /\ cache.rv \in Nat /\ req.rv \in Nat
      BY DEF IInv, Deletion, Copy, TypeOK, Request
    <2>2. Copy(cache)'
      BY <2>1 DEF Copy
    <2> QED BY <1>3, <2>2 DEF Deletion
  <1>7. Guarded'
    BY <1>3 DEF Guarded, Working
  <1>8. Cluster'
    BY <1>1 DEF ClusterFacts
  <1> QED BY <1>4, <1>5, <1>6, <1>7, <1>8 DEF IInv

\* The worker is at a step outside handleApproved's writes.
LEMMA OutsideKeeps ==
  ASSUME IInv, UNCHANGED <<scope, req, cache, pods, late, stdin>>, StopJob \/ UNCHANGED job,
         queued' \in BOOLEAN, Fault \/ NoFault,
         rec' \in Rec, rec'.u \in {rec.u, None},
         rec'.pc \notin Working, rec'.reason # "undetermined",
         rec'.pc \in {"finalize", "release"} => Copy(rec'.snap),
         rec'.pc = "release" /\ rec'.snap.named => Quiet'
  PROVE  IInv'
  <1>1. /\ ClusterFacts /\ (Quiet => Quiet')
        /\ scope.cross /\ ~req.named => job'.uid = None
    BY JobHeld
  <1>2. rec'.u \in 0..Len(pods')
    <2>1. Len(pods) \in Nat
      BY DEF IInv, TypeOK
    <2> QED BY <2>1 DEF IInv, TypeOK, None
  <1>3. /\ cache' \in Request /\ req' \in Request /\ req'.uid \in 0..Len(pods')
        /\ stdin' \in 0..Len(pods')
    BY DEF IInv, TypeOK
  <1>4. TypeOK' /\ (faults' = 0 => faults = 0)
    BY <1>1, <1>2, <1>3, WorkerTypes DEF IInv
  <1>5. Tracks' /\ Stage'
    BY DEF Tracks, Stage, Working, RecPCs
  <1>6. Deletion'
    BY DEF IInv, Deletion, Copy
  <1>7. Guarded'
    BY <1>1, <1>4, RequestKept DEF Guarded, Working, RecPCs
  <1> QED BY <1>1, <1>4, <1>5, <1>6, <1>7, RequestKept DEF IInv

-----------------------------------------------------------------------------
(* One lemma per action.                                                   *)

\* The informer's copy becomes the request itself.
LEMMA CacheSyncKeeps ==
  ASSUME IInv, CacheSync
  PROVE  IInv'
  <1>1. /\ cache' = req /\ queued' = TRUE
        /\ UNCHANGED <<scope, req, job, pods, stdin, late, rec, faults>>
    BY DEF CacheSync
  <1>2. TypeOK'
    BY <1>1 DEF IInv, TypeOK
  <1>3. Cluster' /\ Tracks' /\ Guarded' /\ Lost' /\ NoOrphanWorkload' /\ OwnResult' /\ OutcomeReported'
    BY <1>1 DEF IInv, Cluster, Tracks, Guarded, Lost, NoOrphanWorkload, OwnResult, OutcomeReported,
                Over, Uids, Working, RecPCs, PodOver, None
  <1>4. Stage'
    BY <1>1 DEF IInv, Stage, Quiet, PodOver, None
  <1>5. Deletion'
    <2>1. req.rv =< req.rv
      BY DEF IInv, TypeOK, Request
    <2> QED BY <1>1, <2>1 DEF IInv, Deletion, Copy, Quiet, None
  <1> QED BY <1>2, <1>3, <1>4, <1>5 DEF IInv

\* The controller restarts.
LEMMA CrashKeeps ==
  ASSUME IInv, Crash
  PROVE  IInv'
  BY EndKeeps DEF Crash

\* The user deletes the request: one without a finalizer has no Job to leave behind.
LEMMA UserDeleteKeeps ==
  ASSUME IInv, UserDelete
  PROVE  IInv'
  <1> DEFINE r == IF req.finalizer THEN [req EXCEPT !.deleting = TRUE]
                                   ELSE [req EXCEPT !.exists = FALSE]
  <1>0. req \in Request /\ req.exists /\ req.rv \in Nat
    BY DEF IInv, TypeOK, UserDelete, Request
  <1>1. /\ r \in Request /\ r.phase = req.phase /\ r.named = req.named /\ r.uid = req.uid
        /\ r.exit = req.exit /\ r.output = req.output /\ r.reason = req.reason
        /\ r.finalizer = req.finalizer /\ r.exists = req.finalizer
    BY <1>0 DEF Request
  <1>2. Commit(r) /\ UNCHANGED <<scope, cache, job, pods, stdin, late, queued, rec, faults>>
    BY DEF UserDelete
  <1> HIDE DEF r
  <1>3. /\ req' \in Request /\ req'.rv = req.rv + 1
        /\ req'.phase = req.phase /\ req'.named = req.named /\ req'.uid = req.uid
        /\ req'.exit = req.exit /\ req'.output = req.output /\ req'.reason = req.reason
        /\ req'.finalizer = req.finalizer /\ req'.exists = req.finalizer
    BY <1>0, <1>1, <1>2, CommitEffect
  <1>4. TypeOK'
    BY <1>2, <1>3 DEF IInv, TypeOK
  <1>5. Cluster' /\ Tracks' /\ Lost' /\ OwnResult' /\ OutcomeReported'
    BY <1>2, <1>3 DEF IInv, Cluster, Tracks, Lost, OwnResult, OutcomeReported,
                      Uids, Working, RecPCs, PodOver, None
  <1>6. Stage'
    BY <1>2, <1>3 DEF IInv, Stage, Quiet, PodOver, None
  <1>7. Deletion'
    <2>1. /\ cache.rv \in Nat /\ rec.snap.rv \in Nat
      BY DEF IInv, TypeOK, Request, Rec
    <2>2. ~(req'.rv =< req.rv)
      BY <1>0, <1>3
    <2> QED BY <1>0, <1>2, <1>3, <2>1 DEF IInv, Deletion, Copy, Quiet, None
  <1>8. Guarded'
    BY <1>2, <1>3 DEF IInv, Guarded, Working, RecPCs, None
  <1>9. NoOrphanWorkload'
    BY <1>0, <1>2, <1>3 DEF IInv, NoOrphanWorkload, Over, Guarded, None
  <1> QED BY <1>4, <1>5, <1>6, <1>7, <1>8, <1>9 DEF IInv

\* A reconcile starts on the informer's copy.
LEMMA ReconcileKeeps ==
  ASSUME IInv, Reconcile
  PROVE  IInv'
  <1>1. /\ queued' = FALSE /\ UNCHANGED <<scope, req, cache, pods, stdin, late, job>> /\ NoFault
        /\ \/ rec' = Idle
           \/ rec' = [Idle EXCEPT !.pc = "finalize", !.snap = cache]
           \/ rec' = [Idle EXCEPT !.pc = "approved", !.snap = cache]
    BY DEF Reconcile, NoCommit, Env
  <1>2. cache \in Request /\ Copy(cache)
    BY DEF IInv, TypeOK, Deletion
  <1>3. CASE rec' = Idle
    BY <1>1, <1>3, EndKeeps
  <1>4. CASE rec' # Idle
    <2>1. /\ rec' \in Rec /\ rec'.u = None /\ rec'.reason = "none" /\ rec'.snap = cache
          /\ rec'.pc \in {"finalize", "approved"}
      BY <1>1, <1>2, <1>4, ConstantRecords DEF Idle, Rec, RecPCs
    <2> QED BY <1>1, <1>2, <2>1, OutsideKeeps DEF Working
  <1> QED BY <1>3, <1>4

\* Deletion, first half: the Job at the minted name is stopped.
LEMMA FinalizeStopJobKeeps ==
  ASSUME IInv, FinalizeStopJob
  PROVE  IInv'
  <1>0. /\ rec.pc = "finalize" /\ rec \in Rec /\ Copy(rec.snap) /\ rec.reason # "undetermined"
        /\ queued \in BOOLEAN /\ UNCHANGED <<scope, req, cache, pods, stdin, late>>
    BY DEF FinalizeStopJob, IInv, TypeOK, Deletion, Stage, NoCommit, Env
  <1>1. CASE /\ IF rec.snap.named THEN StopJob ELSE UNCHANGED job
             /\ Step([rec EXCEPT !.pc = "release"]) /\ NoFault
    <2>1. /\ rec' \in Rec /\ rec'.pc = "release" /\ rec'.snap = rec.snap /\ rec'.u = rec.u
          /\ rec'.reason = rec.reason
      BY <1>0, <1>1 DEF Step, Rec, RecPCs
    <2>2. StopJob \/ UNCHANGED job
      BY <1>1
    <2>3. rec.snap.named => Quiet'
      BY <1>0, <1>1, JobHeld
    <2> QED BY <1>0, <1>1, <2>1, <2>2, <2>3, OutsideKeeps DEF Step, Working
  <1>2. CASE UNCHANGED job /\ End(TRUE) /\ Fault
    BY <1>0, <1>2, EndKeeps DEF End
  <1> QED BY <1>1, <1>2 DEF FinalizeStopJob

\* Deletion, second half: the release lands only on the copy it was decided on, so
\* the Job of its minted name has been stopped.
LEMMA FinalizeReleaseKeeps ==
  ASSUME IInv, FinalizeRelease
  PROVE  IInv'
  <1> DEFINE r == [req EXCEPT !.finalizer = FALSE, !.exists = FALSE]
  <1>0. /\ rec.pc = "release" /\ Copy(rec.snap) /\ req \in Request /\ (Fault \/ NoFault)
        /\ UNCHANGED <<scope, cache, pods, stdin, late, job>> /\ rec' = Idle
    BY DEF FinalizeRelease, IInv, TypeOK, Deletion, Env, End
  <1>1. queued' \in BOOLEAN
    BY DEF FinalizeRelease, End, IInv, TypeOK
  <1>2. CASE UNCHANGED req
    BY <1>0, <1>1, <1>2, EndKeeps
  <1>3. CASE rec.snap.rv = req.rv /\ Commit(r)
    <2>1. /\ r \in Request /\ r.phase = req.phase /\ r.named = req.named /\ r.uid = req.uid
          /\ r.exit = req.exit /\ r.reason = req.reason /\ ~r.finalizer /\ ~r.exists
      BY <1>0 DEF Request
    <2> HIDE DEF r
    <2>2. /\ req' \in Request /\ req'.rv = req.rv + 1
          /\ req'.phase = req.phase /\ req'.named = req.named /\ req'.uid = req.uid
          /\ req'.exit = req.exit /\ req'.reason = req.reason
          /\ ~req'.finalizer /\ ~req'.exists
      BY <1>0, <1>3, <2>1, CommitEffect
    <2>3. rec.snap = req
      BY <1>0, <1>3 DEF Copy
    <2>4. scope.cross => Quiet
      BY <1>0, <2>3 DEF IInv, Deletion, Guarded, Quiet
    <2>5. NoOrphanWorkload'
      BY <1>0, <2>2, <2>4 DEF NoOrphanWorkload, Over, Quiet, None
    <2>6. Lost' /\ OwnResult' /\ OutcomeReported'
      BY <1>0, <2>2, FaultsType DEF IInv, TypeOK, Lost, OwnResult, OutcomeReported, None
    <2>7. /\ (req.finalizer => req.exists)'
          /\ (scope.cross /\ req.exists /\ req.named => req.finalizer)'
          /\ (scope.cross /\ ~req.named => job.uid = None)'
      BY <1>0, <2>2 DEF IInv, Guarded, None
    <2>8. req'.uid \in 0..Len(pods)
      BY <2>2 DEF IInv, TypeOK
    <2> QED BY <1>0, <1>1, <2>2, <2>5, <2>6, <2>7, <2>8, WriteKeeps
  <1> QED BY <1>2, <1>3 DEF FinalizeRelease, NoCommit

\* An uncached read fails.
LEMMA ReadFailsKeeps ==
  ASSUME IInv, ReadFails
  PROVE  IInv'
  <1>1. queued' \in BOOLEAN
    BY DEF ReadFails, End, IInv, TypeOK
  <1> QED BY <1>1, EndKeeps DEF ReadFails, End, NoCommit, Env

\* The refetch: from here on the worker's copy of the status is current.
LEMMA HandleApprovedKeeps ==
  ASSUME IInv, HandleApproved
  PROVE  IInv'
  <1>0. /\ rec.pc = "approved" /\ rec \in Rec /\ req \in Request /\ rec.reason # "undetermined"
        /\ queued \in BOOLEAN /\ NoFault
        /\ UNCHANGED <<scope, req, cache, pods, stdin, late, job>>
    BY DEF HandleApproved, IInv, TypeOK, Stage, NoCommit, Env
  <1>1. CASE rec' = Idle /\ queued' \in BOOLEAN
    BY <1>0, <1>1, EndKeeps
  <1>2. CASE /\ req.exists /\ req.phase = "Approved"
             /\ Step([rec EXCEPT !.snap = req,
                        !.pc = IF scope.cross /\ ~req.finalizer THEN "addFinalizer"
                               ELSE IF ~req.named THEN "mint"
                               ELSE IF req.uid = None THEN "findJob" ELSE "observe"])
    <2>1. /\ rec' \in Rec /\ rec'.snap = req /\ rec'.u = rec.u /\ rec'.reason = rec.reason
          /\ UNCHANGED queued
      BY <1>0, <1>2 DEF Step, Rec, RecPCs
    <2>2. /\ rec'.pc \in {"addFinalizer", "mint", "findJob", "observe"}
          /\ rec'.pc # "addFinalizer" => ~scope.cross \/ req.finalizer
          /\ rec'.pc = "findJob" => req.named /\ req.uid = None
          /\ rec'.pc = "observe" => req.uid # None
      BY <1>0, <1>2 DEF Step, Rec
    <2>3. /\ ClusterFacts /\ (Quiet => Quiet')
          /\ scope.cross /\ ~req.named => job'.uid = None
      BY <1>0, JobHeld
    <2>4. /\ cache' \in Request /\ req' \in Request /\ req'.uid \in 0..Len(pods')
          /\ queued' \in BOOLEAN /\ rec'.u \in 0..Len(pods') /\ stdin' \in 0..Len(pods')
      BY <1>0, <2>1 DEF IInv, TypeOK
    <2>5. TypeOK' /\ (faults' = 0 => faults = 0)
      BY <1>0, <2>1, <2>3, <2>4, WorkerTypes DEF IInv
    <2>6. Tracks'
      BY <1>0, <1>2, <2>1 DEF Tracks
    <2>7. Stage'
      BY <1>0, <2>1, <2>2 DEF Stage, None
    <2>8. Deletion'
      BY <1>0, <2>2 DEF IInv, Deletion, Copy
    <2>9. Guarded'
      BY <1>0, <2>2, <2>3, <2>5, RequestKept DEF Guarded
    <2> QED BY <1>0, <2>3, <2>5, <2>6, <2>7, <2>8, <2>9, RequestKept DEF IInv
  <1> QED BY <1>0, <1>1, <1>2 DEF HandleApproved, End

\* The finalizer is added to the request that was refetched.
LEMMA AddFinalizerKeeps ==
  ASSUME IInv, AddFinalizer
  PROVE  IInv'
  <1> DEFINE r == [req EXCEPT !.finalizer = TRUE]
  <1>0. /\ rec.pc = "addFinalizer" /\ req \in Request /\ (Fault \/ NoFault)
        /\ UNCHANGED <<scope, cache, pods, stdin, late, job>> /\ rec' = Idle
        /\ queued' \in BOOLEAN
    BY DEF AddFinalizer, IInv, TypeOK, Env, End
  <1>1. CASE UNCHANGED req
    BY <1>0, <1>1, EndKeeps
  <1>2. CASE req.exists /\ Commit(r)
    <2>1. /\ r \in Request /\ r.phase = req.phase /\ r.named = req.named /\ r.uid = req.uid
          /\ r.exit = req.exit /\ r.reason = req.reason /\ r.finalizer /\ r.exists = req.exists
      BY <1>0 DEF Request
    <2> HIDE DEF r
    <2>2. /\ req' \in Request /\ req'.rv = req.rv + 1
          /\ req'.phase = req.phase /\ req'.named = req.named /\ req'.uid = req.uid
          /\ req'.exit = req.exit /\ req'.reason = req.reason
          /\ req'.finalizer /\ req'.exists
      BY <1>0, <1>2, <2>1, CommitEffect
    <2>3. NoOrphanWorkload'
      BY <1>0, <1>2, <2>2 DEF IInv, NoOrphanWorkload, Over, None
    <2>4. Lost' /\ OwnResult' /\ OutcomeReported'
      BY <1>0, <2>2, FaultsType DEF IInv, TypeOK, Lost, OwnResult, OutcomeReported, None
    <2>5. /\ (req.finalizer => req.exists)'
          /\ (scope.cross /\ req.exists /\ req.named => req.finalizer)'
          /\ (scope.cross /\ ~req.named => job.uid = None)'
      BY <1>0, <2>2 DEF IInv, Guarded, None
    <2>6. req'.uid \in 0..Len(pods)
      BY <2>2 DEF IInv, TypeOK
    <2> QED BY <1>0, <2>2, <2>3, <2>4, <2>5, <2>6, WriteKeeps
  <1> QED BY <1>1, <1>2 DEF AddFinalizer, NoCommit

\* A status write that leaves the deletion state and the results alone.
LEMMA StatusKeeps ==
  ASSUME IInv, req.exists, NEW r \in Request, Commit(r),
         UNCHANGED <<scope, cache, pods, stdin, late>>, StopJob \/ UNCHANGED job,
         rec' = Idle, queued' \in BOOLEAN, Fault \/ NoFault,
         rec.pc \in Working \ {"addFinalizer"},
         r.exists = req.exists, r.finalizer = req.finalizer,
         r.named = req.named \/ r.named,
         r.uid \in 0..Len(pods), req.uid # None => r.uid = req.uid,
         r.exit # "none" => r.uid # None /\ r.exit = pods[r.uid].code,
         r.phase = "Executed" => r.exit = "zero",
         r.phase # "Approved" => Quiet,
         r.reason = "undetermined" => r.uid # None /\ (faults = 0 => pods[r.uid].state = "gone")
  PROVE  IInv'
  <1>1. req \in Request
    BY DEF IInv, TypeOK
  <1>2. /\ req' \in Request /\ req'.rv = req.rv + 1
        /\ req'.exists = r.exists /\ req'.phase = r.phase /\ req'.named = r.named
        /\ req'.uid = r.uid /\ req'.exit = r.exit /\ req'.reason = r.reason
        /\ req'.finalizer = r.finalizer
    BY <1>1, CommitEffect
  <1>3. /\ Quiet => Quiet'
        /\ scope.cross /\ ~req.named => job'.uid = None
    BY JobHeld
  <1>4. NoOrphanWorkload'
    BY <1>2, <1>3 DEF NoOrphanWorkload, Over, Quiet
  <1>5. Lost' /\ OwnResult' /\ OutcomeReported'
    BY <1>2, FaultsType DEF IInv, TypeOK, Lost, OwnResult, OutcomeReported, None
  <1>6. /\ (req.finalizer => req.exists)'
        /\ (scope.cross /\ req.exists /\ req.named => req.finalizer)'
        /\ (scope.cross /\ ~req.named => job.uid = None)'
    BY <1>2, <1>3 DEF IInv, Guarded, None
  <1> QED BY <1>2, <1>4, <1>5, <1>6, WriteKeeps

\* The names are minted, with the finalizer in place when one is needed.
LEMMA MintNamesKeeps ==
  ASSUME IInv, MintNames
  PROVE  IInv'
  <1> DEFINE r == [req EXCEPT !.named = TRUE]
  <1>0. /\ rec.pc = "mint" /\ req \in Request /\ (Fault \/ NoFault)
        /\ UNCHANGED <<scope, cache, pods, stdin, late, job>> /\ rec' = Idle
        /\ queued' \in BOOLEAN
        /\ NoCommit \/ (req.exists /\ Commit(r))
    BY DEF MintNames, IInv, TypeOK, Env, End, UpdateStatus
  <1>1. CASE UNCHANGED req
    BY <1>0, <1>1, EndKeeps
  <1>2. CASE req.exists /\ Commit(r)
    <2>1. /\ r \in Request /\ r.phase = req.phase /\ r.named /\ r.uid = req.uid
          /\ r.exit = req.exit /\ r.reason = req.reason /\ r.finalizer = req.finalizer
          /\ r.exists = req.exists
      BY <1>0 DEF Request
    <2> HIDE DEF r
    <2>2. /\ req.phase = "Approved" /\ rec.pc \in Working \ {"addFinalizer"}
      BY <1>0 DEF IInv, Tracks, Working, RecPCs
    <2>3. /\ req.uid \in 0..Len(pods)
          /\ req.exit # "none" => req.uid # None /\ req.exit = pods[req.uid].code
          /\ req.reason = "undetermined" =>
               req.uid # None /\ (faults = 0 => pods[req.uid].state = "gone")
      BY DEF IInv, TypeOK, OwnResult, OutcomeReported, Lost
    <2> QED BY <1>0, <1>2, <2>1, <2>2, <2>3, StatusKeeps
  <1> QED BY <1>0, <1>1, <1>2 DEF NoCommit

\* The Job's UID is recorded; until then there is none, hence no result either.
LEMMA RecordUIDKeeps ==
  ASSUME IInv, RecordUID
  PROVE  IInv'
  <1> DEFINE r == [req EXCEPT !.uid = IF @ = None THEN rec.u ELSE @]
  <1>0. /\ rec.pc = "recordUID" /\ req \in Request /\ (Fault \/ NoFault)
        /\ UNCHANGED <<scope, cache, pods, stdin, late>> /\ (StopJob \/ UNCHANGED job)
        /\ rec' = Idle /\ queued' \in BOOLEAN
        /\ NoCommit \/ (req.exists /\ Commit(r))
    BY DEF RecordUID, IInv, TypeOK, Env, End, UpdateStatus
  <1>1. CASE UNCHANGED req
    BY <1>0, <1>1, EndKeeps
  <1>2. CASE req.exists /\ Commit(r)
    <2>0. rec.u \in 0..Len(pods) /\ rec.u \in Nat /\ rec.u # None /\ req.uid = None
      BY <1>0 DEF IInv, TypeOK, Rec, Stage
    <2>1. /\ r \in Request /\ r.phase = req.phase /\ r.named = req.named /\ r.uid = rec.u
          /\ r.exit = req.exit /\ r.reason = req.reason /\ r.finalizer = req.finalizer
          /\ r.exists = req.exists
      BY <1>0, <2>0 DEF Request
    <2> HIDE DEF r
    <2>2. /\ req.phase = "Approved" /\ rec.pc \in Working \ {"addFinalizer"}
      BY <1>0 DEF IInv, Tracks, Working, RecPCs
    <2>3. req.exit = "none" /\ req.reason # "undetermined"
      BY <2>0 DEF IInv, OwnResult, Lost
    <2> QED BY <1>0, <1>2, <2>0, <2>1, <2>2, <2>3, StatusKeeps
  <1> QED BY <1>0, <1>1, <1>2 DEF NoCommit

\* The captured result is recorded: it is that of the pod of the recorded UID.
LEMMA RecordResultKeeps ==
  ASSUME IInv, RecordResult
  PROVE  IInv'
  <1> DEFINE r == WithResult(req)
  <1>0. /\ rec.pc = "recordResult" /\ req \in Request /\ rec \in Rec /\ (Fault \/ NoFault)
        /\ UNCHANGED <<scope, cache, pods, stdin, late, job>>
        /\ rec' = Idle /\ queued' \in BOOLEAN
        /\ NoCommit \/ (req.exists /\ Commit(r))
    BY DEF RecordResult, IInv, TypeOK, Env, End, UpdateStatus
  <1>1. CASE UNCHANGED req
    BY <1>0, <1>1, EndKeeps
  <1>2. CASE req.exists /\ Commit(r)
    <2>1. /\ r \in Request /\ r.phase = req.phase /\ r.named = req.named /\ r.uid = req.uid
          /\ r.exit = rec.exit /\ r.reason = req.reason /\ r.finalizer = req.finalizer
          /\ r.exists = req.exists
      BY <1>0 DEF Request, Rec, WithResult
    <2> HIDE DEF r
    <2>2. /\ req.phase = "Approved" /\ rec.pc \in Working \ {"addFinalizer"}
      BY <1>0 DEF IInv, Tracks, Working, RecPCs
    <2>3. /\ req.uid \in 0..Len(pods) /\ req.uid # None /\ rec.exit = pods[req.uid].code
          /\ req.reason = "undetermined" => (faults = 0 => pods[req.uid].state = "gone")
      BY <1>0 DEF IInv, TypeOK, Stage, OutcomeReported
    <2> QED BY <1>0, <1>2, <2>1, <2>2, <2>3, StatusKeeps
  <1> QED BY <1>0, <1>1, <1>2 DEF NoCommit

\* The terminal write: the Job has finished or has been stopped.
LEMMA ConcludeKeeps ==
  ASSUME IInv, Conclude
  PROVE  IInv'
  <1> DEFINE r == [WithResult(req) EXCEPT !.phase = IF rec.exit = "zero" THEN "Executed" ELSE "Failed"]
  <1>0. /\ rec.pc = "conclude" /\ req \in Request /\ rec \in Rec /\ (Fault \/ NoFault)
        /\ UNCHANGED <<scope, cache, pods, stdin, late, job>>
        /\ rec' = Idle /\ queued' \in BOOLEAN
        /\ NoCommit \/ (req.exists /\ Commit(r))
    BY DEF Conclude, IInv, TypeOK, Env, End, UpdateStatus
  <1>1. CASE UNCHANGED req
    BY <1>0, <1>1, EndKeeps
  <1>2. CASE req.exists /\ Commit(r)
    <2>1. /\ r \in Request /\ r.named = req.named /\ r.uid = req.uid
          /\ r.phase = "Executed" => rec.exit = "zero"
          /\ r.exit = rec.exit /\ r.reason = req.reason /\ r.finalizer = req.finalizer
          /\ r.exists = req.exists
      BY <1>0 DEF Request, Rec, WithResult
    <2> HIDE DEF r
    <2>2. rec.pc \in Working \ {"addFinalizer"} /\ Quiet
      BY <1>0 DEF IInv, Stage, Working, RecPCs
    <2>3. /\ req.uid \in 0..Len(pods) /\ req.uid # None /\ rec.exit = pods[req.uid].code
          /\ req.reason = "undetermined" => (faults = 0 => pods[req.uid].state = "gone")
      BY <1>0 DEF IInv, TypeOK, Stage, OutcomeReported
    <2> QED BY <1>0, <1>2, <2>1, <2>2, <2>3, StatusKeeps
  <1> QED BY <1>0, <1>1, <1>2 DEF NoCommit

\* markFailed: the Job is stopped, gone or finished, and an undetermined outcome is
\* one whose pod is gone, or that met a fault.
LEMMA MarkFailedKeeps ==
  ASSUME IInv, MarkFailed
  PROVE  IInv'
  <1> DEFINE r == [req EXCEPT !.phase = "Failed", !.reason = rec.reason]
  <1>0. /\ rec.pc = "fail" /\ req \in Request /\ rec \in Rec /\ (Fault \/ NoFault)
        /\ UNCHANGED <<scope, cache, pods, stdin, late, job>>
        /\ rec' = Idle /\ queued' \in BOOLEAN
        /\ NoCommit \/ (req.exists /\ Commit(r))
    BY DEF MarkFailed, IInv, TypeOK, Env, End, UpdateStatus
  <1>1. CASE UNCHANGED req
    BY <1>0, <1>1, EndKeeps
  <1>2. CASE req.exists /\ Commit(r)
    <2>1. /\ r \in Request /\ r.named = req.named /\ r.uid = req.uid /\ r.phase = "Failed"
          /\ r.exit = req.exit /\ r.reason = rec.reason /\ r.finalizer = req.finalizer
          /\ r.exists = req.exists
      BY <1>0 DEF Request, Rec
    <2> HIDE DEF r
    <2>2. rec.pc \in Working \ {"addFinalizer"} /\ Quiet
      BY <1>0 DEF IInv, Stage, Working, RecPCs
    <2>3. /\ req.uid \in 0..Len(pods)
          /\ req.exit # "none" => req.uid # None /\ req.exit = pods[req.uid].code
          /\ rec.reason = "undetermined" =>
               req.uid # None /\ (faults = 0 => pods[req.uid].state = "gone")
      BY <1>0 DEF IInv, TypeOK, Stage, OwnResult
    <2> QED BY <1>0, <1>2, <2>1, <2>2, <2>3, StatusKeeps
  <1> QED BY <1>0, <1>1, <1>2 DEF NoCommit

\* findOrCreateJob, up to the Create.
LEMMA FindJobKeeps ==
  ASSUME IInv, FindJob
  PROVE  IInv'
  <1>0. /\ rec.pc = "findJob" /\ rec \in Rec /\ rec.reason # "undetermined" /\ (Fault \/ NoFault)
        /\ req.named /\ req.uid = None /\ queued \in BOOLEAN /\ job.uid \in Nat
        /\ UNCHANGED <<scope, req, cache, pods, stdin, late, job>>
    BY DEF FindJob, IInv, TypeOK, Stage, NoCommit, Env, Job
  <1>1. CASE rec' = Idle /\ queued' \in BOOLEAN
    BY <1>0, <1>1, EndKeeps
  <1>2. CASE /\ UNCHANGED queued
             /\ \/ rec' = [rec EXCEPT !.pc = "stopAndFail", !.reason = "foreign"]
                \/ rec' = [rec EXCEPT !.pc = "stopAndFail", !.reason = "rejected"]
                \/ rec' = [rec EXCEPT !.pc = "stdin", !.u = job.uid] /\ job.uid # None
                \/ rec' = [rec EXCEPT !.pc = "create"]
    <2>1. /\ rec' \in Rec /\ rec'.snap = rec.snap /\ rec'.u \in {rec.u, job.uid}
          /\ rec'.pc \in {"stopAndFail", "stdin", "create"} /\ rec'.reason # "undetermined"
          /\ rec'.pc = "stdin" => rec'.u # None
      BY <1>0, <1>2 DEF Rec, RecPCs, Reasons
    <2>2. Stage'
      BY <1>0, <2>1 DEF Stage, None
    <2> QED BY <1>0, <1>2, <2>1, <2>2, StepKeeps DEF Working, RecPCs
  <1> QED BY <1>0, <1>1, <1>2 DEF FindJob, End, Step

\* The Job is created under a name minted for a request that cannot have gone away
\* without its Job: it is Approved, and in a target namespace holds its finalizer.
LEMMA CreateJobKeeps ==
  ASSUME IInv, CreateJob
  PROVE  IInv'
  <1>0. /\ rec.pc = "create" /\ rec \in Rec /\ rec.reason # "undetermined" /\ (Fault \/ NoFault)
        /\ req.named /\ req.uid = None /\ queued \in BOOLEAN
        /\ UNCHANGED <<scope, req, cache, stdin, late>>
    BY DEF CreateJob, IInv, TypeOK, Stage, NoCommit
  <1>1. CASE rec' = Idle /\ queued' \in BOOLEAN /\ UNCHANGED <<job, pods>>
    BY <1>0, <1>1, EndKeeps
  <1>2. CASE /\ UNCHANGED <<job, pods, queued>>
             /\ rec' = [rec EXCEPT !.pc = "stopAndFail", !.reason = "rejected"]
    <2>1. /\ rec' \in Rec /\ rec'.snap = rec.snap /\ rec'.u = rec.u
          /\ rec'.pc = "stopAndFail" /\ rec'.reason # "undetermined"
      BY <1>0, <1>2 DEF Rec, RecPCs, Reasons
    <2>2. Stage'
      BY <2>1 DEF Stage
    <2> QED BY <1>0, <1>2, <2>1, <2>2, StepKeeps DEF Working, RecPCs
  <1>3. CASE /\ pods' = Append(pods, NewPod(TRUE)) /\ job' = [NoJob EXCEPT !.uid = Len(pods) + 1]
             /\ \/ rec' = Idle /\ queued' \in BOOLEAN
                \/ /\ rec' = [rec EXCEPT !.pc = "stdin", !.u = Len(pods) + 1, !.fresh = TRUE]
                   /\ UNCHANGED queued
    <2>1. ClusterFacts /\ Len(pods') = Len(pods) + 1 /\ Len(pods) \in Nat
      <3>1. ClusterFacts /\ Len(pods') = Len(pods) + 1
        BY <1>3, JobAppears DEF IInv
      <3>2. Len(pods) \in Nat
        BY DEF IInv, TypeOK
      <3> QED BY <3>1, <3>2
    <2>2. ~(Over /\ (req.exists \/ scope.cross))
      BY <1>0 DEF IInv, Tracks, Guarded, Over, Working, RecPCs
    <2>3. \A n \in 0..Len(pods) : n \in 0..Len(pods')
      BY <2>1
    <2>4. /\ cache' \in Request /\ req' \in Request /\ req'.uid \in 0..Len(pods')
          /\ queued' \in BOOLEAN /\ stdin' \in 0..Len(pods')
      BY <1>0, <1>3, <2>3 DEF IInv, TypeOK
    <2>5. CASE rec' = Idle
      <3>1. rec' \in Rec /\ rec'.u \in 0..Len(pods')
        BY <2>1, <2>5, ConstantRecords DEF Idle, None
      <3>2. TypeOK' /\ (faults' = 0 => faults = 0)
        BY <1>0, <2>1, <2>4, <3>1, WorkerTypes DEF IInv
      <3> QED BY <1>0, <2>1, <2>2, <2>5, <3>2, IdleKeeps
    <2>6. CASE rec' = [rec EXCEPT !.pc = "stdin", !.u = Len(pods) + 1, !.fresh = TRUE]
      <3>0. Len(pods) + 1 \in Nat /\ Len(pods) + 1 # None
        BY <2>1 DEF None
      <3>1. /\ rec' \in Rec /\ rec'.snap = rec.snap /\ rec'.u = Len(pods) + 1
            /\ rec'.pc = "stdin" /\ rec'.reason = rec.reason
        BY <1>0, <2>6, <3>0 DEF Rec, RecPCs
      <3>2. rec'.u \in 0..Len(pods')
        BY <2>1, <3>1
      <3>3. TypeOK' /\ (faults' = 0 => faults = 0)
        BY <1>0, <2>1, <2>4, <3>1, <3>2, WorkerTypes DEF IInv
      <3>4. Tracks'
        BY <1>0, <3>1 DEF IInv, Tracks, Working, RecPCs
      <3>5. Stage'
        BY <1>0, <3>0, <3>1 DEF Stage, None
      <3>6. Deletion'
        BY <1>0, <3>1 DEF IInv, Deletion, Copy
      <3>7. Guarded'
        <4>1. scope.cross => req.finalizer
          BY <1>0 DEF IInv, Guarded, Working, RecPCs
        <4> QED BY <1>0, <2>1, <2>2, <3>3, <4>1, RequestKept DEF Guarded
      <3> QED BY <1>0, <2>1, <2>2, <3>3, <3>4, <3>5, <3>6, <3>7, RequestKept DEF IInv
    <2> QED BY <1>3, <2>5, <2>6
  <1> QED BY <1>0, <1>1, <1>2, <1>3 DEF CreateJob, End, Step

\* ensureStdinSecret.
LEMMA EnsureStdinKeeps ==
  ASSUME IInv, EnsureStdin
  PROVE  IInv'
  <1>0. /\ rec.pc = "stdin" /\ rec \in Rec /\ rec.reason # "undetermined" /\ (Fault \/ NoFault)
        /\ req.named /\ req.uid = None /\ rec.u # None /\ queued \in BOOLEAN
        /\ UNCHANGED <<scope, req, cache, pods, late>> /\ (StopJob \/ UNCHANGED job)
        /\ stdin' \in {stdin, None, rec.u}
    <2>1. /\ rec.pc = "stdin" /\ rec \in Rec /\ rec.reason # "undetermined"
          /\ req.named /\ req.uid = None /\ rec.u # None /\ queued \in BOOLEAN
      BY DEF EnsureStdin, IInv, TypeOK, Stage
    <2>2. /\ UNCHANGED <<scope, req, cache, pods, late>> /\ (StopJob \/ UNCHANGED job)
          /\ (Fault \/ NoFault) /\ stdin' \in {stdin, None, rec.u}
      BY DEF EnsureStdin, NoCommit
    <2> QED BY <2>1, <2>2
  <1>1. CASE rec' = Idle /\ queued' \in BOOLEAN
    BY <1>0, <1>1, EndKeeps
  <1>2. CASE /\ UNCHANGED queued
             /\ \/ rec' = [rec EXCEPT !.pc = "recordUID"]
                \/ rec' = [rec EXCEPT !.pc = "stopAndFail", !.reason = "foreign"]
                \/ rec' = [rec EXCEPT !.pc = "stopAndFail", !.reason = "rejected"]
    <2>1. /\ rec' \in Rec /\ rec'.snap = rec.snap /\ rec'.u = rec.u
          /\ rec'.pc \in {"stopAndFail", "recordUID"} /\ rec'.reason # "undetermined"
      BY <1>0, <1>2 DEF Rec, RecPCs, Reasons
    <2>2. Stage'
      BY <1>0, <2>1 DEF Stage, None
    <2> QED BY <1>0, <1>2, <2>1, <2>2, StepKeeps DEF Working, RecPCs
  <1>3. \/ rec' = Idle /\ queued' \in BOOLEAN
        \/ /\ UNCHANGED queued
           /\ \/ rec' = [rec EXCEPT !.pc = "recordUID"]
              \/ rec' = [rec EXCEPT !.pc = "stopAndFail", !.reason = "foreign"]
              \/ rec' = [rec EXCEPT !.pc = "stopAndFail", !.reason = "rejected"]
    BY <1>0 DEF EnsureStdin, End, Step
  <1> QED BY <1>1, <1>2, <1>3

\* handleApproved on a recorded Job: only the Job of the recorded UID is captured,
\* and a recorded result is concluded from only when the Job is gone.
LEMMA ObserveKeeps ==
  ASSUME IInv, Observe
  PROVE  IInv'
  <1>0. /\ rec.pc = "observe" /\ rec \in Rec /\ rec.reason # "undetermined" /\ NoFault
        /\ req.uid # None /\ rec.snap.uid = req.uid /\ rec.snap.exit = req.exit
        /\ queued \in BOOLEAN /\ job \in Job
        /\ UNCHANGED <<scope, req, cache, pods, stdin, late, job>>
    <2>1. rec.pc = "observe" /\ NoFault /\ UNCHANGED <<scope, req, cache, pods, stdin, late, job>>
      BY DEF Observe, NoCommit, Env
    <2>2. rec \in Rec /\ queued \in BOOLEAN /\ job \in Job
      BY DEF IInv, TypeOK
    <2>3. rec.reason # "undetermined" /\ req.uid # None
      BY <2>1 DEF IInv, Stage
    <2>4. rec.snap.uid = req.uid /\ rec.snap.exit = req.exit
      BY <2>1 DEF IInv, Tracks, Working, RecPCs
    <2> QED BY <2>1, <2>2, <2>3, <2>4
  <1>1. CASE rec' = Idle /\ queued' \in BOOLEAN
    BY <1>0, <1>1, EndKeeps
  <1>2. CASE /\ UNCHANGED queued
             /\ \/ rec' = [rec EXCEPT !.pc = "stopAndFail", !.reason = "replaced"]
                \/ rec' = [rec EXCEPT !.pc = "stopAndFail", !.reason = "timeout"]
    <2>1. /\ rec' \in Rec /\ rec'.snap = rec.snap /\ rec'.u = rec.u
          /\ rec'.pc = "stopAndFail" /\ rec'.reason # "undetermined"
      BY <1>0, <1>2 DEF Rec, RecPCs, Reasons
    <2>2. Stage'
      BY <2>1 DEF Stage
    <2> QED BY <1>0, <1>2, <2>1, <2>2, StepKeeps DEF Working, RecPCs
  <1>3. CASE /\ UNCHANGED queued /\ job.uid = None /\ Recorded(rec.snap)
             /\ rec' = [rec EXCEPT !.pc = "conclude", !.exit = rec.snap.exit, !.output = rec.snap.output]
    <2>0. rec.snap.exit \in Codes /\ rec.snap.output \in Outputs
      BY <1>0 DEF Rec, Request
    <2>1. /\ rec' \in Rec /\ rec'.snap = rec.snap /\ rec'.u = rec.u /\ rec'.pc = "conclude"
          /\ rec'.reason = rec.reason /\ rec'.exit = req.exit
      BY <1>0, <1>3, <2>0 DEF Rec, RecPCs
    <2>2. req.exit # "none" /\ req.exit = pods[req.uid].code
      BY <1>0, <1>3 DEF Recorded, IInv, OwnResult
    <2>3. Quiet'
      BY <1>0, <1>3 DEF Quiet, None
    <2>4. Stage'
      BY <1>0, <2>1, <2>2, <2>3 DEF Stage, None
    <2> QED BY <1>0, <1>3, <2>1, <2>4, StepKeeps DEF Working, RecPCs
  <1>4. CASE /\ UNCHANGED queued /\ job.uid = None
             /\ rec' = [rec EXCEPT !.pc = "fail", !.reason = "disappeared"]
    <2>1. /\ rec' \in Rec /\ rec'.snap = rec.snap /\ rec'.u = rec.u
          /\ rec'.pc = "fail" /\ rec'.reason # "undetermined"
      BY <1>0, <1>4 DEF Rec, RecPCs, Reasons
    <2>2. Quiet'
      BY <1>0, <1>4 DEF Quiet, None
    <2>3. Stage'
      BY <2>1, <2>2 DEF Stage
    <2> QED BY <1>0, <1>4, <2>1, <2>3, StepKeeps DEF Working, RecPCs
  <1>5. CASE /\ UNCHANGED queued /\ job.uid # None /\ ~Replaced
             /\ rec' = [rec EXCEPT !.pc = "capture", !.u = job.uid, !.finished = job.finished]
    <2>0. job.uid \in Nat /\ job.finished \in BOOLEAN
      BY <1>0 DEF Job
    <2>1. /\ rec' \in Rec /\ rec'.snap = rec.snap /\ rec'.u = job.uid
          /\ rec'.pc = "capture" /\ rec'.reason = rec.reason /\ rec'.finished = job.finished
      BY <1>0, <1>5, <2>0 DEF Rec, RecPCs
    <2>2. job.uid = req.uid
      BY <1>0, <1>5 DEF Replaced
    <2>3. job.finished => Quiet' /\ pods'[job.uid].state \in PodOver
      BY <1>0 DEF IInv, Cluster, Quiet
    <2>4. Stage'
      BY <1>0, <2>1, <2>2, <2>3 DEF Stage, None, PodOver
    <2> QED BY <1>0, <1>5, <2>1, <2>4, StepKeeps DEF Working, RecPCs
  <1>6. \/ rec' = Idle /\ queued' \in BOOLEAN
        \/ UNCHANGED queued /\ rec' = [rec EXCEPT !.pc = "stopAndFail", !.reason = "replaced"]
        \/ UNCHANGED queued /\ rec' = [rec EXCEPT !.pc = "stopAndFail", !.reason = "timeout"]
        \/ job.uid = None /\ JobMissing
        \/ /\ UNCHANGED queued /\ job.uid # None /\ ~Replaced
           /\ rec' = [rec EXCEPT !.pc = "capture", !.u = job.uid, !.finished = job.finished]
    BY <1>0 DEF Observe, End, Step
  <1>7. CASE job.uid = None /\ JobMissing
    BY <1>3, <1>4, <1>7 DEF JobMissing, Step
  <1> QED BY <1>1, <1>2, <1>5, <1>6, <1>7

\* The pod as it is read is the pod there is, when that has ended.
LEMMA JobPodEffect ==
  ASSUME TypeOK, NEW u \in Uids
  PROVE  /\ JobPod(u).state = "ended" <=> pods[u].state = "ended"
         /\ pods[u].state = "ended" => JobPod(u) = pods[u]
         /\ pods[u].code \in Codes
  <1>1. Len(pods) \in Nat /\ pods[u] \in Pod
    BY DEF TypeOK, Uids
  <1>2. u # None
    BY <1>1 DEF Uids, None
  <1> QED BY <1>1, <1>2 DEF JobPod, NewPod, Pod

\* captureJobOutput: the exit code captured is that of the recorded pod, and it stays
\* undetermined only when that pod is gone or a call failed.
LEMMA CaptureOutputKeeps ==
  ASSUME IInv, CaptureOutput
  PROVE  IInv'
  <1>0. /\ rec.pc = "capture" /\ rec \in Rec /\ rec.reason # "undetermined" /\ (Fault \/ NoFault)
        /\ req.uid # None /\ rec.u = req.uid /\ queued \in BOOLEAN /\ rec.u \in Uids
        /\ rec.finished => Quiet /\ pods[rec.u].state \in PodOver
        /\ UNCHANGED <<scope, req, cache, pods, stdin, late, job>>
    <2>1. /\ rec.pc = "capture" /\ (Fault \/ NoFault)
          /\ UNCHANGED <<scope, req, cache, pods, stdin, late, job>>
      BY DEF CaptureOutput, NoCommit, Env
    <2>2. rec \in Rec /\ queued \in BOOLEAN
      BY DEF IInv, TypeOK
    <2>3. /\ rec.reason # "undetermined" /\ req.uid # None /\ rec.u = req.uid
          /\ rec.finished => Quiet /\ pods[rec.u].state \in PodOver
      BY <2>1 DEF IInv, Stage
    <2>4. rec.u \in Uids
      BY <2>3, UidsKnown DEF IInv
    <2> QED BY <2>1, <2>2, <2>3, <2>4
  <1> DEFINE pod == JobPod(rec.u)
  <1>1. /\ pod.state = "ended" => pod.code = pods[rec.u].code /\ pod.code # "none" /\ pod.code \in Codes
        /\ pod.state # "ended" /\ rec.finished => pods[rec.u].state = "gone"
    <2>1. /\ pod.state = "ended" <=> pods[rec.u].state = "ended"
          /\ pods[rec.u].state = "ended" => pod = pods[rec.u]
          /\ pods[rec.u].code \in Codes
      BY <1>0, JobPodEffect DEF IInv
    <2>2. pods[rec.u].state = "ended" => pods[rec.u].code # "none"
      BY <1>0 DEF IInv, Cluster
    <2> QED BY <1>0, <2>1, <2>2 DEF PodOver
  <1>2. \/ rec' = Idle /\ queued' \in BOOLEAN
        \/ /\ UNCHANGED queued /\ rec.finished
           /\ rec' = [rec EXCEPT !.pc = "fail", !.reason = "undetermined"]
           /\ Fault \/ pod.state # "ended"
        \/ /\ UNCHANGED queued /\ pod.state = "ended"
           /\ \E out \in {"Available", "CaptureFailed", "DeliveryFailed"} :
                rec' = Captured(pod.code, out)
    BY <1>0 DEF CaptureOutput, End, Step
  <1> HIDE DEF pod
  <1>3. CASE rec' = Idle /\ queued' \in BOOLEAN
    BY <1>0, <1>3, EndKeeps
  <1>4. CASE /\ UNCHANGED queued /\ rec.finished
             /\ rec' = [rec EXCEPT !.pc = "fail", !.reason = "undetermined"]
             /\ Fault \/ pod.state # "ended"
    <2>1. /\ rec' \in Rec /\ rec'.snap = rec.snap /\ rec'.u = rec.u
          /\ rec'.pc = "fail" /\ rec'.reason = "undetermined"
      BY <1>0, <1>4 DEF Rec, RecPCs, Reasons
    <2>2. Quiet'
      BY <1>0, <1>4, JobHeld
    <2>3. faults' = 0 => pods'[req.uid].state = "gone"
      <3>1. Fault => faults' # 0
        BY DEF Fault, IInv, TypeOK
      <3> QED BY <1>0, <1>1, <1>4, <3>1
    <2>4. Stage'
      BY <1>0, <2>1, <2>2, <2>3 DEF Stage, None
    <2> QED BY <1>0, <1>4, <2>1, <2>4, StepKeeps DEF Working, RecPCs
  <1>5. CASE /\ UNCHANGED queued /\ pod.state = "ended"
             /\ \E out \in {"Available", "CaptureFailed", "DeliveryFailed"} :
                  rec' = Captured(pod.code, out)
    <2>0. PICK out \in {"Available", "CaptureFailed", "DeliveryFailed"} : rec' = Captured(pod.code, out)
      BY <1>5
    <2>1. /\ rec' \in Rec /\ rec'.snap = rec.snap /\ rec'.u = rec.u /\ rec'.exit = pod.code
          /\ rec'.pc \in {"conclude", "recordResult", "teardown"}
          /\ rec'.pc = "conclude" => rec.finished
          /\ rec'.reason = rec.reason
      BY <1>0, <1>1, <1>5, <2>0 DEF Rec, RecPCs, Outputs, Captured
    <2>2. rec.finished => Quiet'
      BY <1>0, JobHeld
    <2>3. Stage'
      BY <1>0, <1>1, <1>5, <2>1, <2>2 DEF Stage, None
    <2> QED BY <1>0, <1>5, <2>1, <2>3, StepKeeps DEF Working, RecPCs
  <1> QED BY <1>2, <1>3, <1>4, <1>5

\* Sidecar teardown: the Job is stopped before the terminal write.
LEMMA TeardownKeeps ==
  ASSUME IInv, Teardown
  PROVE  IInv'
  <1>0. /\ rec.pc = "teardown" /\ rec \in Rec /\ rec.reason # "undetermined" /\ (Fault \/ NoFault)
        /\ req.uid # None /\ rec.exit # "none" /\ rec.exit = pods[req.uid].code /\ queued \in BOOLEAN
        /\ UNCHANGED <<scope, req, cache, pods, stdin, late>>
    BY DEF Teardown, IInv, TypeOK, Stage, NoCommit, Env
  <1>1. CASE UNCHANGED job /\ Fault /\ End(TRUE)
    BY <1>0, <1>1, EndKeeps DEF End
  <1>2. CASE StopJob /\ NoFault /\ Step([rec EXCEPT !.pc = "conclude"])
    <2>1. /\ rec' \in Rec /\ rec'.snap = rec.snap /\ rec'.u = rec.u /\ rec'.pc = "conclude"
          /\ rec'.reason = rec.reason /\ rec'.exit = rec.exit /\ UNCHANGED queued
      BY <1>0, <1>2 DEF Rec, RecPCs, Step
    <2>2. Quiet'
      BY <1>0, <1>2, JobHeld
    <2>3. Stage'
      BY <1>0, <2>1, <2>2 DEF Stage, None
    <2> QED BY <1>0, <1>2, <2>1, <2>3, StepKeeps DEF Working, RecPCs
  <1> QED BY <1>1, <1>2 DEF Teardown

\* failApproved: the Job is stopped before the request is failed.
LEMMA StopAndFailKeeps ==
  ASSUME IInv, StopAndFail
  PROVE  IInv'
  <1>0. /\ rec.pc = "stopAndFail" /\ rec \in Rec /\ rec.reason # "undetermined" /\ (Fault \/ NoFault)
        /\ queued \in BOOLEAN /\ UNCHANGED <<scope, req, cache, pods, stdin, late>>
    BY DEF StopAndFail, IInv, TypeOK, Stage, NoCommit, Env
  <1>1. CASE UNCHANGED job /\ Fault /\ End(TRUE)
    BY <1>0, <1>1, EndKeeps DEF End
  <1>2. CASE StopJob /\ NoFault /\ Step([rec EXCEPT !.pc = "fail"])
    <2>1. /\ rec' \in Rec /\ rec'.snap = rec.snap /\ rec'.u = rec.u /\ rec'.pc = "fail"
          /\ rec'.reason = rec.reason /\ UNCHANGED queued
      BY <1>0, <1>2 DEF Rec, RecPCs, Step
    <2>2. Quiet'
      BY <1>0, <1>2, JobHeld
    <2>3. Stage'
      BY <1>0, <2>1, <2>2 DEF Stage
    <2> QED BY <1>0, <1>2, <2>1, <2>3, StepKeeps DEF Working, RecPCs
  <1> QED BY <1>1, <1>2 DEF StopAndFail

-----------------------------------------------------------------------------
(* The theorems.                                                           *)

\* The approved request, before its first reconcile, satisfies the invariant.
LEMMA InitEstablishes ==
  ASSUME Init
  PROVE  IInv
  <1>1. /\ req = ApprovedRequest /\ cache = ApprovedRequest /\ job = NoJob /\ pods = << >>
        /\ stdin = 0 /\ late = FALSE /\ queued = TRUE /\ rec = Idle /\ faults = 0
        /\ scope \in [cross: CrossNamespace, stdin: Stdin, sidecar: Sidecar]
    BY DEF Init, None
  <1>2. /\ req.rv = 1 /\ req.exists /\ req.phase = "Approved" /\ ~req.named /\ req.uid = 0
        /\ req.exit = "none" /\ req.reason = "none" /\ ~req.finalizer
        /\ job.uid = 0 /\ ~job.finished
        /\ rec.pc = "idle" /\ rec.u = 0 /\ rec.reason = "none"
    BY <1>1 DEF ApprovedRequest, NoJob, Idle, None
  <1>3. pods \in Seq(Pod) /\ Len(pods) = 0
    BY <1>1
  <1>4. TypeOK
    <2>1. req \in Request /\ cache \in Request /\ job \in Job /\ rec \in Rec
      BY <1>1, ConstantRecords
    <2>2. 0 \in 0..Len(pods) /\ 0 \in Nat /\ faults \in 0..MaxFaults
      BY <1>1, <1>3, MaxFaultsAssumption
    <2>3. stdin = 0 /\ late \in BOOLEAN /\ queued \in BOOLEAN
      BY <1>1
    <2>4. scope \in [cross: CrossNamespace, stdin: Stdin, sidecar: Sidecar]
      BY <1>1
    <2> QED BY <1>2, <1>3, <2>1, <2>2, <2>3, <2>4 DEF TypeOK
  <1>5. Cluster /\ Tracks /\ Stage /\ Lost
    BY <1>2, <1>3 DEF Cluster, Tracks, Stage, Lost, Uids, Working
  <1>6. Deletion /\ Guarded
    BY <1>1, <1>2 DEF Deletion, Copy, Guarded, Working, None
  <1>7. NoOrphanWorkload /\ OwnResult /\ OutcomeReported
    BY <1>2 DEF NoOrphanWorkload, OwnResult, OutcomeReported, None
  <1> QED BY <1>4, <1>5, <1>6, <1>7 DEF IInv

\* Every step of the specification keeps the invariant.
LEMMA NextKeeps ==
  ASSUME IInv, [Next]_vars
  PROVE  IInv'
  <1>1. CASE UNCHANGED vars
    <2>1. /\ UNCHANGED <<scope, req, cache, job, pods, stdin, late, queued, rec, faults>>
          /\ job \in Job /\ late \in BOOLEAN
      BY <1>1 DEF vars, IInv, TypeOK
    <2> QED BY <2>1, JobKeeps DEF NoFault
  <1>2. CASE RecStep
    BY <1>2, FinalizeStopJobKeeps, FinalizeReleaseKeeps, HandleApprovedKeeps, AddFinalizerKeeps,
       MintNamesKeeps, FindJobKeeps, CreateJobKeeps, EnsureStdinKeeps, RecordUIDKeeps, ObserveKeeps,
       CaptureOutputKeeps, RecordResultKeeps, TeardownKeeps, ConcludeKeeps, StopAndFailKeeps,
       MarkFailedKeeps, ReadFailsKeeps DEF RecStep
  <1> QED BY <1>1, <1>2, CacheSyncKeeps, CrashKeeps, UserDeleteKeeps, ReconcileKeeps, ClusterStepKeeps
          DEF Next

\* The inductive invariant holds in every reachable state.
LEMMA Invariance == Spec => []IInv
  BY InitEstablishes, NextKeeps, PTL DEF Spec

\* Every variable keeps its type in every execution: in particular no UID is ever
\* recorded or worked on that is not the UID of a Job that was created.
THEOREM ExecutorTypeCorrect == Spec => []TypeOK
  <1>1. IInv => TypeOK
    BY DEF IInv
  <1> QED BY <1>1, Invariance, PTL

\* The result reported is the approved workload's own: the recorded exit code is that
\* of the pod of the recorded Job UID, and Executed means that it exited with 0
\* (handleApproved's UID check, captureJobOutput, finalizeFromRecordedResult).
THEOREM ResultIsOwn == Spec => []OwnResult
  <1>1. IInv => OwnResult
    BY DEF IInv
  <1> QED BY <1>1, Invariance, PTL

\* No executor Job of ours is left running once the request is terminal or deleted
\* (failApproved, the sidecar teardown, the executor-cleanup finalizer).
THEOREM NothingOrphaned == Spec => []NoOrphanWorkload
  <1>1. IInv => NoOrphanWorkload
    BY DEF IInv
  <1> QED BY <1>1, Invariance, PTL

\* Without a fault an outcome is undetermined only when the pod is gone
\* (captureJobOutput, podTerminated).
THEOREM OutcomesReported == Spec => []OutcomeReported
  <1>1. IInv => OutcomeReported
    BY DEF IInv
  <1> QED BY <1>1, Invariance, PTL

\* Once the Job UID is recorded no Job of ours is created again (types.go,
\* ExecutorJobUID; handleApproved creates only while the UID is empty).
THEOREM NeverReplayed == Spec => NoReplayOnceRecorded
  <1> DEFINE NoNewJob == req.uid # None =>
                           \A u \in 1..Len(pods') : pods'[u].ours => u \in 1..Len(pods)
  <1>1. ASSUME IInv, [Next]_vars
        PROVE  [NoNewJob]_vars
    <2>0. pods \in Seq(Pod) /\ Len(pods) \in Nat
      BY <1>1 DEF IInv, TypeOK
    <2>1. CASE pods' = pods
      BY <2>1
    <2>2. CASE CreateJob
      BY <1>1, <2>2 DEF CreateJob, IInv, Stage
    <2>3. CASE ForeignJob
      <3>1. Len(pods') = Len(pods) + 1 /\ ~pods'[Len(pods) + 1].ours
        BY <1>1, <2>3, JobAppears DEF ForeignJob, IInv
      <3> QED BY <2>0, <3>1
    <2>4. CASE \E u \in 1..Len(pods) : \/ PodScheduled(u) \/ ExecutorStarts(u) \/ ExecutorExits(u)
                                       \/ InitContainerFails(u) \/ PodLost(u) \/ PodReaped(u)
      <3>1. \E u, p : pods' = [pods EXCEPT ![u] = p]
        BY <2>4 DEF PodScheduled, ExecutorStarts, ExecutorExits, InitContainerFails, PodLost,
                    PodReaped, SetPod
      <3>2. Len(pods') = Len(pods)
        BY <2>0, <3>1
      <3> QED BY <3>2
    <2>5. pods' = pods \/ CreateJob \/ ForeignJob
          \/ \E u \in 1..Len(pods) : \/ PodScheduled(u) \/ ExecutorStarts(u) \/ ExecutorExits(u)
                                     \/ InitContainerFails(u) \/ PodLost(u) \/ PodReaped(u)
      <3>1. RecStep => CreateJob \/ pods' = pods
        BY DEF RecStep, FinalizeStopJob, FinalizeRelease, HandleApproved, AddFinalizer, MintNames,
               FindJob, EnsureStdin, RecordUID, Observe, CaptureOutput, RecordResult, Teardown,
               Conclude, StopAndFail, MarkFailed, ReadFails, Env
      <3>2. CacheSync \/ Crash \/ UserDelete \/ Reconcile => pods' = pods
        BY DEF CacheSync, Crash, UserDelete, Reconcile, Env
      <3>3. JobFinishes \/ JobGone \/ StdinReaped \/ OwnerCascade \/ StartDeadlinePasses => pods' = pods
        BY DEF JobFinishes, JobGone, StdinReaped, OwnerCascade, StartDeadlinePasses
      <3>4. UNCHANGED vars => pods' = pods
        BY DEF vars
      <3> QED BY <1>1, <3>1, <3>2, <3>3, <3>4 DEF Next, ClusterStep
    <2> QED BY <2>1, <2>2, <2>3, <2>4, <2>5
  <1>2. Spec => [][NoNewJob]_vars
    BY <1>1, Invariance, PTL DEF Spec
  <1> QED BY <1>2 DEF NoReplayOnceRecorded
=============================================================================
