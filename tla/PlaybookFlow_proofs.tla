------------------------ MODULE PlaybookFlow_proofs ------------------------
(***************************************************************************)
(* Proofs about PlaybookFlow, for any number of Jobs, faults and stale     *)
(* reconciles: what the playbook deletes was vetted, and Executed means    *)
(* that the pinned Job is gone.                                            *)
(***************************************************************************)
EXTENDS PlaybookFlow, SequenceTheorems, TLAPS

\* What a UID precondition can rely on: the Target is the one Job that nobody has
\* removed, and there is none only when all are removed.
LEMMA TargetIsLive ==
  ASSUME jobs \in Seq(Job)
  PROVE  /\ Target \in 0..Len(jobs)
         /\ Target = None => \A u \in Uids : jobs[u].by # "nobody"
         /\ Target # None => Target \in Uids /\ jobs[Target].by = "nobody"
  <1> DEFINE live(u) == u \in Uids /\ jobs[u].by = "nobody"
  <1>1. Len(jobs) \in Nat
    OBVIOUS
  <1>2. CASE \E u \in Uids : jobs[u].by = "nobody"
    <2>1. live(CHOOSE u \in Uids : jobs[u].by = "nobody")
      BY <1>2
    <2> QED BY <1>1, <1>2, <2>1 DEF Target, Uids, None
  <1>3. CASE ~ \E u \in Uids : jobs[u].by = "nobody"
    BY <1>1, <1>3 DEF Target, Uids, None
  <1> QED BY <1>2, <1>3

-----------------------------------------------------------------------------
(* Types.                                                                  *)

\* The initial states are well typed.
LEMMA InitType == Init => TypeOK
  BY BoundsAssumption DEF Init, TypeOK, NewRequest, Idle, None, Request, Rec, Pins, Job

\* One field of one Job changes; the others stay as they were.
LEMMA OneJobChanges ==
  ASSUME jobs \in Seq(Job), NEW u \in Uids, NEW j \in Job, NEW js, js = [jobs EXCEPT ![u] = j]
  PROVE  js \in Seq(Job) /\ Len(js) = Len(jobs) /\ \A v \in Uids : js[v] = IF v = u THEN j ELSE jobs[v]
  BY ExceptSeq DEF Uids

\* Replacing one Job by a Job keeps the table of Jobs well typed.
LEMMA JobsAreJobs ==
  ASSUME jobs \in Seq(Job), NEW u \in Uids
  PROVE  /\ jobs[u] \in Job
         /\ [jobs[u] EXCEPT !.by = "playbook"] \in Job
         /\ [jobs[u] EXCEPT !.by = "others"] \in Job
         /\ [jobs[u] EXCEPT !.terminal = TRUE] \in Job
  <1>1. jobs[u] \in Job
    BY ElementOfSeq DEF Uids
  <1> QED BY <1>1 DEF Job

\* A worker at rest is a well-typed one that has looked at no Job.
LEMMA IdleType == Idle \in Rec /\ Idle.u = 0
  BY DEF Idle, Rec, NewRequest, Request, None

\* Ending a reconcile leaves the worker well typed, whatever the result.
LEMMA EndType ==
  ASSUME queued \in BOOLEAN, NEW again \in BOOLEAN, End(again)
  PROVE  rec' = Idle /\ queued' \in BOOLEAN
  BY DEF End

\* A call that may fail keeps the count of faults within its bound.
LEMMA BudgetType ==
  ASSUME faults \in 0..MaxFaults, Fault \/ NoFault
  PROVE  faults' \in 0..MaxFaults
  BY BoundsAssumption DEF Fault, NoFault

\* A committed status write leaves request and cache well typed.
LEMMA CommitType ==
  ASSUME req \in Request, NEW r \in Request, Commit(r)
  PROVE  req' \in Request /\ req'.uid = r.uid /\ req'.phase = r.phase
  <1>1. req.rv + 1 \in Nat
    BY DEF Request
  <1> QED BY <1>1 DEF Commit, Request

\* updateStatus, with its refetch and every outcome, keeps the types.
LEMMA UpdateStatusType ==
  ASSUME TypeOK, NEW r \in Request, NEW again \in BOOLEAN, UpdateStatus(r, again)
  PROVE  /\ req' \in Request
         /\ req' = req \/ (req'.uid = r.uid /\ req'.phase = r.phase)
         /\ rec' = Idle /\ queued' \in BOOLEAN /\ faults' \in 0..MaxFaults
  <1>1. req \in Request /\ queued \in BOOLEAN /\ faults \in 0..MaxFaults
    BY DEF TypeOK
  <1>2. (Commit(r) \/ UNCHANGED req) /\ (End(again) \/ End(TRUE)) /\ (Fault \/ NoFault)
    BY DEF UpdateStatus
  <1> QED BY <1>1, <1>2, CommitType, EndType, BudgetType

\* The worker moves on in a typed way, or ends.
LEMMA WorkerType ==
  ASSUME TypeOK, NEW r, r \in Rec, r.u \in 0..Len(jobs),
         Goto(r) \/ End(TRUE), Fault \/ NoFault
  PROVE  rec' \in Rec /\ rec'.u \in 0..Len(jobs) /\ queued' \in BOOLEAN /\ faults' \in 0..MaxFaults
  <1>1. faults' \in 0..MaxFaults
    BY BudgetType DEF TypeOK
  <1>2. CASE Goto(r)
    BY <1>1, <1>2 DEF Goto, TypeOK
  <1>3. CASE End(TRUE)
    <2>1. rec' = Idle /\ queued' \in BOOLEAN
      BY <1>3, EndType DEF TypeOK
    <2>2. 0 \in 0..Len(jobs)
      BY DEF TypeOK
    <2> QED BY <1>1, <2>1, <2>2, IdleType
  <1> QED BY <1>2, <1>3

\* Every step of the playbook path preserves the type invariant.
LEMMA TypeStep == TypeOK /\ [Next]_vars => TypeOK'
  <1> SUFFICES ASSUME TypeOK, [Next]_vars PROVE TypeOK'
    OBVIOUS
  <1>a. jobs \in Seq(Job) /\ Len(jobs) \in Nat /\ 0 \in 0..Len(jobs)
    BY DEF TypeOK
  <1>b. rec \in Rec /\ rec.u \in 0..Len(jobs) /\ req \in Request /\ req.uid \in 0..Len(jobs)
    BY DEF TypeOK
  <1>1. CASE JobCreated
    <2> PICK m \in BOOLEAN : jobs' = Append(jobs, [terminal |-> FALSE, matches |-> m, by |-> "nobody"])
      BY <1>1 DEF JobCreated
    <2>1. jobs' \in Seq(Job) /\ Len(jobs') = Len(jobs) + 1
      BY <1>a DEF Job
    <2>2. 0..Len(jobs) \subseteq 0..Len(jobs') /\ Len(jobs') =< MaxJobs
      BY <1>1, <1>a, <2>1, BoundsAssumption DEF JobCreated
    <2> QED BY <1>1, <1>a, <2>1, <2>2 DEF JobCreated, TypeOK
  <1>2. CASE JobFinishes
    <2> DEFINE j == [jobs[Target] EXCEPT !.terminal = TRUE]
    <2>1. Target \in Uids
      BY <1>2, <1>a, TargetIsLive DEF JobFinishes
    <2>2. jobs' = [jobs EXCEPT ![Target] = j]
      BY <1>2 DEF JobFinishes
    <2>j. j \in Job
      BY <1>a, <2>1, JobsAreJobs
    <2> HIDE DEF j
    <2>3. jobs' \in Seq(Job) /\ Len(jobs') = Len(jobs)
      BY <1>a, <2>1, <2>2, <2>j, OneJobChanges
    <2> QED BY <1>2, <2>3 DEF JobFinishes, TypeOK
  <1>3. CASE JobRemoved
    <2> DEFINE j == [jobs[Target] EXCEPT !.by = "others"]
    <2>1. Target \in Uids
      BY <1>3, <1>a, TargetIsLive DEF JobRemoved
    <2>2. jobs' = [jobs EXCEPT ![Target] = j]
      BY <1>3 DEF JobRemoved
    <2>j. j \in Job
      BY <1>a, <2>1, JobsAreJobs
    <2> HIDE DEF j
    <2>3. jobs' \in Seq(Job) /\ Len(jobs') = Len(jobs)
      BY <1>a, <2>1, <2>2, <2>j, OneJobChanges
    <2> QED BY <1>3, <2>3 DEF JobRemoved, TypeOK
  <1>4. CASE CacheSync
    BY <1>4 DEF CacheSync, TypeOK
  <1>5. CASE Crash
    <2>1. faults' \in 0..MaxFaults
      BY <1>5, BudgetType DEF Crash, TypeOK
    <2> QED BY <1>5, <1>a, <2>1, IdleType DEF Crash, TypeOK
  <1>6. CASE Reconcile
    <2>1. cache \in Request
      BY DEF TypeOK
    <2>2. /\ [Idle EXCEPT !.pc = "prepare", !.snap = cache] \in Rec
          /\ [Idle EXCEPT !.pc = "prepare", !.snap = cache].u = 0
      BY <2>1 DEF Idle, Rec, None
    <2>4. /\ [Idle EXCEPT !.pc = "approved", !.snap = cache] \in Rec
          /\ [Idle EXCEPT !.pc = "approved", !.snap = cache].u = 0
      BY <2>1 DEF Idle, Rec, None
    <2>6. \/ rec' = Idle
          \/ rec' = [Idle EXCEPT !.pc = "prepare", !.snap = cache]
          \/ rec' = [Idle EXCEPT !.pc = "approved", !.snap = cache]
      BY <1>6 DEF Reconcile
    <2>5. rec' \in Rec /\ rec'.u = 0
      BY <2>2, <2>4, <2>6, IdleType
    <2>3. stale' \in 0..MaxStale
      BY <1>6, BoundsAssumption DEF Reconcile, TypeOK
    <2> QED BY <1>6, <1>a, <2>3, <2>5 DEF Reconcile, TypeOK
  <1>7. CASE Prepare
    <2>1. Target \in 0..Len(jobs) /\ Target \in Nat
      BY <1>a, TargetIsLive
    <2>2. [rec EXCEPT !.pc = "approve", !.u = Target] \in Rec /\ [rec EXCEPT !.pc = "fallback"] \in Rec
      BY <1>b, <2>1 DEF Rec
    <2>3. /\ [rec EXCEPT !.pc = "approve", !.u = Target].u \in 0..Len(jobs)
          /\ [rec EXCEPT !.pc = "fallback"].u \in 0..Len(jobs)
      BY <1>b, <2>1 DEF Rec
    <2>4. rec' \in Rec /\ rec'.u \in 0..Len(jobs) /\ queued' \in BOOLEAN /\ faults' \in 0..MaxFaults
      BY <1>7, <2>2, <2>3, WorkerType DEF Prepare
    <2> QED BY <1>7, <2>4 DEF Prepare, TypeOK
  <1>8. CASE ApprovePlaybook
    <2> DEFINE r == [req EXCEPT !.phase = "Approved", !.auto = TRUE, !.uid = rec.u, !.absent = (rec.u = None)]
    <2>1. r \in Request /\ r.uid = rec.u
      BY <1>b DEF Request, Rec
    <2>2. UpdateStatus(r, TRUE)
      BY <1>8 DEF ApprovePlaybook
    <2>3. first' \in [pin: Pins, uid: 0..Len(jobs)]
      BY <1>8, <1>b DEF ApprovePlaybook, TypeOK, Pins
    <2> HIDE DEF r
    <2>4. /\ req' \in Request /\ req'.uid \in 0..Len(jobs)
          /\ rec' = Idle /\ queued' \in BOOLEAN /\ faults' \in 0..MaxFaults
      BY <1>b, <2>1, <2>2, UpdateStatusType
    <2> QED BY <1>8, <2>3, <2>4, <1>a, IdleType DEF ApprovePlaybook, TypeOK
  <1>9. CASE FallBack
    <2>1. [req EXCEPT !.phase = "Pending"] \in Request /\ [req EXCEPT !.phase = "Pending"].uid = req.uid
      BY <1>b DEF Request
    <2>2. req' \in Request /\ req'.uid \in 0..Len(jobs)
      BY <1>9, <1>b, <2>1, CommitType DEF FallBack
    <2>3. faults' \in 0..MaxFaults
      BY <1>9, BudgetType DEF FallBack, TypeOK
    <2>4. rec' = Idle /\ queued' \in BOOLEAN
      BY <1>9, EndType DEF FallBack, TypeOK
    <2> QED BY <1>9, <1>a, <2>2, <2>3, <2>4, IdleType DEF FallBack, TypeOK
  <1>10. CASE HandleApproved
    <2>1. [rec EXCEPT !.pc = "execute", !.snap = req] \in Rec
      BY <1>b DEF Rec
    <2>2. [rec EXCEPT !.pc = "execute", !.snap = req].u \in 0..Len(jobs)
      BY <1>b DEF Rec
    <2>3. rec' \in Rec /\ rec'.u \in 0..Len(jobs) /\ queued' \in BOOLEAN /\ faults' \in 0..MaxFaults
      BY <1>10, <2>1, <2>2, WorkerType DEF HandleApproved
    <2> QED BY <1>10, <2>3 DEF HandleApproved, TypeOK
  <1>11. CASE ExecutePlaybook
    <2> DEFINE r == [rec EXCEPT !.pc = Verdict(rec.snap, Target), !.u = Target]
    <2>1. Verdict(rec.snap, Target) \in {"executed", "delete", "failed"}
      BY DEF Verdict
    <2>2. Target \in 0..Len(jobs)
      BY <1>a, TargetIsLive
    <2>3. r \in Rec /\ r.u \in 0..Len(jobs)
      <3>1. ASSUME NEW pc \in {"executed", "delete", "failed"}, NEW u \in 0..Len(jobs)
            PROVE  [rec EXCEPT !.pc = pc, !.u = u] \in Rec /\ [rec EXCEPT !.pc = pc, !.u = u].u = u
        <4>1. u \in Nat /\ pc \in {"idle", "prepare", "approve", "fallback", "approved", "execute",
                                   "delete", "executed", "failed"}
          BY <1>a
        <4> QED BY <1>b, <4>1 DEF Rec
      <3> QED BY <2>1, <2>2, <3>1
    <2>4. Goto(r) \/ End(TRUE)
      BY <1>11 DEF ExecutePlaybook
    <2> HIDE DEF r
    <2>5. rec' \in Rec /\ rec'.u \in 0..Len(jobs) /\ queued' \in BOOLEAN /\ faults' \in 0..MaxFaults
      BY <1>11, <2>3, <2>4, WorkerType DEF ExecutePlaybook
    <2> QED BY <1>11, <2>5 DEF ExecutePlaybook, TypeOK
  <1>12. CASE DeleteTarget
    <2>1. [rec EXCEPT !.pc = "executed"] \in Rec /\ [rec EXCEPT !.pc = "executed"].u \in 0..Len(jobs)
      BY <1>b DEF Rec
    <2>2. Goto([rec EXCEPT !.pc = "executed"]) \/ End(TRUE)
      BY <1>12 DEF DeleteTarget
    <2>3. rec' \in Rec /\ rec'.u \in 0..Len(jobs) /\ queued' \in BOOLEAN /\ faults' \in 0..MaxFaults
      BY <1>12, <2>1, <2>2, WorkerType DEF DeleteTarget
    <2>4. jobs' = jobs \/ jobs' = [jobs EXCEPT ![rec.u] = [jobs[rec.u] EXCEPT !.by = "playbook"]]
      BY <1>12 DEF DeleteTarget
    <2>5. jobs' \in Seq(Job) /\ Len(jobs') = Len(jobs)
      <3>1. CASE rec.u \in Uids
        <4> DEFINE j == [jobs[rec.u] EXCEPT !.by = "playbook"]
        <4>1. j \in Job
          BY <1>a, <3>1, JobsAreJobs
        <4>2. jobs' = jobs \/ jobs' = [jobs EXCEPT ![rec.u] = j]
          BY <2>4
        <4> HIDE DEF j
        <4>3. ASSUME NEW u \in Uids, jobs' = [jobs EXCEPT ![u] = j]
              PROVE  jobs' \in Seq(Job) /\ Len(jobs') = Len(jobs)
          BY <1>a, <4>1, <4>3, OneJobChanges
        <4> QED BY <1>a, <3>1, <4>2, <4>3
      <3>2. CASE rec.u \notin Uids
        <4>1. DOMAIN jobs = Uids /\ jobs = [v \in Uids |-> jobs[v]]
          BY <1>a DEF Uids
        <4>2. [jobs EXCEPT ![rec.u] = [jobs[rec.u] EXCEPT !.by = "playbook"]] = [v \in Uids |-> jobs[v]]
          BY <3>2, <4>1
        <4> QED BY <1>a, <2>4, <4>1, <4>2
      <3> QED BY <3>1, <3>2
    <2> QED BY <1>12, <2>3, <2>5 DEF DeleteTarget, TypeOK
  <1>13. CASE MarkPlaybookExecuted
    <2>1. [req EXCEPT !.phase = "Executed"] \in Request /\ [req EXCEPT !.phase = "Executed"].uid = req.uid
      BY <1>b DEF Request
    <2>2. /\ req' \in Request /\ req'.uid \in 0..Len(jobs)
          /\ rec' = Idle /\ queued' \in BOOLEAN /\ faults' \in 0..MaxFaults
      BY <1>13, <1>b, <2>1, UpdateStatusType DEF MarkPlaybookExecuted
    <2> QED BY <1>13, <1>a, <2>2, IdleType DEF MarkPlaybookExecuted, TypeOK
  <1>14. CASE MarkFailed
    <2>1. [req EXCEPT !.phase = "Failed"] \in Request /\ [req EXCEPT !.phase = "Failed"].uid = req.uid
      BY <1>b DEF Request
    <2>2. /\ req' \in Request /\ req'.uid \in 0..Len(jobs)
          /\ rec' = Idle /\ queued' \in BOOLEAN /\ faults' \in 0..MaxFaults
      BY <1>14, <1>b, <2>1, UpdateStatusType DEF MarkFailed
    <2> QED BY <1>14, <1>a, <2>2, IdleType DEF MarkFailed, TypeOK
  <1>15. CASE UNCHANGED vars
    BY <1>15 DEF vars, TypeOK
  <1> QED BY <1>1, <1>2, <1>3, <1>4, <1>5, <1>6, <1>7, <1>8, <1>9, <1>10, <1>11, <1>12, <1>13, <1>14,
             <1>15 DEF Next, RecStep

\* Whatever the cluster does under the target's name, the controller only ever
\* writes well-formed requests and refers to Jobs that existed.
THEOREM PlaybookTypeCorrect == Spec => []TypeOK
  BY InitType, TypeStep, PTL DEF Spec

-----------------------------------------------------------------------------
(* The inductive invariant.  A vetted Job stays vetted, because a finished *)
(* Job does not start again and its template does not change; and between  *)
(* handleApproved's refetch and its last write nobody else writes the      *)
(* request, so the pin that is acted on is the recorded one.               *)

Vetted(u) == jobs[u].terminal /\ jobs[u].matches

PinVetted ==
  /\ req.uid # None => Vetted(req.uid)
  /\ rec.pc = "approve" /\ rec.u # None => Vetted(rec.u)

PinCurrent ==
  /\ rec.pc \in {"execute", "delete"} => rec.snap.uid = req.uid
  /\ rec.pc = "delete" => rec.u = req.uid /\ rec.u # None
  /\ rec.pc = "executed" /\ req.uid # None => jobs[req.uid].by # "nobody"

IInv == TypeOK /\ PinVetted /\ PinCurrent /\ DeletesOnlyVetted /\ ExecutedMeansGone

\* The inductive invariant holds initially: nothing is pinned or deleted yet.
LEMMA InitIInv == Init => IInv
  <1> SUFFICES ASSUME Init PROVE IInv
    OBVIOUS
  <1>1. TypeOK
    BY InitType
  <1>2. Uids = {} /\ req.uid = None /\ rec.pc = "idle"
    BY DEF Init, Uids, NewRequest, Idle
  <1>3. req.phase = "New"
    BY DEF Init, NewRequest
  <1> QED BY <1>1, <1>2, <1>3 DEF IInv, PinVetted, PinCurrent, DeletesOnlyVetted, ExecutedMeansGone

\* The steps of the cluster.
LEMMA ClusterIInv == IInv /\ TypeOK' /\ (JobCreated \/ JobFinishes \/ JobRemoved) => IInv'
  <1> SUFFICES ASSUME IInv, TypeOK', JobCreated \/ JobFinishes \/ JobRemoved PROVE IInv'
    OBVIOUS
  <1>a. jobs \in Seq(Job) /\ Len(jobs) \in Nat /\ req.uid \in 0..Len(jobs) /\ rec.u \in 0..Len(jobs)
    BY DEF IInv, TypeOK
  <1>b. UNCHANGED <<req, rec>>
    BY DEF JobCreated, JobFinishes, JobRemoved
  <1>1. /\ Len(jobs') \in Nat /\ Len(jobs) =< Len(jobs')
        /\ \A u \in Uids : /\ Vetted(u) => Vetted(u)'
                           /\ jobs[u].by # "nobody" => jobs'[u].by # "nobody"
                           /\ jobs'[u].by = "playbook" => jobs[u].by = "playbook"
        /\ \A u \in Uids' : u \notin Uids => jobs'[u].by = "nobody"
    <2>1. CASE JobCreated
      <3> PICK m \in BOOLEAN : jobs' = Append(jobs, [terminal |-> FALSE, matches |-> m, by |-> "nobody"])
        BY <2>1 DEF JobCreated
      <3>1. /\ Len(jobs') = Len(jobs) + 1
            /\ \A u \in 1..Len(jobs) : jobs'[u] = jobs[u]
            /\ jobs'[Len(jobs) + 1].by = "nobody"
        BY <1>a DEF Job
      <3> QED BY <1>a, <3>1 DEF Uids, Vetted
    <2>2. CASE JobFinishes
      <3> DEFINE j == [jobs[Target] EXCEPT !.terminal = TRUE]
      <3>1. Target \in Uids /\ jobs[Target] \in Job /\ j \in Job
        BY <1>a, <2>2, TargetIsLive, JobsAreJobs DEF JobFinishes
      <3>2. j.terminal /\ j.matches = jobs[Target].matches /\ j.by = jobs[Target].by
        BY <3>1 DEF Job
      <3>3. jobs' = [jobs EXCEPT ![Target] = j]
        BY <2>2 DEF JobFinishes
      <3> HIDE DEF j
      <3>4. Len(jobs') = Len(jobs) /\ \A v \in Uids : jobs'[v] = IF v = Target THEN j ELSE jobs[v]
        BY <1>a, <3>1, <3>3, OneJobChanges
      <3> QED BY <1>a, <3>1, <3>2, <3>4 DEF Uids, Vetted
    <2>3. CASE JobRemoved
      <3> DEFINE j == [jobs[Target] EXCEPT !.by = "others"]
      <3>1. Target \in Uids /\ jobs[Target] \in Job /\ j \in Job
        BY <1>a, <2>3, TargetIsLive, JobsAreJobs DEF JobRemoved
      <3>2. j.by = "others" /\ j.matches = jobs[Target].matches /\ j.terminal = jobs[Target].terminal
        BY <3>1 DEF Job
      <3>3. jobs' = [jobs EXCEPT ![Target] = j]
        BY <2>3 DEF JobRemoved
      <3> HIDE DEF j
      <3>4. Len(jobs') = Len(jobs) /\ \A v \in Uids : jobs'[v] = IF v = Target THEN j ELSE jobs[v]
        BY <1>a, <3>1, <3>3, OneJobChanges
      <3> QED BY <1>a, <3>1, <3>2, <3>4 DEF Uids, Vetted
    <2> QED BY <2>1, <2>2, <2>3
  <1>2. (req.uid # None => req.uid \in Uids) /\ (rec.u # None => rec.u \in Uids)
    BY <1>a DEF Uids, None
  <1>3. PinVetted'
    BY <1>b, <1>1, <1>2 DEF IInv, PinVetted, Vetted
  <1>4. PinCurrent'
    BY <1>b, <1>1, <1>2 DEF IInv, PinCurrent
  <1>5. DeletesOnlyVetted'
    BY <1>1 DEF IInv, DeletesOnlyVetted, Vetted
  <1>6. ExecutedMeansGone'
    BY <1>b, <1>1, <1>2 DEF IInv, ExecutedMeansGone
  <1> QED BY <1>3, <1>4, <1>5, <1>6 DEF IInv

\* The steps that write no Job: the pin that a worker carries is the one it read,
\* and what becomes Executed has been seen gone.
LEMMA WorkerIInv ==
  IInv /\ TypeOK' /\ UNCHANGED jobs /\ (CacheSync \/ Crash \/ Reconcile \/ RecStep \/ UNCHANGED vars) => IInv'
  <1> SUFFICES ASSUME IInv, TypeOK', UNCHANGED jobs,
                      CacheSync \/ Crash \/ Reconcile \/ RecStep \/ UNCHANGED vars
               PROVE  PinVetted' /\ PinCurrent' /\ ExecutedMeansGone'
    BY DEF IInv, DeletesOnlyVetted, Uids
  <1>a. jobs \in Seq(Job) /\ req \in Request /\ rec \in Rec /\ cache \in Request
    BY DEF IInv, TypeOK
  <1>b. TypeOK
    BY DEF IInv
  <1> USE DEF IInv, PinVetted, PinCurrent, ExecutedMeansGone, Vetted
  <1>c. ASSUME UNCHANGED req, rec'.pc \notin {"approve", "execute", "delete", "executed"}
        PROVE  PinVetted' /\ PinCurrent' /\ ExecutedMeansGone'
    BY <1>c
  <1>d. Idle.pc = "idle"
    BY DEF Idle
  <1>e. ASSUME NEW again, End(again), UNCHANGED req
        PROVE  PinVetted' /\ PinCurrent' /\ ExecutedMeansGone'
    BY <1>c, <1>d, <1>e DEF End
  <1>1. CASE UNCHANGED <<req, rec>>
    BY <1>1
  <1>2. CASE Crash
    BY <1>2, <1>c, <1>d DEF Crash
  <1>3. CASE Reconcile
    <2>1. rec'.pc \in {"idle", "prepare", "approved"}
      BY <1>3 DEF Reconcile, Idle
    <2> QED BY <1>3, <2>1, <1>c DEF Reconcile
  <1>4. CASE Prepare
    <2>1. CASE Eligible(Target) /\ Goto([rec EXCEPT !.pc = "approve", !.u = Target])
      <3>1. rec'.pc = "approve" /\ rec'.u = Target
        BY <2>1, <1>a DEF Goto, Rec
      <3> QED BY <1>4, <2>1, <3>1 DEF Prepare, Eligible
    <2>2. CASE Goto([rec EXCEPT !.pc = "fallback"])
      <3>1. rec'.pc = "fallback"
        BY <2>2, <1>a DEF Goto, Rec
      <3> QED BY <1>4, <3>1, <1>c DEF Prepare
    <2>3. CASE End(TRUE)
      BY <1>4, <2>3, <1>e DEF Prepare
    <2> QED BY <1>4, <2>1, <2>2, <2>3 DEF Prepare
  <1>5. CASE ApprovePlaybook
    <2> DEFINE r == [req EXCEPT !.phase = "Approved", !.auto = TRUE, !.uid = rec.u, !.absent = (rec.u = None)]
    <2>1. r \in Request /\ r.uid = rec.u /\ r.phase = "Approved"
      BY <1>a DEF Request, Rec
    <2>2. UpdateStatus(r, TRUE) /\ rec.pc = "approve"
      BY <1>5 DEF ApprovePlaybook
    <2> HIDE DEF r
    <2>3. rec' = Idle /\ (req' = req \/ (req'.uid = rec.u /\ req'.phase = "Approved"))
      BY <1>b, <2>1, <2>2, UpdateStatusType
    <2> QED BY <1>d, <2>2, <2>3
  <1>6. CASE FallBack
    <2> DEFINE r == [req EXCEPT !.phase = "Pending"]
    <2>1. r \in Request /\ r.uid = req.uid /\ r.phase = "Pending"
      BY <1>a DEF Request
    <2>2. (Commit(r) \/ UNCHANGED req) /\ rec' = Idle
      BY <1>6 DEF FallBack, End
    <2> HIDE DEF r
    <2>3. req' = req \/ (req'.uid = req.uid /\ req'.phase = "Pending")
      BY <1>a, <2>1, <2>2, CommitType
    <2> QED BY <1>d, <2>2, <2>3
  <1>7. CASE HandleApproved
    <2>1. CASE Goto([rec EXCEPT !.pc = "execute", !.snap = req])
      <3>1. rec'.pc = "execute" /\ rec'.snap = req
        BY <2>1, <1>a DEF Goto, Rec
      <3> QED BY <1>7, <3>1 DEF HandleApproved
    <2>2. CASE End(TRUE)
      BY <1>7, <2>2, <1>e DEF HandleApproved
    <2> QED BY <1>7, <2>1, <2>2 DEF HandleApproved
  <1>8. CASE ExecutePlaybook
    <2>1. CASE Goto([rec EXCEPT !.pc = Verdict(rec.snap, Target), !.u = Target])
      <3>1. rec'.pc = Verdict(rec.snap, Target) /\ rec'.u = Target /\ rec'.snap = rec.snap
        BY <2>1, <1>a DEF Goto, Rec
      <3>2. /\ Target = None => Verdict(rec.snap, Target) = "executed"
            /\ Target # None => Verdict(rec.snap, Target) \in {"delete", "failed"}
            /\ Verdict(rec.snap, Target) = "delete" => Target = rec.snap.uid /\ Target # None
        BY DEF Verdict
      <3>3. rec.snap.uid = req.uid /\ UNCHANGED req
        BY <1>8 DEF ExecutePlaybook
      <3>4. Target = None /\ req.uid # None => jobs[req.uid].by # "nobody"
        BY <1>a, <1>b, TargetIsLive DEF TypeOK, Uids, None
      <3> QED BY <3>1, <3>2, <3>3, <3>4
    <2>2. CASE End(TRUE)
      BY <1>8, <2>2, <1>e DEF ExecutePlaybook
    <2> QED BY <1>8, <2>1, <2>2 DEF ExecutePlaybook
  <1>9. CASE DeleteTarget
    <2>1. UNCHANGED req /\ rec.pc = "delete"
      BY <1>9 DEF DeleteTarget
    <2>2. CASE Goto([rec EXCEPT !.pc = "executed"]) /\ Target = None
      <3>1. rec'.pc = "executed"
        BY <2>2, <1>a DEF Goto, Rec
      <3>2. req.uid # None => jobs[req.uid].by # "nobody"
        BY <1>a, <1>b, <2>2, TargetIsLive DEF TypeOK, Uids, None
      <3> QED BY <2>1, <3>1, <3>2
    <2>3. CASE End(TRUE)
      BY <2>1, <2>3, <1>e
    <2>4. ~(Target = rec.u /\ jobs' = [jobs EXCEPT ![rec.u].by = "playbook"])
      <3> SUFFICES ASSUME Target = rec.u, jobs' = [jobs EXCEPT ![rec.u].by = "playbook"] PROVE FALSE
        OBVIOUS
      <3>1. Target \in Uids /\ jobs[Target].by = "nobody" /\ jobs[Target] \in Job
        BY <2>1, <1>a, TargetIsLive, JobsAreJobs
      <3>2. jobs'[Target].by = "playbook"
        BY <1>a, <3>1 DEF Uids, Job
      <3> QED BY <3>1, <3>2
    <2> QED BY <1>9, <2>2, <2>3, <2>4 DEF DeleteTarget
  <1>10. CASE MarkPlaybookExecuted
    <2> DEFINE r == [req EXCEPT !.phase = "Executed"]
    <2>1. r \in Request /\ r.uid = req.uid /\ r.phase = "Executed"
      BY <1>a DEF Request
    <2>2. UpdateStatus(r, FALSE) /\ rec.pc = "executed"
      BY <1>10 DEF MarkPlaybookExecuted
    <2> HIDE DEF r
    <2>3. rec' = Idle /\ (req' = req \/ (req'.uid = req.uid /\ req'.phase = "Executed"))
      BY <1>b, <2>1, <2>2, UpdateStatusType
    <2> QED BY <1>d, <2>2, <2>3
  <1>11. CASE MarkFailed
    <2> DEFINE r == [req EXCEPT !.phase = "Failed"]
    <2>1. r \in Request /\ r.uid = req.uid /\ r.phase = "Failed"
      BY <1>a DEF Request
    <2>2. UpdateStatus(r, FALSE)
      BY <1>11 DEF MarkFailed
    <2> HIDE DEF r
    <2>3. rec' = Idle /\ (req' = req \/ (req'.uid = req.uid /\ req'.phase = "Failed"))
      BY <1>b, <2>1, <2>2, UpdateStatusType
    <2> QED BY <1>d, <2>3
  <1> QED BY <1>1, <1>2, <1>3, <1>4, <1>5, <1>6, <1>7, <1>8, <1>9, <1>10, <1>11
          DEF RecStep, CacheSync, vars

\* The Delete that succeeds hits the pinned Job, by its UID precondition, and that
\* Job is vetted.
LEMMA DeleteIInv == IInv /\ TypeOK' /\ DeleteTarget /\ jobs' # jobs => IInv'
  <1> SUFFICES ASSUME IInv, TypeOK', DeleteTarget, jobs' # jobs PROVE IInv'
    OBVIOUS
  <1> DEFINE j == [jobs[rec.u] EXCEPT !.by = "playbook"]
  <1>1. /\ jobs \in Seq(Job) /\ Len(jobs) \in Nat /\ rec \in Rec
        /\ rec.u = req.uid /\ rec.u # None /\ rec.u \in 0..Len(jobs) /\ Vetted(rec.u)
    BY DEF IInv, TypeOK, PinCurrent, PinVetted, DeleteTarget
  <1>2. rec.u \in Uids
    BY <1>1 DEF Uids, None
  <1>3. jobs[rec.u] \in Job /\ j \in Job
    BY <1>1, <1>2, JobsAreJobs
  <1>4. j.by = "playbook" /\ j.terminal /\ j.matches
    BY <1>1, <1>3 DEF Job, Vetted
  <1>5. /\ UNCHANGED req /\ jobs' = [jobs EXCEPT ![rec.u] = j]
        /\ rec' = [rec EXCEPT !.pc = "executed"] \/ rec' = Idle
    BY DEF DeleteTarget, Goto, End
  <1>6. rec'.pc \in {"executed", "idle"}
    BY <1>1, <1>5 DEF Rec, Idle
  <1> HIDE DEF j
  <1>7. ASSUME NEW u \in Uids, u = rec.u
        PROVE  Len(jobs') = Len(jobs) /\ \A v \in Uids : jobs'[v] = IF v = u THEN j ELSE jobs[v]
    BY <1>1, <1>3, <1>5, <1>7, OneJobChanges
  <1>8. Uids' = Uids /\ \A v \in Uids : jobs'[v] = IF v = rec.u THEN j ELSE jobs[v]
    BY <1>2, <1>7 DEF Uids
  <1>9. PinVetted'
    BY <1>1, <1>2, <1>4, <1>5, <1>6, <1>8 DEF PinVetted, Vetted
  <1>10. PinCurrent' /\ ExecutedMeansGone'
    BY <1>1, <1>2, <1>4, <1>5, <1>6, <1>8 DEF PinCurrent, ExecutedMeansGone
  <1>11. DeletesOnlyVetted'
    BY <1>4, <1>8 DEF IInv, DeletesOnlyVetted
  <1> QED BY <1>9, <1>10, <1>11 DEF IInv

\* Every step preserves the inductive invariant.
LEMMA IInvStep == IInv /\ [Next]_vars => IInv'
  <1> SUFFICES ASSUME IInv, [Next]_vars PROVE IInv'
    OBVIOUS
  <1>1. TypeOK'
    BY TypeStep DEF IInv
  <1>2. CASE JobCreated \/ JobFinishes \/ JobRemoved
    BY <1>1, <1>2, ClusterIInv
  <1>3. CASE DeleteTarget /\ jobs' # jobs
    BY <1>1, <1>3, DeleteIInv
  <1>4. CASE DeleteTarget /\ jobs' = jobs
    BY <1>1, <1>4, WorkerIInv DEF RecStep
  <1>5. CASE RecStep /\ ~DeleteTarget
    <2>1. UNCHANGED jobs
      BY <1>5 DEF RecStep, Prepare, ApprovePlaybook, FallBack, HandleApproved, ExecutePlaybook,
                  MarkPlaybookExecuted, MarkFailed
    <2> QED BY <1>1, <1>5, <2>1, WorkerIInv
  <1>6. CASE CacheSync \/ Crash \/ Reconcile \/ UNCHANGED vars
    <2>1. UNCHANGED jobs
      BY <1>6 DEF CacheSync, Crash, Reconcile, vars
    <2> QED BY <1>1, <1>6, <2>1, WorkerIInv
  <1> QED BY <1>2, <1>3, <1>4, <1>5, <1>6 DEF Next

\* However Jobs come and go under the target's name, and whatever is retried or
\* read stale, the playbook deletes only finished Jobs that match an allowlist rule.
THEOREM DeletionsVetted == Spec => []DeletesOnlyVetted
  <1>1. IInv => DeletesOnlyVetted
    BY DEF IInv
  <1> QED BY <1>1, InitIInv, IInvStep, PTL DEF Spec

\* A playbook reported as Executed has left nothing behind: the Job it is pinned to
\* is gone or on its way out, whichever of its calls failed on the way.
THEOREM ExecutedIsGone == Spec => []ExecutedMeansGone
  <1>1. IInv => ExecutedMeansGone
    BY DEF IInv
  <1> QED BY <1>1, InitIInv, IInvStep, PTL DEF Spec
=============================================================================
