------------------------ MODULE ApprovalFlow_proofs ------------------------
(***************************************************************************)
(* Theorems about ApprovalFlow, for any number of handlers, faults, stale  *)
(* reads and conflict retries.                                             *)
(***************************************************************************)
EXTENDS ApprovalFlow, TLAPS

Results == {"none", "requeue", "soon", "expiry"}

RecType == [pc: RecPCs, snap: Object, tok: Nat, mut: Mutations, tries: Nat]

HttpType == [pc: {"idle", "decide", "write", "done"}, op: {"Approved", "Denied"}, snap: Object]

-----------------------------------------------------------------------------
(* Types of the building blocks.                                           *)

\* The initial object and the empty snapshot are objects (NewObject, NoSnap).
LEMMA ConstantObjects == NewObject \in Object /\ NoSnap \in Object /\ Idle \in RecType
                         /\ HttpIdle \in HttpType
  BY DEF NewObject, NoSnap, Idle, HttpIdle, Object, Phases, None, RecType, RecPCs, Mutations, HttpType

\* A committed write leaves an object in the apiserver and in the watch stream.
LEMMA CommitType ==
  ASSUME obj \in Object, watch \in Seq(Object), NEW o \in Object, Commit(o)
  PROVE  obj' \in Object /\ watch' \in Seq(Object)
  <1>1. [o EXCEPT !.rv = obj.rv + 1] \in Object
    BY DEF Object
  <1> QED BY <1>1 DEF Commit

\* Every way a reconcile ends leaves worker, queue and timer well formed.
LEMMA EndType ==
  ASSUME queued \in BOOLEAN, timer \in {"none", "soon", "expiry"}, NEW result \in Results, End(result)
  PROVE  rec' \in RecType /\ queued' \in BOOLEAN /\ timer' \in {"none", "soon", "expiry"}
  BY ConstantObjects DEF End, Results

\* The objects the handlers write.
LEMMA WrittenObjects ==
  ASSUME NEW o \in Object
  PROVE  /\ \A ph \in Phases : [o EXCEPT !.phase = ph] \in Object /\ Settle(o, ph) \in Object
         /\ \A t \in Nat : PendingObject(o, t) \in Object
         /\ \A m \in Mutations : Mutate(m, o) \in Object
  <1>1. \A ph \in Phases : [o EXCEPT !.phase = ph] \in Object /\ Settle(o, ph) \in Object
    BY DEF Settle, Object, None
  <1>2. \A t \in Nat : PendingObject(o, t) \in Object
    BY DEF PendingObject, Object, Phases
  <1>3. \A m \in Mutations : Mutate(m, o) \in Object
    BY DEF Mutate, Mutations, Object, Phases
  <1> QED BY <1>1, <1>2, <1>3

-----------------------------------------------------------------------------
(* Type correctness.                                                       *)

\* A plain status write keeps the apiserver, the worker and the Secrets typed.
LEMMA PlainUpdateType ==
  ASSUME TypeOK, NEW o \in Object, NEW spent, NEW result \in Results, PlainUpdate(o, spent, result)
  PROVE  /\ obj' \in Object /\ watch' \in Seq(Object)
         /\ rec' \in RecType /\ queued' \in BOOLEAN /\ timer' \in {"none", "soon", "expiry"}
         /\ secrets' \subseteq 1..minted /\ faults' \in 0..MaxFaults
  <1> USE DEF TypeOK
  <1>1. obj' \in Object /\ watch' \in Seq(Object)
    BY CommitType DEF PlainUpdate, NoCommit
  <1>2. End(result) \/ End("requeue")
    BY DEF PlainUpdate
  <1>3. rec' \in RecType /\ queued' \in BOOLEAN /\ timer' \in {"none", "soon", "expiry"}
    BY <1>2, EndType DEF Results
  <1>4. secrets' \subseteq 1..minted
    BY DEF PlainUpdate
  <1>5. faults' \in 0..MaxFaults
    BY BoundsAssumption DEF PlainUpdate, Fault, NoFault
  <1> QED BY <1>1, <1>3, <1>4, <1>5

\* Routing a pending notification keeps the worker, the queue and the timer typed.
LEMMA NotifyType ==
  ASSUME queued \in BOOLEAN, timer \in {"none", "soon", "expiry"}, NEW o \in Object, Notify(o)
  PROVE  rec' \in RecType /\ queued' \in BOOLEAN /\ timer' \in {"none", "soon", "expiry"}
  <1>1. CASE Goto([Idle EXCEPT !.pc = "deliver", !.snap = o])
    BY <1>1, ConstantObjects DEF Goto, RecType, RecPCs
  <1>2. CASE End("expiry") \/ End("soon")
    BY <1>2, EndType DEF Results
  <1> QED BY <1>1, <1>2 DEF Notify

\* updateStatus keeps the apiserver, the worker and the budget typed.
LEMMA UpdateStatusType ==
  ASSUME TypeOK, UpdateStatus
  PROVE  /\ obj' \in Object /\ watch' \in Seq(Object)
         /\ rec' \in RecType /\ queued' \in BOOLEAN /\ timer' \in {"none", "soon", "expiry"}
         /\ backoff' \in BOOLEAN /\ faults' \in 0..MaxFaults
  <1> DEFINE new == Mutate(rec.mut, rec.snap)
  <1>1. new \in Object
    BY WrittenObjects DEF TypeOK
  <1>2. obj' \in Object /\ watch' \in Seq(Object)
    BY <1>1, CommitType DEF UpdateStatus, NoCommit, TypeOK
  <1>3. backoff' \in BOOLEAN
    BY DEF UpdateStatus, TypeOK
  <1>4. faults' \in 0..MaxFaults
    BY BoundsAssumption DEF UpdateStatus, Fault, NoFault, TypeOK
  <1>5. rec' \in RecType /\ queued' \in BOOLEAN /\ timer' \in {"none", "soon", "expiry"}
    <2>1. CASE AfterUpdate(rec.mut, obj')
      <3>1. CASE rec.mut = "assessed" /\ Notify(obj')
        BY <3>1, <1>2, NotifyType DEF TypeOK
      <3>2. CASE \E result \in Results : End(result)
        BY <3>2, EndType DEF TypeOK
      <3> QED BY <2>1, <3>1, <3>2 DEF AfterUpdate, Results, Mutations, TypeOK
    <2>2. CASE Goto([rec EXCEPT !.pc = "refetch"])
      BY <2>2 DEF Goto, RecType, RecPCs, TypeOK
    <2>3. CASE End("requeue")
      BY <2>3, EndType DEF Results, TypeOK
    <2> QED BY <2>1, <2>2, <2>3 DEF UpdateStatus
  <1> QED BY <1>2, <1>3, <1>4, <1>5

\* Every step of the reconcile worker keeps the types.
LEMMA RecStepType == TypeOK /\ RecStep => TypeOK'
  <1> SUFFICES ASSUME TypeOK, RecStep PROVE TypeOK'
    OBVIOUS
  <1>1. CASE HandleNewReject
    BY <1>1, PlainUpdateType, WrittenObjects DEF HandleNewReject, TypeOK, RecType, Results, Phases
  <1>2. CASE HandleNewAutoApprove
    BY <1>2, PlainUpdateType, WrittenObjects DEF HandleNewAutoApprove, TypeOK, RecType, Results, Phases
  <1>3. CASE HandleNewPlaybook
    <2>1. rec' \in RecType /\ queued' \in BOOLEAN /\ timer' \in {"none", "soon", "expiry"}
      <3>1. CASE Goto([rec EXCEPT !.pc = "update", !.mut = "playbook"])
        BY <3>1 DEF Goto, RecType, RecPCs, Mutations, TypeOK
      <3>2. CASE Goto([rec EXCEPT !.pc = "mint"])
        BY <3>2 DEF Goto, RecType, RecPCs, TypeOK
      <3>3. CASE End("requeue")
        BY <3>3, EndType DEF Results, TypeOK
      <3> QED BY <1>3, <3>1, <3>2, <3>3 DEF HandleNewPlaybook
    <2>2. faults' \in 0..MaxFaults
      BY <1>3, BoundsAssumption DEF HandleNewPlaybook, Fault, NoFault, TypeOK
    <2> QED BY <1>3, <2>1, <2>2 DEF HandleNewPlaybook, TypeOK, RecType
  <1>4. CASE HandleNewMint
    <2>1. rec' \in RecType /\ queued' \in BOOLEAN /\ timer' \in {"none", "soon", "expiry"}
      <3>1. CASE Goto([rec EXCEPT !.pc = "persist", !.tok = minted + 1])
        <4>1. rec \in RecType /\ minted + 1 \in Nat
          BY DEF RecType, TypeOK
        <4>2. rec' \in RecType
          BY <3>1, <4>1 DEF Goto, RecType, RecPCs
        <4> QED BY <3>1, <4>2 DEF Goto, TypeOK
      <3>2. CASE End("requeue")
        BY <3>2, EndType DEF Results, TypeOK
      <3> QED BY <1>4, <3>1, <3>2 DEF HandleNewMint
    <2>2. faults' \in 0..MaxFaults
      BY <1>4, BoundsAssumption DEF HandleNewMint, Fault, NoFault, TypeOK
    <2>3. minted' \in Nat /\ 1..minted \subseteq 1..minted' /\ secrets' \subseteq 1..minted'
      BY <1>4 DEF HandleNewMint, TypeOK
    <2> QED BY <1>4, <2>1, <2>2, <2>3 DEF HandleNewMint, TypeOK, RecType
  <1>5. CASE HandleNewPersist
    BY <1>5, PlainUpdateType, WrittenObjects DEF HandleNewPersist, TypeOK, RecType, Results
  <1>6. CASE HandlePendingExpire
    BY <1>6, PlainUpdateType, WrittenObjects DEF HandlePendingExpire, TypeOK, RecType, Results, Phases
  <1>7. CASE HandlePending
    <2>1. rec' \in RecType /\ queued' \in BOOLEAN /\ timer' \in {"none", "soon", "expiry"}
      BY <1>7, NotifyType DEF HandlePending, Goto, RecType, RecPCs, TypeOK
    <2> QED BY <1>7, <2>1 DEF HandlePending, TypeOK, RecType
  <1>8. CASE GenerateAssessment
    <2>1. rec' \in RecType
      BY <1>8 DEF GenerateAssessment, Goto, RecType, RecPCs, Mutations, TypeOK
    <2> QED BY <1>8, <2>1 DEF GenerateAssessment, Goto, TypeOK, RecType
  <1>9. CASE DeliverRead
    <2>1. rec' \in RecType /\ queued' \in BOOLEAN /\ timer' \in {"none", "soon", "expiry"}
      <3>1. CASE Goto([rec EXCEPT !.pc = "send", !.tok = rec.snap.token])
        BY <3>1 DEF Goto, RecType, RecPCs, Object, TypeOK
      <3>2. CASE End("requeue")
        BY <3>2, EndType DEF Results, TypeOK
      <3> QED BY <1>9, <3>1, <3>2 DEF DeliverRead, DeliverError
    <2>2. faults' \in 0..MaxFaults
      BY <1>9, BoundsAssumption DEF DeliverRead, Fault, NoFault, TypeOK
    <2> QED BY <1>9, <2>1, <2>2 DEF DeliverRead, TypeOK, RecType
  <1>10. CASE UpdateStatus
    BY <1>10, UpdateStatusType DEF UpdateStatus, TypeOK, RecType
  <1>11. CASE Refetch
    <2>1. rec' \in RecType /\ queued' \in BOOLEAN /\ timer' \in {"none", "soon", "expiry"}
      <3>1. rec \in RecType /\ obj \in Object
        BY DEF TypeOK, RecType
      <3>2. CASE Goto([rec EXCEPT !.pc = "update", !.snap = obj, !.tries = @ + 1])
        <4>1. rec' = [rec EXCEPT !.pc = "update", !.snap = obj, !.tries = rec.tries + 1]
          BY <3>1, <3>2 DEF Goto, RecType
        <4>2. rec.tries + 1 \in Nat
          BY <3>1 DEF RecType
        <4>3. rec' \in RecType
          BY <3>1, <4>1, <4>2 DEF RecType, RecPCs
        <4> QED BY <3>2, <4>3 DEF Goto, TypeOK
      <3>3. CASE End("requeue")
        BY <3>3, EndType DEF Results, TypeOK
      <3> QED BY <1>11, <3>2, <3>3 DEF Refetch
    <2>2. faults' \in 0..MaxFaults
      BY <1>11, BoundsAssumption DEF Refetch, Fault, NoFault, TypeOK
    <2> QED BY <1>11, <2>1, <2>2 DEF Refetch, TypeOK, RecType
  <1>12. CASE HandleApproved
    <2>1. rec' \in RecType /\ queued' \in BOOLEAN /\ timer' \in {"none", "soon", "expiry"}
      BY <1>12, EndType DEF HandleApproved, Goto, RecType, RecPCs, Results, TypeOK
    <2>2. faults' \in 0..MaxFaults
      BY <1>12, BoundsAssumption DEF HandleApproved, Fault, NoFault, TypeOK
    <2> QED BY <1>12, <2>1, <2>2 DEF HandleApproved, TypeOK, RecType
  <1>13. CASE Execute
    <2>1. rec' \in RecType /\ queued' \in BOOLEAN /\ timer' \in {"none", "soon", "expiry"}
      BY <1>13, EndType DEF Execute, Goto, RecType, RecPCs, Mutations, Results, TypeOK
    <2> QED BY <1>13, <2>1 DEF Execute, TypeOK, RecType
  <1>14. CASE SendApproval
    <2>1. rec' \in RecType
      BY <1>14 DEF SendApproval, Goto, RecType, RecPCs, Mutations, TypeOK
    <2>2. faults' \in 0..MaxFaults
      BY <1>14, BoundsAssumption DEF SendApproval, Fault, NoFault, TypeOK
    <2>3. sent' \subseteq Nat
      BY <1>14 DEF SendApproval, TypeOK
    <2> QED BY <1>14, <2>1, <2>2, <2>3 DEF SendApproval, Goto, TypeOK, RecType
  <1> QED BY <1>1, <1>2, <1>3, <1>4, <1>5, <1>6, <1>7, <1>8, <1>9, <1>10, <1>11, <1>12, <1>13,
             <1>14 DEF RecStep

\* Every step of an HTTP handler keeps the types.
LEMMA HttpStepType == TypeOK /\ HttpStep => TypeOK'
  <1> SUFFICES ASSUME TypeOK, NEW h \in Handlers,
                      \/ \E op \in {"Approved", "Denied"}, t \in {None} \cup sent : Click(h, op, t)
                      \/ DecideRead(h) \/ DecideWrite(h)
               PROVE  TypeOK'
    BY DEF HttpStep
  <1>0. http \in [Handlers -> HttpType]
    BY DEF TypeOK, HttpType
  <1>1. ASSUME NEW op \in {"Approved", "Denied"}, NEW t, Click(h, op, t) PROVE TypeOK'
    <2>1. http' \in [Handlers -> HttpType]
      BY <1>0, <1>1, ConstantObjects DEF Click, HttpType
    <2> QED BY <1>1, <2>1 DEF Click, TypeOK, HttpType
  <1>2. CASE DecideRead(h)
    <2>0. /\ [http[h] EXCEPT !.pc = "write", !.snap = cache] \in HttpType
          /\ [http[h] EXCEPT !.pc = "done"] \in HttpType
      <3>1. http[h] \in HttpType /\ cache \in Object
        BY <1>0 DEF TypeOK
      <3> QED BY <3>1 DEF HttpType
    <2>1. http' \in [Handlers -> HttpType]
      <3>1. PICK r \in HttpType : http' = [http EXCEPT ![h] = r]
        BY <1>2, <2>0 DEF DecideRead
      <3> QED BY <1>0, <3>1
    <2> QED BY <1>2, <2>1 DEF DecideRead, TypeOK, HttpType
  <1>3. CASE DecideWrite(h)
    <2>1. http' \in [Handlers -> HttpType]
      BY <1>0, <1>3, ConstantObjects DEF DecideWrite, HttpType
    <2>2. Settle(http[h].snap, http[h].op) \in Object
      BY <1>0, WrittenObjects DEF HttpType, Phases
    <2>3. obj' \in Object /\ watch' \in Seq(Object)
      BY <1>3, <2>2, CommitType DEF DecideWrite, NoCommit, TypeOK
    <2>4. acks' \subseteq {"Approved", "Denied"} \X Handlers
      BY <1>0, <1>3 DEF DecideWrite, TypeOK, HttpType
    <2>5. faults' \in 0..MaxFaults
      BY <1>3, BoundsAssumption DEF DecideWrite, Fault, NoFault, TypeOK
    <2>6. secrets' \subseteq 1..minted
      BY <1>3 DEF DecideWrite, TypeOK
    <2> QED BY <1>3, <2>1, <2>3, <2>4, <2>5, <2>6 DEF DecideWrite, TypeOK, HttpType
  <1> QED BY <1>1, <1>2, <1>3

\* Every step of the garbage collector keeps the types.
LEMMA GCStepType == TypeOK /\ GCStep => TypeOK'
  <1> SUFFICES ASSUME TypeOK, GCStep PROVE TypeOK'
    OBVIOUS
  <1>1. CASE SweepSecrets
    <2>1. faults' \in 0..MaxFaults
      BY <1>1, BoundsAssumption DEF SweepSecrets, Fault, NoFault, TypeOK
    <2> QED BY <1>1, <2>1 DEF SweepSecrets, TypeOK
  <1>2. CASE ExpirePendingList
    BY <1>2, ConstantObjects, BoundsAssumption DEF ExpirePendingList, TypeOK, Fault, NoFault
  <1>3. CASE ExpirePendingWrite
    <2>1. Settle(gc.snap, "Expired") \in Object
      BY WrittenObjects DEF Phases, TypeOK
    <2>2. obj' \in Object /\ watch' \in Seq(Object)
      BY <1>3, <2>1, CommitType DEF ExpirePendingWrite, NoCommit, TypeOK
    <2>3. faults' \in 0..MaxFaults
      BY <1>3, BoundsAssumption DEF ExpirePendingWrite, Fault, NoFault, TypeOK
    <2> QED BY <1>3, <2>2, <2>3, ConstantObjects DEF ExpirePendingWrite, TypeOK
  <1> QED BY <1>1, <1>2, <1>3 DEF GCStep

\* Every step keeps the types.
LEMMA TypeStep == TypeOK /\ [Next]_vars => TypeOK'
  <1> SUFFICES ASSUME TypeOK, [Next]_vars PROVE TypeOK'
    OBVIOUS
  <1>1. CASE UNCHANGED vars
    BY <1>1 DEF vars, TypeOK
  <1>2. CASE CacheSync
    BY <1>2 DEF CacheSync, TypeOK
  <1>3. CASE SecretEvent \/ Age \/ BackoffElapses \/ TimerFires
    BY <1>3 DEF SecretEvent, Age, BackoffElapses, TimerFires, TypeOK
  <1>4. CASE Crash
    <2>1. http' \in [Handlers -> HttpType]
      <3>1. ASSUME NEW h \in Handlers
            PROVE  [http[h] EXCEPT !.pc = "done", !.snap = NoSnap] \in HttpType
        BY ConstantObjects DEF HttpType, TypeOK
      <3>2. http \in [Handlers -> HttpType]
        BY DEF TypeOK, HttpType
      <3> QED BY <1>4, <3>1, <3>2 DEF Crash
    <2>2. faults' \in 0..MaxFaults
      <3>1. faults \in 0..MaxFaults /\ Fault
        BY <1>4 DEF Crash, TypeOK
      <3> QED BY <3>1, BoundsAssumption DEF Fault
    <2>3. rec' \in RecType /\ cache' \in Object /\ watch' \in Seq(Object)
      <3>1. obj \in Object /\ rec' = Idle /\ cache' = obj /\ watch' = << >>
        BY <1>4 DEF Crash, TypeOK
      <3> QED BY <3>1, ConstantObjects
    <2>4. gc' \in [pc: {"idle", "list", "write"}, snap: Object]
      BY <1>4, ConstantObjects DEF Crash
    <2> QED BY <1>4, <2>1, <2>2, <2>3, <2>4 DEF Crash, TypeOK, HttpType, RecType
  <1>5. ASSUME NEW t \in 1..minted, TokenExpires(t) PROVE TypeOK'
    BY <1>5 DEF TokenExpires, TypeOK
  <1>6. CASE Reconcile
    <2>1. rec' \in RecType
      BY <1>6, ConstantObjects DEF Reconcile, RecType, RecPCs, TypeOK
    <2>2. stale' \in 0..MaxStale
      BY <1>6, BoundsAssumption DEF Reconcile, TypeOK
    <2> QED BY <1>6, <2>1, <2>2 DEF Reconcile, TypeOK, RecType
  <1>7. CASE RecStep
    BY <1>7, RecStepType
  <1>8. CASE HttpStep
    BY <1>8, HttpStepType
  <1>9. CASE GCStep
    BY <1>9, GCStepType
  <1> QED BY <1>1, <1>2, <1>3, <1>4, <1>5, <1>6, <1>7, <1>8, <1>9 DEF Next

\* A freshly created request, and nobody working on it, is well typed.
LEMMA InitType == Init => TypeOK
  <1> SUFFICES ASSUME Init PROVE TypeOK
    OBVIOUS
  <1>1. obj \in Object /\ cache \in Object /\ watch \in Seq(Object) /\ rec \in RecType
    BY ConstantObjects DEF Init
  <1>2. http \in [Handlers -> HttpType]
    BY ConstantObjects DEF Init
  <1>3. gc \in [pc: {"idle", "list", "write"}, snap: Object]
    BY ConstantObjects DEF Init
  <1>4. faults \in 0..MaxFaults /\ stale \in 0..MaxStale
    BY BoundsAssumption DEF Init
  <1>5. /\ kind \in Kinds /\ minted \in Nat
        /\ secrets \subseteq 1..minted /\ expired \subseteq 1..minted /\ sent \subseteq Nat
        /\ old \in BOOLEAN /\ backoff \in BOOLEAN /\ queued \in BOOLEAN
        /\ timer \in {"none", "soon", "expiry"}
        /\ acks \subseteq {"Approved", "Denied"} \X Handlers
    BY DEF Init
  <1> QED BY <1>1, <1>2, <1>3, <1>4, <1>5 DEF TypeOK, RecType, HttpType

\* The reconciler, the HTTP handlers and the garbage collector only ever write
\* well-formed objects, however their calls interleave and fail.
THEOREM TypeCorrect == Spec => []TypeOK
  BY InitType, TypeStep, PTL DEF Spec

-----------------------------------------------------------------------------
(* The inductive invariant.  FollowsLifecycle and the three invariants of  *)
(* the safety run rest on one fact: a copy of the object that still has    *)
(* its resourceVersion is the object, and no copy carries a token the      *)
(* object has not carried.                                                 *)

\* s is a version of the object o, or older; m tokens have been minted.
Version(s, o, m) ==
  /\ s.rv =< o.rv
  /\ s.rv = o.rv => s = o
  /\ o.phase = "New" => s.phase = "New"
  /\ s.token # None => s.token \in 1..m /\ o.phase # "New" /\ o.token \in {None, s.token}

\* The object, the informer's copy, what it has still to see, and the snapshots
\* of the worker, the handlers and the collector are all versions of the object.
Copies ==
  /\ obj.rv >= 1
  /\ Version(obj, obj, minted) /\ Version(cache, obj, minted)
  /\ Version(rec.snap, obj, minted) /\ Version(gc.snap, obj, minted)
  /\ \A h \in Handlers : Version(http[h].snap, obj, minted)
  /\ \A i \in 1..Len(watch) : Version(watch[i], obj, minted)

\* What a program counter says about the phase it was reached from.
Routes ==
  /\ kind # "playbook" /\ rec.mut # "playbook"
  /\ obj.token # None <=> obj.phase = "Pending"
  /\ rec.pc \in {"new", "persist"} => rec.snap.phase = "New"
  /\ rec.pc # "mint"
  /\ rec.pc = "pending" => rec.snap.phase = "Pending"
  /\ rec.pc \in {"assess", "deliver", "send", "update", "refetch"} => obj.phase # "New"
  /\ rec.pc = "execute" \/ rec.mut \in {"executed", "failed"} => obj.phase = "Approved"
  /\ \A h \in Handlers : http[h].pc = "write" => http[h].snap.phase = "Pending"
  /\ gc.pc = "write" => gc.snap.phase = "Pending"

\* A token that was or is about to be pushed is the one the request carries, or
\* carried before it was decided.
Links == \A t \in sent \cup (IF rec.pc = "send" THEN {rec.tok} ELSE {}) :
           obj.phase # "New" /\ obj.token \in {None, t}

\* The Secret of a token about to become durable is there, or as old as the token.
SecretKept ==
  /\ rec.pc = "persist" => rec.tok \in 1..minted
  /\ rec.pc = "persist" /\ obj.phase = "New" => rec.tok \in secrets \cup expired
  /\ NotStranded

IndInv == TypeOK /\ Copies /\ Routes /\ Links /\ SecretKept /\ AcknowledgedDecisionStands

-----------------------------------------------------------------------------
(* What a step may do to the object.                                       *)

\* A committed write moves the phase along the lifecycle, or leaves phase and
\* token alone.
Edge(o, n) ==
  /\ n.rv = o.rv + 1
  /\ \/ o.phase = "New" /\ n.phase \in {"Denied", "Approved"} /\ n.token = o.token
     \/ o.phase = "New" /\ n.phase = "Pending" /\ n.token # None
     \/ o.phase = "Pending" /\ n.phase \in {"Approved", "Denied", "Expired"} /\ n.token = None
     \/ o.phase = "Approved" /\ n.phase \in {"Executed", "Failed"} /\ n.token = o.token
     \/ o.phase # "New" /\ n.phase = o.phase /\ n.token = o.token

\* A version of the object stays one when the object moves on.
LEMMA VersionStep ==
  ASSUME NEW s \in Object, NEW o \in Object, NEW n \in Object, NEW m \in Nat, NEW k \in Nat,
         Version(s, o, m), Version(o, o, m), m =< k, n = o \/ Edge(o, n)
  PROVE  Version(s, n, k)
  BY DEF Version, Edge, Object, None

\* A plain write of the worker commits o, made from a current snapshot, or nothing.
LEMMA PlainUpdateEffect ==
  ASSUME TypeOK, Copies, NEW o \in Object, NEW spent, NEW result, PlainUpdate(o, spent, result)
  PROVE  \/ UNCHANGED <<obj, watch>>
         \/ /\ rec.snap = obj /\ rec'.pc = "idle" /\ rec'.mut = "none"
            /\ obj' = [o EXCEPT !.rv = obj.rv + 1] /\ watch' = Append(watch, obj')
  BY DEF PlainUpdate, NoCommit, Commit, Fresh, Copies, Version, End, Idle

\* What is common to every step: the object moves along an Edge, or not at all.  A
\* committed object is what the watch stream gains; the worker commits last, anyone
\* else only on a Pending object; and only handleNew opens a request.
Effect ==
  \/ UNCHANGED obj
  \/ /\ Edge(obj, obj') /\ watch' = Append(watch, obj')
     /\ obj.phase = "Pending" \/ (rec'.pc \in {"idle", "deliver"} /\ rec'.mut = "none")
     /\ obj.phase = "New" /\ obj'.phase = "Pending" => rec.pc = "persist" /\ obj'.token = rec.tok

\* Every step has the Effect above: writes are conditional on the resourceVersion
\* and each writer has checked the phase of its snapshot.
LEMMA EffectStep == IndInv /\ [Next]_vars => Effect
  <1> SUFFICES ASSUME IndInv, [Next]_vars PROVE Effect
    OBVIOUS
  <1> USE DEF IndInv
  <1>1. CASE HandleNewReject
    <2> DEFINE o == [rec.snap EXCEPT !.phase = "Denied"]
    <2>1. o \in Object /\ rec.snap.phase = "New"
      BY <1>1, WrittenObjects DEF HandleNewReject, Routes, TypeOK, Phases
    <2>2. PlainUpdate(o, None, "none")
      BY <1>1 DEF HandleNewReject
    <2>3. o.phase = "Denied" /\ o.token = rec.snap.token
      BY DEF TypeOK, Object
    <2>4. \/ UNCHANGED <<obj, watch>>
          \/ /\ rec.snap = obj /\ rec'.pc = "idle" /\ rec'.mut = "none"
             /\ obj' = [o EXCEPT !.rv = obj.rv + 1] /\ watch' = Append(watch, obj')
      BY <2>1, <2>2, PlainUpdateEffect
    <2> HIDE DEF o
    <2> QED BY <2>1, <2>3, <2>4 DEF Effect, Edge, Object, TypeOK
  <1>2. CASE HandleNewAutoApprove
    <2> DEFINE o == [rec.snap EXCEPT !.phase = "Approved"]
    <2>1. o \in Object /\ rec.snap.phase = "New"
      BY <1>2, WrittenObjects DEF HandleNewAutoApprove, Routes, TypeOK, Phases
    <2>2. PlainUpdate(o, None, "none")
      BY <1>2 DEF HandleNewAutoApprove
    <2>3. o.phase = "Approved" /\ o.token = rec.snap.token
      BY DEF TypeOK, Object
    <2>4. \/ UNCHANGED <<obj, watch>>
          \/ /\ rec.snap = obj /\ rec'.pc = "idle" /\ rec'.mut = "none"
             /\ obj' = [o EXCEPT !.rv = obj.rv + 1] /\ watch' = Append(watch, obj')
      BY <2>1, <2>2, PlainUpdateEffect
    <2> HIDE DEF o
    <2> QED BY <2>1, <2>3, <2>4 DEF Effect, Edge, Object, TypeOK
  <1>3. CASE HandleNewPersist
    <2> DEFINE o == PendingObject(rec.snap, rec.tok)
    <2>1. o \in Object /\ rec.snap.phase = "New" /\ rec.tok # None
      BY <1>3, WrittenObjects DEF HandleNewPersist, Routes, SecretKept, TypeOK, None
    <2>2. PlainUpdate(o, None, "requeue")
      BY <1>3 DEF HandleNewPersist
    <2>3. o.phase = "Pending" /\ o.token = rec.tok /\ rec.pc = "persist"
      BY <1>3 DEF HandleNewPersist, PendingObject, TypeOK, Object
    <2>4. \/ UNCHANGED <<obj, watch>>
          \/ /\ rec.snap = obj /\ rec'.pc = "idle" /\ rec'.mut = "none"
             /\ obj' = [o EXCEPT !.rv = obj.rv + 1] /\ watch' = Append(watch, obj')
      BY <2>1, <2>2, PlainUpdateEffect
    <2> HIDE DEF o
    <2> QED BY <2>1, <2>3, <2>4 DEF Effect, Edge, Object, TypeOK
  <1>4. CASE HandlePendingExpire
    <2> DEFINE o == Settle(rec.snap, "Expired")
    <2>1. o \in Object /\ rec.snap.phase = "Pending"
      BY <1>4, WrittenObjects DEF HandlePendingExpire, Routes, TypeOK, Phases
    <2>2. PlainUpdate(o, rec.snap.token, "none")
      BY <1>4 DEF HandlePendingExpire
    <2>3. o.phase = "Expired" /\ o.token = None
      BY DEF Settle, TypeOK, Object
    <2>4. \/ UNCHANGED <<obj, watch>>
          \/ /\ rec.snap = obj /\ rec'.pc = "idle" /\ rec'.mut = "none"
             /\ obj' = [o EXCEPT !.rv = obj.rv + 1] /\ watch' = Append(watch, obj')
      BY <2>1, <2>2, PlainUpdateEffect
    <2> HIDE DEF o
    <2> QED BY <2>1, <2>3, <2>4 DEF Effect, Edge, Object, TypeOK
  <1>5. CASE UpdateStatus
    <2> DEFINE o == Mutate(rec.mut, rec.snap)
    <2>1. o \in Object
      BY WrittenObjects DEF TypeOK
    <2>2. \/ UNCHANGED <<obj, watch>>
          \/ /\ rec.snap = obj /\ rec'.pc \in {"idle", "deliver"} /\ rec'.mut = "none"
             /\ obj' = [o EXCEPT !.rv = obj.rv + 1] /\ watch' = Append(watch, obj')
      <3>1. ASSUME NEW q, Notify(q) PROVE rec'.pc \in {"idle", "deliver"} /\ rec'.mut = "none"
        <4>1. CASE Goto([Idle EXCEPT !.pc = "deliver", !.snap = q])
          BY <4>1 DEF Goto, Idle
        <4>2. CASE End("expiry") \/ End("soon")
          BY <4>2 DEF End, Idle
        <4> QED BY <3>1, <4>1, <4>2 DEF Notify
      <3>2. ASSUME NEW q, End(q) PROVE rec'.pc = "idle" /\ rec'.mut = "none"
        BY <3>2 DEF End, Idle
      <3>3. AfterUpdate(rec.mut, obj') => rec'.pc \in {"idle", "deliver"} /\ rec'.mut = "none"
        BY <3>1, <3>2 DEF AfterUpdate
      <3> QED BY <1>5, <3>2, <3>3 DEF UpdateStatus, NoCommit, Commit, Fresh, Copies, Version
    <2>3. obj.phase # "New" /\ rec.mut # "playbook"
      BY <1>5 DEF UpdateStatus, Routes
    <2>4. CASE rec.mut \in {"executed", "failed"}
      <3>1. obj.phase = "Approved"
        BY <2>4 DEF Routes
      <3>2. o.token = rec.snap.token /\ o.phase \in {"Executed", "Failed"}
        BY <2>4 DEF Mutate, TypeOK, Object
      <3> HIDE DEF o
      <3> QED BY <2>1, <2>2, <3>1, <3>2 DEF Effect, Edge, Object, TypeOK
    <2>5. CASE rec.mut \notin {"executed", "failed"}
      <3>1. o.token = rec.snap.token /\ o.phase = rec.snap.phase
        BY <2>3, <2>5 DEF Mutate, Mutations, TypeOK, Object
      <3> HIDE DEF o
      <3> QED BY <2>1, <2>2, <2>3, <3>1 DEF Effect, Edge, Object, TypeOK
    <2> QED BY <2>4, <2>5
  <1>6. ASSUME NEW h \in Handlers, DecideWrite(h) PROVE Effect
    <2> DEFINE o == Settle(http[h].snap, http[h].op)
    <2>1. http[h] \in HttpType /\ http[h].snap.phase = "Pending"
      BY <1>6 DEF DecideWrite, Routes, TypeOK, HttpType
    <2>2a. o \in Object
      BY <2>1, WrittenObjects DEF HttpType, Phases
    <2>2. o.phase \in {"Approved", "Denied"} /\ o.token = None
      BY <2>1 DEF HttpType, Settle, Object
    <2>3. \/ UNCHANGED <<obj, watch>>
          \/ /\ http[h].snap = obj
             /\ obj' = [o EXCEPT !.rv = obj.rv + 1] /\ watch' = Append(watch, obj')
      BY <1>6 DEF DecideWrite, NoCommit, Commit, Fresh, Copies, Version
    <2> HIDE DEF o
    <2> QED BY <2>1, <2>2a, <2>2, <2>3 DEF Effect, Edge, Object, TypeOK
  <1>7. CASE ExpirePendingWrite
    <2> DEFINE o == Settle(gc.snap, "Expired")
    <2>1. gc.snap.phase = "Pending"
      BY <1>7 DEF ExpirePendingWrite, Routes
    <2>2a. o \in Object
      BY WrittenObjects DEF TypeOK, Phases
    <2>2. o.phase = "Expired" /\ o.token = None
      BY DEF TypeOK, Settle, Object
    <2>3. \/ UNCHANGED <<obj, watch>>
          \/ /\ gc.snap = obj
             /\ obj' = [o EXCEPT !.rv = obj.rv + 1] /\ watch' = Append(watch, obj')
      BY <1>7 DEF ExpirePendingWrite, NoCommit, Commit, Fresh, Copies, Version
    <2> HIDE DEF o
    <2> QED BY <2>1, <2>2a, <2>2, <2>3 DEF Effect, Edge, Object, TypeOK
  <1>8. CASE \/ CacheSync \/ SecretEvent \/ Crash \/ Age \/ BackoffElapses \/ TimerFires \/ Reconcile
             \/ \E t \in 1..minted : TokenExpires(t)
    BY <1>8 DEF CacheSync, SecretEvent, Crash, Age, BackoffElapses, TimerFires, Reconcile,
                TokenExpires, Effect
  <1>9. CASE \/ HandleNewPlaybook \/ HandleNewMint \/ HandlePending \/ GenerateAssessment
             \/ DeliverRead \/ SendApproval \/ Refetch \/ HandleApproved \/ Execute
    BY <1>9 DEF HandleNewPlaybook, HandleNewMint, HandlePending, GenerateAssessment, DeliverRead,
                SendApproval, Refetch, HandleApproved, Execute, Effect
  <1>10. CASE \/ SweepSecrets \/ ExpirePendingList
              \/ \E h \in Handlers : DecideRead(h)
              \/ \E h \in Handlers, op \in {"Approved", "Denied"}, t \in {None} \cup sent :
                   Click(h, op, t)
    BY <1>10 DEF SweepSecrets, ExpirePendingList, DecideRead, Click, Effect
  <1>11. CASE UNCHANGED vars
    BY <1>11 DEF vars, Effect
  <1> QED BY <1>1, <1>2, <1>3, <1>4, <1>5, <1>6, <1>7, <1>8, <1>9, <1>10, <1>11
          DEF Next, RecStep, HttpStep, GCStep
-----------------------------------------------------------------------------
(* What a step does to the worker.                                         *)

\* The worker after a step: where its snapshot comes from and what its program
\* counter then says.
Worker ==
  /\ rec'.snap \in {NoSnap, rec.snap, cache, obj, obj'}
  /\ rec'.mut # "playbook" /\ rec'.pc # "mint"
  /\ rec'.pc \in {"new", "persist"} => rec'.snap.phase = "New"
  /\ rec'.pc = "pending" => rec'.snap.phase = "Pending"
  /\ rec'.pc \in {"assess", "deliver", "send", "update", "refetch"} => obj.phase # "New"
  /\ rec'.pc = "execute" \/ rec'.mut \in {"executed", "failed"} => obj.phase = "Approved"
  /\ rec'.pc = "send" => obj.phase # "New" /\ obj.token \in {None, rec'.tok}
  /\ rec'.pc = "persist" => \/ rec.pc = "persist" /\ rec'.tok = rec.tok
                            \/ rec'.tok \in 1..minted' /\ rec'.tok \in secrets'

\* A reconcile that ends leaves the worker idle, and idle promises nothing.
LEMMA EndWorker ==
  ASSUME NEW result, End(result)
  PROVE  Worker
  BY DEF End, Worker, Idle, NoSnap, NewObject

\* handleNew, handlePending, updateStatus and handleApproved hand the worker on
\* from one program counter to the next.
LEMMA WorkerStep ==
  ASSUME IndInv, RecStep
  PROVE  Worker
  <1> USE DEF IndInv
  <1>0. rec \in RecType
    BY DEF TypeOK, RecType
  <1>1. CASE HandleNewReject \/ HandleNewAutoApprove \/ HandleNewPersist \/ HandlePendingExpire
    BY <1>1, EndWorker DEF HandleNewReject, HandleNewAutoApprove, HandleNewPersist,
                           HandlePendingExpire, PlainUpdate
  <1>2. CASE HandleNewPlaybook
    BY <1>2 DEF HandleNewPlaybook, Routes
  <1>3. CASE HandleNewMint
    <2>1. CASE Goto([rec EXCEPT !.pc = "persist", !.tok = minted + 1])
               /\ secrets' = secrets \cup {minted + 1}
      <3>1. /\ rec'.pc = "persist" /\ rec'.snap = rec.snap /\ rec'.mut = rec.mut
            /\ rec'.tok = minted + 1 /\ minted' = minted + 1 /\ minted \in Nat
        BY <1>0, <1>3, <2>1 DEF HandleNewMint, Goto, RecType, TypeOK
      <3>2. rec.snap.phase = "New"
        BY <1>3 DEF HandleNewMint, Routes
      <3> QED BY <2>1, <3>1, <3>2 DEF Worker, Routes
    <2> QED BY <1>3, <2>1, EndWorker DEF HandleNewMint
  <1>4. ASSUME NEW o \in {rec.snap, obj'}, Notify(o), obj.phase # "New" PROVE Worker
    <2>1. CASE Goto([Idle EXCEPT !.pc = "deliver", !.snap = o])
      <3>1. rec'.pc = "deliver" /\ rec'.snap = o /\ rec'.mut = "none"
        BY <2>1 DEF Goto, Idle
      <3> QED BY <1>4, <3>1 DEF Worker
    <2> QED BY <1>4, <2>1, EndWorker DEF Notify
  <1>5. CASE HandlePending
    <2>1. obj.phase # "New"
      BY <1>5 DEF HandlePending, Routes, Copies, Version
    <2>2. CASE Goto([rec EXCEPT !.pc = "assess"])
      <3>1. rec'.pc = "assess" /\ rec'.snap = rec.snap /\ rec'.mut = rec.mut
        BY <1>0, <2>2 DEF Goto, RecType
      <3> QED BY <2>1, <3>1 DEF Worker, Routes
    <2> QED BY <1>4, <1>5, <2>1, <2>2 DEF HandlePending
  <1>6. CASE GenerateAssessment
    <2>1. /\ rec'.pc = "update" /\ rec'.snap = rec.snap /\ rec'.mut = "assessed"
          /\ obj.phase # "New"
      BY <1>0, <1>6 DEF GenerateAssessment, Goto, RecType, Routes
    <2> QED BY <2>1 DEF Worker
  <1>7. CASE DeliverRead
    <2>1. CASE rec.snap.token # None /\ Goto([rec EXCEPT !.pc = "send", !.tok = rec.snap.token])
      <3>1. /\ rec'.pc = "send" /\ rec'.snap = rec.snap /\ rec'.mut = rec.mut
            /\ rec'.tok = rec.snap.token
        BY <1>0, <2>1 DEF Goto, RecType
      <3> QED BY <2>1, <3>1 DEF Worker, Routes, Copies, Version
    <2> QED BY <1>7, <2>1, EndWorker DEF DeliverRead, DeliverError
  <1>8. CASE SendApproval
    <2>1. /\ rec'.pc = "update" /\ rec'.snap = rec.snap /\ rec'.mut \in {"delivered", "sendFailed"}
          /\ obj.phase # "New"
      BY <1>0, <1>8 DEF SendApproval, Goto, RecType, Routes
    <2> QED BY <2>1 DEF Worker
  <1>9. CASE UpdateStatus
    <2>1. obj.phase # "New"
      BY <1>9 DEF UpdateStatus, Routes
    <2>2. CASE AfterUpdate(rec.mut, obj')
      BY <1>4, <2>1, <2>2, EndWorker DEF AfterUpdate
    <2>3. CASE Goto([rec EXCEPT !.pc = "refetch"])
      <3>1. rec'.pc = "refetch" /\ rec'.snap = rec.snap /\ rec'.mut = rec.mut
        BY <1>0, <2>3 DEF Goto, RecType
      <3> QED BY <2>1, <3>1 DEF Worker, Routes
    <2>4. CASE End("requeue")
      BY <2>4, EndWorker
    <2> QED BY <1>9, <2>2, <2>3, <2>4 DEF UpdateStatus
  <1>10. CASE Refetch
    <2>1. CASE Goto([rec EXCEPT !.pc = "update", !.snap = obj, !.tries = @ + 1])
      <3>1. rec'.pc = "update" /\ rec'.snap = obj /\ rec'.mut = rec.mut
        BY <1>0, <2>1 DEF Goto, RecType
      <3>2. obj.phase # "New"
        BY <1>10 DEF Refetch, Routes
      <3> QED BY <3>1, <3>2 DEF Worker, Routes
    <2> QED BY <1>10, <2>1, EndWorker DEF Refetch
  <1>11. CASE HandleApproved
    <2>1. CASE obj.phase = "Approved" /\ Goto([rec EXCEPT !.pc = "execute", !.snap = obj])
      <3>1. rec'.pc = "execute" /\ rec'.snap = obj /\ rec'.mut = rec.mut
        BY <1>0, <2>1 DEF Goto, RecType
      <3> QED BY <2>1, <3>1 DEF Worker, Routes
    <2> QED BY <1>11, <2>1, EndWorker DEF HandleApproved
  <1>12. CASE Execute
    <2>1. ASSUME NEW m \in {"executed", "failed"}, Goto([rec EXCEPT !.pc = "update", !.mut = m])
          PROVE  Worker
      <3>1. rec'.pc = "update" /\ rec'.snap = rec.snap /\ rec'.mut = m
        BY <1>0, <2>1 DEF Goto, RecType
      <3>2. obj.phase = "Approved"
        BY <1>12 DEF Execute, Routes
      <3> QED BY <3>1, <3>2 DEF Worker
    <2> QED BY <1>12, <2>1, EndWorker DEF Execute
  <1> QED BY <1>1, <1>2, <1>3, <1>5, <1>6, <1>7, <1>8, <1>9, <1>10, <1>11, <1>12 DEF RecStep

\* Reconcile starts the worker from the cached phase; Crash stops it; nothing
\* else touches it.
LEMMA AnyWorkerStep ==
  ASSUME IndInv, [Next]_vars
  PROVE  Worker
  <1> USE DEF IndInv
  <1>1. CASE UNCHANGED rec
    BY <1>1 DEF Worker, Routes, Links
  <1>2. CASE Crash
    BY <1>2 DEF Crash, Worker, Idle, NoSnap, NewObject
  <1>3. CASE Reconcile
    <2>1. CASE rec' = Idle
      BY <2>1 DEF Worker, Idle, NoSnap, NewObject
    <2>2. ASSUME NEW p \in {"new", "pending", "approved"},
                 p = "new" => cache.phase = "New", p = "pending" => cache.phase = "Pending",
                 rec' = [Idle EXCEPT !.pc = p, !.snap = cache]
          PROVE  Worker
      <3>1. rec'.pc = p /\ rec'.snap = cache /\ rec'.mut = "none"
        BY <2>2 DEF Idle
      <3> QED BY <2>2, <3>1 DEF Worker
    <2>3. CASE cache.phase = "New"
      BY <1>3, <2>2, <2>3 DEF Reconcile
    <2>4. CASE cache.phase = "Pending"
      BY <1>3, <2>2, <2>4 DEF Reconcile
    <2>5. CASE cache.phase = "Approved"
      BY <1>3, <2>2, <2>5 DEF Reconcile
    <2> QED BY <1>3, <2>1, <2>3, <2>4, <2>5 DEF Reconcile
  <1>4. CASE CacheSync \/ SecretEvent \/ Age \/ BackoffElapses \/ TimerFires
             \/ \E t \in 1..minted : TokenExpires(t)
    BY <1>1, <1>4 DEF CacheSync, SecretEvent, Age, BackoffElapses, TimerFires, TokenExpires
  <1>5. CASE HttpStep
    BY <1>1, <1>5 DEF HttpStep, Click, DecideRead, DecideWrite
  <1>6. CASE GCStep
    BY <1>1, <1>6 DEF GCStep, SweepSecrets, ExpirePendingList, ExpirePendingWrite
  <1> QED BY <1>1, <1>2, <1>3, <1>4, <1>5, <1>6, WorkerStep DEF Next, vars

-----------------------------------------------------------------------------
(* What a step does to the other copies and to the tokens.                 *)

\* Where the informer, the handlers and the collector take their copies from.
Sources ==
  /\ minted' \in {minted, minted + 1}
  /\ cache' \in {cache, obj} \/ (watch # << >> /\ cache' = Head(watch))
  /\ gc'.snap \in {gc.snap, NoSnap, cache}
  /\ gc'.pc = "write" => gc'.snap.phase = "Pending"
  /\ \A h \in Handlers : /\ http'[h].snap \in {http[h].snap, NoSnap, cache}
                         /\ http'[h].pc = "write" => http'[h].snap.phase = "Pending"
  /\ \/ watch' \in {watch, << >>, Append(watch, obj')}
     \/ watch # << >> /\ watch' = Tail(watch)

\* Every step takes its copies from those sources.
LEMMA SourcesStep ==
  ASSUME IndInv, [Next]_vars
  PROVE  Sources
  <1> USE DEF IndInv
  <1>0. http \in [Handlers -> HttpType] /\ gc \in [pc: {"idle", "list", "write"}, snap: Object]
    BY DEF TypeOK, HttpType
  <1>1. ASSUME UNCHANGED <<cache, gc, http>>, minted' \in {minted, minted + 1},
               UNCHANGED watch \/ watch' = Append(watch, obj')
        PROVE  Sources
    BY <1>1 DEF Sources, Routes
  <1>2. CASE CacheSync
    BY <1>2 DEF CacheSync, Sources, Routes
  <1>3. CASE Crash
    <2>1. gc'.pc = "idle" /\ gc'.snap = NoSnap
      BY <1>3 DEF Crash
    <2>2. ASSUME NEW h \in Handlers
          PROVE  /\ http'[h].snap \in {http[h].snap, NoSnap, cache}
                 /\ http'[h].pc = "write" => http'[h].snap.phase = "Pending"
      <3>1. http[h] \in HttpType
        BY <1>0
      <3> QED BY <1>3, <3>1 DEF Crash, HttpType
    <2> QED BY <1>3, <2>1, <2>2 DEF Crash, Sources
  <1>4. CASE SecretEvent \/ Age \/ BackoffElapses \/ TimerFires \/ Reconcile
             \/ \E t \in 1..minted : TokenExpires(t)
    BY <1>1, <1>4 DEF SecretEvent, Age, BackoffElapses, TimerFires, TokenExpires, Reconcile
  <1>5. CASE RecStep
    <2>1. CASE HandleNewReject \/ HandleNewAutoApprove \/ HandleNewPersist \/ HandlePendingExpire
      BY <1>1, <2>1 DEF HandleNewReject, HandleNewAutoApprove, HandleNewPersist,
                        HandlePendingExpire, PlainUpdate, Commit, NoCommit
    <2>2. CASE UpdateStatus
      BY <1>1, <2>2 DEF UpdateStatus, Commit, NoCommit
    <2>3. CASE \/ HandleNewPlaybook \/ HandleNewMint \/ HandlePending \/ GenerateAssessment
               \/ DeliverRead \/ SendApproval \/ Refetch \/ HandleApproved \/ Execute
      BY <1>1, <2>3 DEF HandleNewPlaybook, HandleNewMint, HandlePending, GenerateAssessment,
                        DeliverRead, SendApproval, Refetch, HandleApproved, Execute
    <2> QED BY <1>5, <2>1, <2>2, <2>3 DEF RecStep
  <1>6. ASSUME NEW h \in Handlers,
               \/ \E op \in {"Approved", "Denied"}, t \in {None} \cup sent : Click(h, op, t)
               \/ DecideRead(h) \/ DecideWrite(h)
        PROVE  Sources
    <2>1. http[h] \in HttpType
      BY <1>0
    <2>2. UNCHANGED <<cache, gc, minted>> /\ (UNCHANGED watch \/ watch' = Append(watch, obj'))
      BY <1>6 DEF Click, DecideRead, DecideWrite, Commit, NoCommit
    <2>3. \A g \in Handlers : g # h => http'[g] = http[g]
      BY <1>0, <1>6 DEF Click, DecideRead, DecideWrite
    <2>4. /\ http'[h].snap \in {http[h].snap, NoSnap, cache}
          /\ http'[h].pc = "write" => http'[h].snap.phase = "Pending"
      <3>1. ASSUME NEW op, NEW t, Click(h, op, t)
            PROVE  http'[h].snap = NoSnap /\ http'[h].pc # "write"
        BY <1>0, <3>1 DEF Click, HttpIdle
      <3>2. CASE DecideRead(h)
        BY <1>0, <2>1, <3>2 DEF DecideRead, HttpType
      <3>3. CASE DecideWrite(h)
        BY <1>0, <2>1, <3>3 DEF DecideWrite, HttpType
      <3> QED BY <1>6, <3>1, <3>2, <3>3
    <2> QED BY <2>2, <2>3, <2>4 DEF Sources, Routes
  <1>7. CASE GCStep
    <2>1. UNCHANGED <<cache, http, minted>> /\ (UNCHANGED watch \/ watch' = Append(watch, obj'))
      BY <1>7 DEF GCStep, SweepSecrets, ExpirePendingList, ExpirePendingWrite, Commit, NoCommit
    <2>2. /\ gc'.snap \in {gc.snap, NoSnap, cache}
          /\ gc'.pc = "write" => gc'.snap.phase = "Pending"
      BY <1>0, <1>7 DEF GCStep, SweepSecrets, ExpirePendingList, ExpirePendingWrite
    <2> QED BY <2>1, <2>2 DEF Sources, Routes
  <1>8. CASE UNCHANGED vars
    BY <1>1, <1>8 DEF vars
  <1> QED BY <1>2, <1>3, <1>4, <1>5, <1>6, <1>7, <1>8 DEF Next, HttpStep

\* What happens to tokens: only a token about to be sent becomes sent, expiry is for
\* good, and a Secret goes only once it has expired or the request is decided.
Tokens ==
  /\ sent' \subseteq sent \cup (IF rec.pc = "send" THEN {rec.tok} ELSE {})
  /\ expired \subseteq expired'
  /\ \A t \in secrets : t \in secrets' \cup expired \/ obj'.phase \notin {"New", "Pending"}

\* No step loses the Secret of a token that can still be pushed.
LEMMA TokensStep ==
  ASSUME IndInv, [Next]_vars
  PROVE  Tokens
  <1> USE DEF IndInv
  <1>0. secrets \subseteq 1..minted /\ minted \in Nat /\ expired \subseteq 1..minted
    BY DEF TypeOK
  <1>1. ASSUME UNCHANGED sent, expired \subseteq expired', secrets \subseteq secrets' PROVE Tokens
    BY <1>1 DEF Tokens
  <1>2. CASE CacheSync \/ SecretEvent \/ Crash \/ Age \/ BackoffElapses \/ TimerFires \/ Reconcile
             \/ \E t \in 1..minted : TokenExpires(t)
    BY <1>1, <1>2 DEF CacheSync, SecretEvent, Crash, Age, BackoffElapses, TimerFires, TokenExpires,
                      Reconcile
  <1>3. CASE HandleNewReject \/ HandleNewAutoApprove \/ HandleNewPersist
    <2>1. None \notin secrets
      BY <1>0 DEF None
    <2> QED BY <1>1, <1>3, <2>1 DEF HandleNewReject, HandleNewAutoApprove, HandleNewPersist, PlainUpdate
  <1>4. CASE HandlePendingExpire
    <2> DEFINE o == Settle(rec.snap, "Expired")
    <2>0. o \in Object
      BY WrittenObjects DEF TypeOK, Phases
    <2>1. o.phase = "Expired"
      BY DEF Settle, TypeOK, Object
    <2>2. PlainUpdate(o, rec.snap.token, "none") /\ UNCHANGED <<sent, expired>>
      BY <1>4 DEF HandlePendingExpire
    <2> HIDE DEF o
    <2>3. UNCHANGED secrets \/ obj' = [o EXCEPT !.rv = obj.rv + 1]
      BY <2>2 DEF PlainUpdate, Commit
    <2>4. UNCHANGED secrets \/ obj'.phase = "Expired"
      BY <2>0, <2>1, <2>3 DEF Object
    <2> QED BY <2>2, <2>4 DEF Tokens
  <1>5. CASE SendApproval
    BY <1>5 DEF SendApproval, Tokens
  <1>6. CASE \/ UpdateStatus \/ HandleNewPlaybook \/ HandleNewMint \/ HandlePending
             \/ GenerateAssessment \/ DeliverRead \/ Refetch \/ HandleApproved \/ Execute
    BY <1>1, <1>6 DEF UpdateStatus, HandleNewPlaybook, HandleNewMint, HandlePending,
                      GenerateAssessment, DeliverRead, Refetch, HandleApproved, Execute
  <1>7. ASSUME NEW h \in Handlers, DecideWrite(h) PROVE Tokens
    <2> DEFINE o == Settle(http[h].snap, http[h].op)
    <2>1. http[h] \in HttpType
      BY DEF TypeOK, HttpType
    <2>2. o \in Object
      BY <2>1, WrittenObjects DEF HttpType, Phases
    <2>3. o.phase \in {"Approved", "Denied"}
      BY <2>1 DEF HttpType, Settle, Object
    <2>4. UNCHANGED <<sent, expired>> /\ (UNCHANGED secrets \/ obj' = [o EXCEPT !.rv = obj.rv + 1])
      BY <1>7 DEF DecideWrite, Commit
    <2> HIDE DEF o
    <2>5. UNCHANGED secrets \/ obj'.phase \in {"Approved", "Denied"}
      BY <2>2, <2>3, <2>4 DEF Object
    <2> QED BY <2>4, <2>5 DEF Tokens
  <1>8. CASE SweepSecrets
    BY <1>8 DEF SweepSecrets, Swept, Tokens
  <1>9. CASE ExpirePendingWrite
    <2> DEFINE o == Settle(gc.snap, "Expired")
    <2>1. o \in Object
      BY WrittenObjects DEF TypeOK, Phases
    <2>2. o.phase = "Expired"
      BY DEF Settle, TypeOK, Object
    <2>3. UNCHANGED <<sent, expired>> /\ (UNCHANGED secrets \/ obj' = [o EXCEPT !.rv = obj.rv + 1])
      BY <1>9 DEF ExpirePendingWrite, Commit
    <2> HIDE DEF o
    <2>4. UNCHANGED secrets \/ obj'.phase = "Expired"
      BY <2>1, <2>2, <2>3 DEF Object
    <2> QED BY <2>3, <2>4 DEF Tokens
  <1>10. CASE \/ ExpirePendingList
              \/ \E h \in Handlers : DecideRead(h)
              \/ \E h \in Handlers, op \in {"Approved", "Denied"}, t \in {None} \cup sent :
                   Click(h, op, t)
    BY <1>1, <1>10 DEF ExpirePendingList, DecideRead, Click
  <1>11. CASE UNCHANGED vars
    BY <1>1, <1>11 DEF vars
  <1> QED BY <1>2, <1>3, <1>4, <1>5, <1>6, <1>7, <1>8, <1>9, <1>10, <1>11
          DEF Next, RecStep, HttpStep, GCStep

\* A decision is acknowledged only by the handler whose write took the request out
\* of Pending.
LEMMA AcksStep ==
  ASSUME IndInv, [Next]_vars
  PROVE  \/ UNCHANGED acks
         \/ \E op \in {"Approved", "Denied"}, h \in Handlers :
              acks' = acks \cup {<<op, h>>} /\ obj.phase = "Pending" /\ obj'.phase = op
  <1> USE DEF IndInv
  <1>1. ASSUME NEW h \in Handlers, DecideWrite(h), acks' # acks
        PROVE  \E op \in {"Approved", "Denied"}, g \in Handlers :
                 acks' = acks \cup {<<op, g>>} /\ obj.phase = "Pending" /\ obj'.phase = op
    <2> DEFINE o == Settle(http[h].snap, http[h].op)
    <2>1. http[h] \in HttpType /\ http[h].snap.phase = "Pending"
      BY <1>1 DEF DecideWrite, Routes, TypeOK, HttpType
    <2>2. o \in Object
      BY <2>1, WrittenObjects DEF HttpType, Phases
    <2>3. o.phase = http[h].op /\ http[h].op \in {"Approved", "Denied"}
      BY <2>1 DEF HttpType, Settle, Object
    <2>4. /\ acks' = acks \cup {<<http[h].op, h>>} /\ http[h].snap = obj
          /\ obj' = [o EXCEPT !.rv = obj.rv + 1]
      BY <1>1 DEF DecideWrite, Fresh, Commit, Copies, Version
    <2> HIDE DEF o
    <2>5. obj'.phase = http[h].op
      BY <2>2, <2>3, <2>4 DEF Object
    <2> QED BY <2>1, <2>3, <2>4, <2>5
  <1>2. CASE CacheSync \/ SecretEvent \/ Crash \/ Age \/ BackoffElapses \/ TimerFires \/ Reconcile
             \/ \E t \in 1..minted : TokenExpires(t)
    BY <1>2 DEF CacheSync, SecretEvent, Crash, Age, BackoffElapses, TimerFires, TokenExpires,
                Reconcile
  <1>3. CASE RecStep
    BY <1>3 DEF RecStep, HandleNewReject, HandleNewAutoApprove, HandleNewPersist,
                HandlePendingExpire, UpdateStatus, HandleNewPlaybook, HandleNewMint, HandlePending,
                GenerateAssessment, DeliverRead, SendApproval, Refetch, HandleApproved, Execute
  <1>4. CASE \/ GCStep
             \/ \E h \in Handlers : DecideRead(h)
             \/ \E h \in Handlers, op \in {"Approved", "Denied"}, t \in {None} \cup sent :
                  Click(h, op, t)
    BY <1>4 DEF GCStep, SweepSecrets, ExpirePendingList, ExpirePendingWrite, DecideRead, Click
  <1> QED BY <1>1, <1>2, <1>3, <1>4 DEF Next, HttpStep, vars

-----------------------------------------------------------------------------
(* The invariant is inductive.                                             *)

\* It holds of a freshly created request, unless playbooks are enabled.
LEMMA IndInit == "playbook" \notin Kinds /\ Init /\ TypeOK => IndInv
  BY DEF Init, IndInv, Copies, Version, Routes, Links, SecretKept, NotStranded,
         AcknowledgedDecisionStands, NewObject, NoSnap, Idle, HttpIdle, None

\* Copies stay versions of the object.
LEMMA CopiesStep ==
  ASSUME IndInv, [Next]_vars, TypeOK', obj'.token # None => obj'.phase = "Pending"
  PROVE  Copies'
  <1> USE DEF IndInv
  <1>1. Effect /\ Worker /\ Sources
    BY EffectStep, AnyWorkerStep, SourcesStep
  <1>2. obj \in Object /\ obj' \in Object /\ minted \in Nat /\ minted' \in Nat /\ minted =< minted'
    BY <1>1 DEF Sources, TypeOK
  <1>3. obj' = obj \/ Edge(obj, obj')
    BY <1>1 DEF Effect
  <1>4. obj'.rv >= 1 /\ NoSnap \in Object /\ Version(NoSnap, obj', minted')
    BY <1>2, <1>3, ConstantObjects DEF Copies, Edge, Version, NoSnap, NewObject, Object, None
  <1>5. \A s \in Object : Version(s, obj, minted) => Version(s, obj', minted')
    BY <1>2, <1>3, VersionStep DEF Copies
  <1>6. Version(obj', obj', minted')
    <2>1. obj'.token # None => obj'.token \in 1..minted'
      <3>1. CASE obj' = obj
        BY <1>2, <3>1 DEF Copies, Version
      <3>2. CASE obj.phase = "New" /\ obj'.phase = "Pending" /\ obj' # obj
        BY <1>1, <1>2, <3>2 DEF Effect, SecretKept
      <3>3. CASE obj'.token \in {None, obj.token}
        BY <1>2, <3>3 DEF Copies, Version
      <3> QED BY <1>3, <3>1, <3>2, <3>3 DEF Edge
    <2> QED BY <1>2, <2>1 DEF Version, Object
  <1>7. ASSUME NEW i \in 1..Len(watch) PROVE watch[i] \in Object /\ Version(watch[i], obj', minted')
    <2>1. watch[i] \in Object
      BY DEF TypeOK
    <2> QED BY <1>5, <2>1 DEF Copies
  <1>8. Version(cache', obj', minted')
    <2>1. CASE cache' \in {cache, obj}
      BY <1>5, <2>1 DEF Copies, TypeOK
    <2>2. CASE watch # << >> /\ cache' = Head(watch)
      <3>1. Head(watch) = watch[1] /\ 1 \in 1..Len(watch)
        BY <2>2 DEF TypeOK
      <3> QED BY <1>7, <2>2, <3>1
    <2> QED BY <1>1, <2>1, <2>2 DEF Sources
  <1>9. Version(rec'.snap, obj', minted')
    <2>1. rec.snap \in Object /\ cache \in Object
      BY DEF TypeOK
    <2> QED BY <1>1, <1>2, <1>4, <1>5, <1>6, <2>1 DEF Worker, Copies
  <1>10. Version(gc'.snap, obj', minted')
    <2>1. gc.snap \in Object /\ cache \in Object
      BY DEF TypeOK
    <2> QED BY <1>1, <1>4, <1>5, <2>1 DEF Sources, Copies
  <1>11. ASSUME NEW h \in Handlers PROVE Version(http'[h].snap, obj', minted')
    <2>1. http[h].snap \in Object /\ cache \in Object
      BY DEF TypeOK
    <2> QED BY <1>1, <1>4, <1>5, <2>1 DEF Sources, Copies
  <1>12. ASSUME NEW i \in 1..Len(watch') PROVE Version(watch'[i], obj', minted')
    <2> watch \in Seq(Object)
      BY DEF TypeOK
    <2>1. CASE watch' = watch \/ watch' = << >>
      BY <1>7, <2>1
    <2>2. CASE watch' = Append(watch, obj')
      <3>1. i \in 1..Len(watch) => watch'[i] = watch[i]
        BY <1>2, <2>2
      <3>2. i \notin 1..Len(watch) => watch'[i] = obj'
        BY <1>2, <2>2
      <3> QED BY <1>6, <1>7, <3>1, <3>2
    <2>3. CASE watch # << >> /\ watch' = Tail(watch)
      <3>1. watch'[i] = watch[i + 1] /\ i + 1 \in 1..Len(watch)
        BY <2>3
      <3> QED BY <1>7, <3>1
    <2> QED BY <1>1, <2>1, <2>2, <2>3 DEF Sources
  <1> QED BY <1>4, <1>6, <1>8, <1>9, <1>10, <1>11, <1>12 DEF Copies

\* The invariant is inductive: each conjunct, from what a step does to the object,
\* the worker, the other copies and the tokens.
LEMMA IndStep == IndInv /\ [Next]_vars => IndInv'
  <1> SUFFICES ASSUME IndInv, [Next]_vars PROVE IndInv'
    OBVIOUS
  <1> USE DEF IndInv
  <1>1. Effect /\ Worker /\ Sources /\ Tokens
    BY EffectStep, AnyWorkerStep, SourcesStep, TokensStep
  <1>2. TypeOK'
    BY TypeStep
  <1>3. obj \in Object /\ obj' \in Object /\ kind' = kind
    <2>1. kind' = kind
      BY DEF Next, CacheSync, SecretEvent, Crash, Age, BackoffElapses, TimerFires, TokenExpires,
             Reconcile, RecStep, HandleNewReject, HandleNewAutoApprove, HandleNewPersist,
             HandlePendingExpire, UpdateStatus, HandleNewPlaybook, HandleNewMint, HandlePending,
             GenerateAssessment, DeliverRead, SendApproval, Refetch, HandleApproved, Execute,
             HttpStep, Click, DecideRead, DecideWrite, GCStep, SweepSecrets, ExpirePendingList,
             ExpirePendingWrite, vars
    <2> QED BY <1>2, <2>1 DEF TypeOK
  <1>4. obj'.token # None <=> obj'.phase = "Pending"
    BY <1>1 DEF Effect, Edge, Routes, None
  <1>5. Copies'
    BY <1>2, <1>4, CopiesStep
  <1>6. Routes'
    <2>1. obj.phase # "New" => obj'.phase # "New"
      BY <1>1 DEF Effect, Edge
    <2>2. rec'.pc = "execute" \/ rec'.mut \in {"executed", "failed"} => obj'.phase = "Approved"
      BY <1>1 DEF Effect, Edge, Worker
    <2> QED BY <1>1, <1>3, <1>4, <2>1, <2>2 DEF Routes, Worker, Sources
  <1>7. Links'
    <2> SUFFICES ASSUME NEW t \in sent' \cup (IF rec'.pc = "send" THEN {rec'.tok} ELSE {})
                 PROVE  obj'.phase # "New" /\ obj'.token \in {None, t}
      BY DEF Links
    <2>1. obj.phase # "New" /\ obj.token \in {None, t}
      <3>1. CASE t \in sent'
        BY <1>1, <3>1 DEF Tokens, Links
      <3>2. CASE t \notin sent'
        BY <1>1, <3>2 DEF Worker
      <3> QED BY <3>1, <3>2
    <2> QED BY <1>1, <2>1 DEF Effect, Edge
  <1>8. SecretKept'
    <2>1. rec'.pc = "persist" => rec'.tok \in 1..minted'
      BY <1>1 DEF Worker, SecretKept, Sources, TypeOK
    <2>2. rec'.pc = "persist" /\ obj'.phase = "New" => rec'.tok \in secrets' \cup expired'
      BY <1>1 DEF Worker, SecretKept, Tokens, Effect, Edge
    <2>3. obj'.phase = "Pending" /\ obj'.token \notin expired' => obj'.token \in secrets'
      <3> SUFFICES ASSUME obj'.phase = "Pending", obj'.token \notin expired'
                   PROVE  obj'.token \in secrets'
        OBVIOUS
      <3>1. CASE obj.phase = "Pending" /\ obj'.token = obj.token
        BY <1>1, <3>1 DEF Tokens, SecretKept, NotStranded
      <3>2. CASE obj.phase = "New"
        BY <1>1, <3>2 DEF Tokens, SecretKept, Effect
      <3> QED BY <1>1, <1>4, <3>1, <3>2 DEF Effect, Edge, None
    <2> QED BY <2>1, <2>2, <2>3 DEF SecretKept, NotStranded
  <1>9. AcknowledgedDecisionStands'
    <2>1. acks \subseteq {"Approved", "Denied"} \X Handlers
      BY DEF TypeOK
    <2>2. CASE UNCHANGED acks
      BY <1>1, <2>1, <2>2 DEF AcknowledgedDecisionStands, Effect, Edge
    <2>3. CASE acks' # acks
      <3>1. PICK op \in {"Approved", "Denied"}, h \in Handlers :
              acks' = acks \cup {<<op, h>>} /\ obj.phase = "Pending" /\ obj'.phase = op
        BY <2>3, AcksStep
      <3>2. acks = {}
        BY <2>1, <3>1 DEF AcknowledgedDecisionStands
      <3> QED BY <3>1, <3>2 DEF AcknowledgedDecisionStands
    <2> QED BY <2>2, <2>3
  <1> QED BY <1>2, <1>5, <1>6, <1>7, <1>8, <1>9

-----------------------------------------------------------------------------
(* The theorems.  Requests that may be settled by an auto-approval playbook *)
(* are left out: there the lifecycle is not followed (TerminalIsFinal).     *)

\* No pushed link is ever dead before its request is decided, no durable Pending
\* request loses the Secret its notification needs, and no acknowledged decision is
\* contradicted -- for any number of concurrent handlers, faults and stale reads.
THEOREM ApprovalSafe ==
  ASSUME "playbook" \notin Kinds
  PROVE  Spec => [](LinkIntegrity /\ NotStranded /\ AcknowledgedDecisionStands)
  <1>1. Init => IndInv
    <2>1. Init => TypeOK
      BY InitType
    <2> QED BY <2>1, IndInit
  <1>2. IndInv => LinkIntegrity /\ NotStranded /\ AcknowledgedDecisionStands
    BY DEF IndInv, Links, SecretKept, LinkIntegrity, Routes, None
  <1> QED BY <1>1, <1>2, IndStep, PTL DEF Spec

\* A durable Pending request can always still be notified: handleNew's rollback
\* and the collector never take the Secret it needs.
THEOREM PendingNeverStranded ==
  ASSUME "playbook" \notin Kinds
  PROVE  Spec => []NotStranded
  BY ApprovalSafe, PTL

\* Of racing Approve, Deny and expiry, the one that is acknowledged is the one
\* that stands.
THEOREM DecisionsStand ==
  ASSUME "playbook" \notin Kinds
  PROVE  Spec => []AcknowledgedDecisionStands
  BY ApprovalSafe, PTL

\* The reconciler, the handlers and the collector together implement the abstract
\* lifecycle of a request: every step is a lifecycle step or leaves it alone.
THEOREM ImplementsLifecycle ==
  ASSUME "playbook" \notin Kinds
  PROVE  Spec => FollowsLifecycle
  <1>1. Init => IndInv
    BY InitType, IndInit
  <1>2. Init => Lifecycle!LInit
    BY DEF Init, NewObject, Lifecycle!LInit, Lifecycle!None, None
  <1>3. IndInv /\ [Next]_vars => [Lifecycle!LNext]_<<obj.phase, obj.token>>
    <2> SUFFICES ASSUME IndInv, [Next]_vars
                 PROVE  [Lifecycle!LNext]_<<obj.phase, obj.token>>
      OBVIOUS
    <2>1. Effect /\ obj'.token \in Nat
      BY EffectStep, TypeStep DEF IndInv, TypeOK, Object
    <2>2. CASE UNCHANGED obj
      BY <2>2
    <2>3. CASE Edge(obj, obj')
      BY <2>1, <2>3 DEF Edge, None, Lifecycle!LNext, Lifecycle!SettleWithoutHuman,
                        Lifecycle!OpenForDecision, Lifecycle!Decide, Lifecycle!Finish,
                        Lifecycle!None
    <2> QED BY <2>1, <2>2, <2>3 DEF Effect
  <1> QED BY <1>1, <1>2, <1>3, IndStep, PTL DEF Spec, FollowsLifecycle, Lifecycle!LSpec
=============================================================================
