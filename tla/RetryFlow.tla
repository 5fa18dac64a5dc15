----------------------------- MODULE RetryFlow -----------------------------
(***************************************************************************)
(* Submission, duplicate detection and explicit retries (retry.go, and     *)
(* createRequestHandler / resubmitHandler of api.go), around one source    *)
(* request that may be resubmitted.  requestMu serialises the submissions  *)
(* of one process; across processes only the deterministic name of the     *)
(* successor does.  The duplicate List and findByUID read the apiserver;   *)
(* the Gets of retryRequest and ensureSupersededLink read the informer.    *)
(***************************************************************************)
EXTENDS Naturals, Sequences, FiniteSets

CONSTANTS
  Replicas,    \* API server processes (1 in the chart)
  Handlers,    \* concurrent submissions
  Direct,      \* BOOLEAN: someone may create the successor's name with kubectl
  MaxRequests, \* bound: requests besides the source
  MaxRetries,  \* conflict retries of RetryOnConflict
  MaxFaults    \* bound: failed or ambiguous calls, crashes, deletions

ASSUME DirectAssumption == Direct \in BOOLEAN
ASSUME BoundsAssumption == MaxRequests \in Nat /\ MaxRetries \in Nat /\ MaxFaults \in Nat

VARIABLES
  source,  \* the request to be retried
  reqs,    \* the other requests, indexed by UID
  srcSeen, \* per replica, the informer's copy of the source
  kidSeen, \* per replica, the informer's UID at retryChildName, None if absent
  mu,      \* requestMu of each replica
  call,    \* the HTTP handlers
  faults

vars == <<source, reqs, srcSeen, kidSeen, mu, call, faults>>

None == 0

Ops == {"create", "requester", "admin"}

Source == [rv: Nat, phase: {"Approved", "Failed", "Denied"}, superseded: Nat]

\* child: it has the deterministic retry name; same: the source's requester and
\* execution fingerprint; lineage: retryOfUID names the source; by: the process that
\* created it, {} when it was created directly; active: New, Pending or Approved.
Request == [child: BOOLEAN, same: BOOLEAN, lineage: BOOLEAN, by: SUBSET Replicas,
            active: BOOLEAN, exists: BOOLEAN]

NewRequest(by) == [child |-> FALSE, same |-> TRUE, lineage |-> FALSE, by |-> by,
                   active |-> TRUE, exists |-> TRUE]

Call == [pc: {"idle", "lock", "get", "list", "create", "getAgain", "link"}, op: Ops,
         at: Replicas, src: Source, u: Nat, tries: Nat,
         answer: {"none", "ok", "refused"}]

InitSource == [rv |-> 1, phase |-> "Approved", superseded |-> None]

TypeOK ==
  /\ source \in Source
  /\ reqs \in Seq(Request) /\ Len(reqs) =< MaxRequests
  /\ srcSeen \in [Replicas -> Source] /\ kidSeen \in [Replicas -> 0..Len(reqs)]
  /\ mu \in [Replicas -> {{}} \cup {{h} : h \in Handlers}]
  /\ call \in [Handlers -> Call]
  /\ faults \in 0..MaxFaults

Init ==
  /\ source = InitSource /\ reqs = << >>
  /\ srcSeen = [r \in Replicas |-> InitSource] /\ kidSeen = [r \in Replicas |-> None]
  /\ mu = [r \in Replicas |-> {}]
  /\ call \in [Handlers -> {[pc |-> "idle", op |-> "create", at |-> r, src |-> InitSource,
                             u |-> None, tries |-> 0, answer |-> "none"] : r \in Replicas}]
  /\ faults = 0

-----------------------------------------------------------------------------
(* The cluster.                                                            *)

Fault == faults < MaxFaults /\ faults' = faults + 1

NoFault == UNCHANGED faults

Uids == 1..Len(reqs)

\* The UID at the retry name, None when the name is free.
Child == IF \E u \in Uids : reqs[u].child /\ reqs[u].exists
         THEN CHOOSE u \in Uids : reqs[u].child /\ reqs[u].exists
         ELSE None

\* The source and the other requests come to an end of their own.
SourceEnds ==
  /\ source.phase = "Approved"
  /\ \E p \in {"Failed", "Denied"} :
       source' = [source EXCEPT !.phase = p, !.rv = @ + 1]
  /\ UNCHANGED <<reqs, srcSeen, kidSeen, mu, call, faults>>

RequestEnds(u) ==
  /\ reqs[u].active
  /\ reqs' = [reqs EXCEPT ![u].active = FALSE]
  /\ UNCHANGED <<source, srcSeen, kidSeen, mu, call, faults>>

\* A user deletes a request.
DeleteRequest(u) ==
  /\ Fault
  /\ reqs[u].exists
  /\ reqs' = [reqs EXCEPT ![u].exists = FALSE, ![u].active = FALSE]
  /\ UNCHANGED <<source, srcSeen, kidSeen, mu, call>>

\* Somebody with RBAC on the CRD creates an object at the retry name: a different
\* command, or the same one without the lineage.
Occupy ==
  /\ Direct /\ Child = None /\ Len(reqs) < MaxRequests
  /\ \E same \in BOOLEAN :
       reqs' = Append(reqs, [NewRequest({}) EXCEPT !.child = TRUE, !.same = same])
  /\ UNCHANGED <<source, srcSeen, kidSeen, mu, call, faults>>

CacheSync(r) ==
  /\ srcSeen[r] # source \/ kidSeen[r] # Child
  /\ srcSeen' = [srcSeen EXCEPT ![r] = source]
  /\ kidSeen' = [kidSeen EXCEPT ![r] = Child]
  /\ UNCHANGED <<source, reqs, mu, call, faults>>

\* A replica dies with its handlers and comes back with a fresh cache.
Crash(r) ==
  /\ Fault
  /\ mu' = [mu EXCEPT ![r] = {}]
  /\ call' = [h \in Handlers |-> IF call[h].at = r /\ call[h].pc # "idle"
                                 THEN [call[h] EXCEPT !.pc = "idle", !.answer = "none"]
                                 ELSE call[h]]
  /\ srcSeen' = [srcSeen EXCEPT ![r] = source] /\ kidSeen' = [kidSeen EXCEPT ![r] = Child]
  /\ UNCHANGED <<source, reqs>>

-----------------------------------------------------------------------------
(* The handlers.                                                           *)

Goto(h, pc) == call' = [call EXCEPT ![h].pc = pc] /\ UNCHANGED mu

Continue(h, pc, u) == call' = [call EXCEPT ![h].pc = pc, ![h].u = u] /\ UNCHANGED mu

\* The answer; the deferred Unlock.
Reply(h, answer, u) ==
  /\ call' = [call EXCEPT ![h] = [@ EXCEPT !.pc = "idle", !.u = u, !.src = InitSource,
                                           !.tries = 0, !.answer = answer]]
  /\ mu' = [mu EXCEPT ![call[h].at] = @ \ {h}]

\* A 4xx or 5xx answer, a reported duplicate included.
Refuse(h) ==
  /\ call' = [call EXCEPT ![h] = [@ EXCEPT !.pc = "idle", !.op = "create", !.u = None,
                                           !.src = InitSource, !.tries = 0, !.answer = "refused"]]
  /\ mu' = [mu EXCEPT ![call[h].at] = @ \ {h}]

\* A call arrives, is authorised, and -- for a retry -- reads the source with
\* findByUID, before it takes the lock.
Arrive(h, op, r) ==
  /\ call[h].pc = "idle"
  /\ op = "create" => Len(reqs) < MaxRequests
  /\ call' = [call EXCEPT ![h] = [pc |-> "lock", op |-> op, at |-> r, u |-> None, tries |-> 0,
                                  src |-> IF op = "create" THEN InitSource ELSE source,
                                  answer |-> "none"]]
  /\ UNCHANGED <<source, reqs, srcSeen, kidSeen, mu, faults>>

\* Mutant: a mutex per call.
LockNothing(h) ==
  /\ call[h].pc = "lock"
  /\ call' = [call EXCEPT ![h].pc = IF call[h].op = "create" THEN "list" ELSE "get"]
  /\ UNCHANGED <<source, reqs, srcSeen, kidSeen, mu, faults>>

\* requestMu.Lock().
Lock(h) ==
  /\ call[h].pc = "lock" /\ mu[call[h].at] = {}
  /\ mu' = [mu EXCEPT ![call[h].at] = {h}]
  /\ call' = [call EXCEPT ![h].pc = IF call[h].op = "create" THEN "list" ELSE "get"]
  /\ UNCHANGED <<source, reqs, srcSeen, kidSeen, faults>>

\* requesterRetryable and adminRetryable, on the source as it was read; "Failed"
\* stands for Failed and Expired, "Denied" for Denied and Executed.
Retryable(c) == c.src.phase = "Failed" \/ (c.op = "admin" /\ c.src.phase = "Denied")

\* Mutant: whatever sits at the name is adopted.
AdoptAnything(u) == TRUE

\* validateRetrySuccessor.
ValidSuccessor(u) == reqs[u].lineage /\ reqs[u].same

\* Adopt the request u as the successor, or refuse it.
Adopt(h, u) ==
  IF ValidSuccessor(u) THEN Continue(h, "link", u) ELSE Refuse(h)

\* Mutant: an existing successor is a conflict, whether linked or not.
GetChildConflict(h) ==
  /\ call[h].pc = "get" /\ NoFault
  /\ IF ~Retryable(call[h]) \/ kidSeen[call[h].at] # None \/ call[h].src.superseded # None
     THEN Refuse(h)
     ELSE Goto(h, "list")
  /\ UNCHANGED <<source, reqs, srcSeen, kidSeen>>

\* retryRequest: eligibility, the cached Get of the successor, and a source that is
\* superseded by something that cannot be found.
GetChild(h) ==
  LET c == call[h]
  IN  /\ c.pc = "get"
      /\ \/ /\ NoFault
            /\ IF ~Retryable(c) THEN Refuse(h)
               ELSE IF kidSeen[c.at] # None THEN Adopt(h, kidSeen[c.at])
               ELSE IF c.src.superseded # None THEN Refuse(h)
               ELSE Goto(h, "list")
         \/ Fault /\ Refuse(h)
      /\ UNCHANGED <<source, reqs, srcSeen, kidSeen>>

\* findPendingDuplicate: the uncached List; the source itself may be the match.
ListDuplicates(h) ==
  LET dups == {u \in Uids : reqs[u].exists /\ reqs[u].active /\ reqs[u].same}
      found == dups # {} \/ source.phase = "Approved"
  IN  /\ call[h].pc = "list"
      /\ \/ ~found /\ NoFault /\ Goto(h, "create")
         \/ /\ source.phase = "Approved" /\ NoFault
            /\ Refuse(h)
         \/ \E u \in dups :
              /\ NoFault
              /\ IF call[h].op # "create" /\ reqs[u].child THEN Adopt(h, u)
                                                           ELSE Refuse(h)
         \/ Fault /\ Refuse(h)
      /\ UNCHANGED <<source, reqs, srcSeen, kidSeen>>

\* A retry's validations against the current catalog, then the Create: under a
\* generated name, or under the retry name, which may be taken by now.  A failed
\* Create may have created; at the bound MaxRequests the cluster refuses (quota).
CreateObject(h) ==
  LET retry == call[h].op # "create"
      new   == [NewRequest({call[h].at}) EXCEPT !.child = retry, !.lineage = retry]
      taken == retry /\ Child # None
      room  == Len(reqs) < MaxRequests
  IN  /\ call[h].pc = "create"
      /\ \/ /\ ~taken /\ room /\ reqs' = Append(reqs, new) /\ NoFault
            /\ IF retry THEN Continue(h, "link", Len(reqs) + 1) ELSE Reply(h, "ok", Len(reqs) + 1)
         \/ taken /\ UNCHANGED reqs /\ NoFault /\ Goto(h, "getAgain")
         \/ /\ Fault /\ Refuse(h)
            /\ UNCHANGED reqs \/ (~taken /\ room /\ reqs' = Append(reqs, new))
         \/ (retry \/ ~room) /\ UNCHANGED reqs /\ NoFault /\ Refuse(h)
      /\ UNCHANGED <<source, srcSeen, kidSeen>>

\* retryRequest after AlreadyExists: the cached Get may still miss the object.
GetAgain(h) ==
  /\ call[h].pc = "getAgain"
  /\ \/ kidSeen[call[h].at] # None /\ NoFault /\ Adopt(h, kidSeen[call[h].at])
     \/ kidSeen[call[h].at] = None /\ NoFault /\ Refuse(h)
     \/ Fault /\ Refuse(h)
  /\ UNCHANGED <<source, reqs, srcSeen, kidSeen>>

\* Mutant: the answer does not wait for the link.
LinkBestEffort(h) ==
  /\ call[h].pc = "link" /\ NoFault
  /\ IF srcSeen[call[h].at] = source /\ source.superseded = None
     THEN source' = [source EXCEPT !.superseded = call[h].u, !.rv = @ + 1]
     ELSE UNCHANGED source
  /\ Reply(h, "ok", call[h].u)
  /\ UNCHANGED <<reqs, srcSeen, kidSeen>>

\* ensureSupersededLink: the cached source, a conditional write, retried on conflict.
LinkSource(h) ==
  LET c    == call[h]
      seen == srcSeen[c.at]
      link == source' = [seen EXCEPT !.superseded = c.u, !.rv = @ + 1]
  IN  /\ c.pc = "link"
      /\ \/ /\ seen.superseded = c.u /\ NoFault
            /\ UNCHANGED source /\ Reply(h, "ok", c.u)
         \/ /\ seen.superseded \notin {None, c.u} /\ NoFault
            /\ UNCHANGED source /\ Refuse(h)
         \/ /\ seen.superseded = None /\ seen.rv = source.rv
            /\ \/ link /\ NoFault /\ Reply(h, "ok", c.u)
               \/ link /\ Fault /\ Refuse(h)
         \/ /\ seen.superseded = None /\ seen.rv # source.rv /\ NoFault
            /\ UNCHANGED source
            /\ IF c.tries < MaxRetries
               THEN call' = [call EXCEPT ![h].tries = @ + 1] /\ UNCHANGED mu
               ELSE Refuse(h)
         \/ UNCHANGED source /\ Fault /\ Refuse(h)
      /\ UNCHANGED <<reqs, srcSeen, kidSeen>>

HandlerStep(h) ==
  \/ Lock(h) \/ GetChild(h) \/ ListDuplicates(h) \/ CreateObject(h) \/ GetAgain(h) \/ LinkSource(h)

Next ==
  \/ SourceEnds \/ Occupy
  \/ \E u \in Uids : RequestEnds(u) \/ DeleteRequest(u)
  \/ \E r \in Replicas : CacheSync(r) \/ Crash(r)
  \/ \E h \in Handlers : \/ \E op \in Ops, r \in Replicas : Arrive(h, op, r)
                         \/ HandlerStep(h)

Spec == Init /\ [][Next]_vars

\* Handlers run and informers catch up.  A caller whose retry failed repeats it
\* (the README's "recovery"): an administrator, whom no terminal phase stops.
Fairness ==
  /\ \A r \in Replicas : WF_vars(CacheSync(r))
  /\ \A h \in Handlers : /\ SF_vars(Lock(h))
                         /\ WF_vars(HandlerStep(h))
                         /\ SF_vars(\E r \in Replicas : Arrive(h, "admin", r))

FairSpec == Spec /\ Fairness

-----------------------------------------------------------------------------
(* Properties.                                                             *)

\* Whoever wins which race for the retry name, the source is linked to its own
\* successor, never to a foreign object at that name (validateRetrySuccessor).
LinkedToSuccessor ==
  source.superseded # None =>
    LET s == reqs[source.superseded] IN s.child /\ s.lineage /\ s.same

\* A retry answered with a successor is linked to it, whichever of the create, adopt
\* and repair paths answered (retryRequest).
AnswerIsLinked ==
  \A h \in Handlers : call[h].answer = "ok" /\ call[h].op # "create" => source.superseded = call[h].u

\* One process never has two equivalent requests of one requester active at once,
\* through plain submissions, retries and failed calls alike, nor one beside an
\* active source (requestMu and the uncached findPendingDuplicate).
NoActiveDuplicate ==
  \A r \in Replicas :
    LET active == {u \in Uids : reqs[u].by = {r} /\ reqs[u].active}
    IN  Cardinality(active) =< IF source.phase = "Approved" THEN 0 ELSE 1

\* A successor that was created but not linked is linked by a repeated call
\* (retryRequest: "a repeated call finds the same child and repairs the link").
LinkRepaired ==
  \A u \in 1..MaxRequests :
    (u \in Uids /\ reqs[u].child /\ reqs[u].lineage)
      ~> (source.superseded # None \/ (u \in Uids /\ ~reqs[u].exists))
=============================================================================
