---------------------------- MODULE ApprovalFlow ----------------------------
(***************************************************************************)
(* The life of one SudoRequest from creation to its decision, as the       *)
(* controller process drives it (reconciler.go, gc.go, api.go):            *)
(*                                                                         *)
(*   rec     the one reconcile worker that may hold this object            *)
(*   http    concurrent approve/deny HTTP handlers                         *)
(*   gc      the garbage collector's ticker goroutine                      *)
(*                                                                         *)
(* All three work on copies: obj is the object in the apiserver, cache the *)
(* informer's copy of it, watch the versions the informer has still to     *)
(* see, and every actor carries the snapshot it read.  A status write      *)
(* succeeds only when the snapshot's resourceVersion is current.           *)
(***************************************************************************)
EXTENDS Naturals, Sequences

CONSTANTS
  Kinds,      \* what the submitted spec may be, a subset of AllKinds
  Handlers,   \* concurrent HTTP decisions
  Summarize,  \* BOOLEAN: an AI summarizer is configured
  MaxRetries, \* refetches RetryOnConflict makes before it gives up
  MaxFaults,  \* bound: failed or ambiguous calls and process crashes
  MaxStale    \* bound: reconciles started from a lagging cache

AllKinds == {"command", "rejected", "auto", "playbook"}

ASSUME KindsAssumption == Kinds \subseteq AllKinds
ASSUME SummarizeAssumption == Summarize \in BOOLEAN
ASSUME BoundsAssumption == MaxRetries \in Nat /\ MaxFaults \in Nat /\ MaxStale \in Nat

VARIABLES
  kind,     \* what handleNew finds in the spec; never changes
  obj,      \* the SudoRequest in the apiserver
  cache,    \* the informer's copy, read by Reconcile, findByUID and the GC
  watch,    \* versions committed but not yet delivered to the informer
  secrets,  \* approval-token Secrets that exist, named by their token
  minted,   \* tokens minted so far: 1 .. minted
  expired,  \* tokens past their expires-at
  old,      \* the request is older than PendingRequestTTL
  sent,     \* tokens whose link was pushed to the human
  backoff,  \* NotificationNextAttemptAt lies in the future
  queued,   \* the workqueue holds this object
  timer,    \* the pending RequeueAfter: "none", "soon" or "expiry"
  rec, http, gc,
  acks,     \* decisions a human was told had been taken
  faults, stale

vars == <<kind, obj, cache, watch, secrets, minted, expired, old, sent, backoff,
          queued, timer, rec, http, gc, acks, faults, stale>>

None == 0

Phases == {"New", "Pending", "Approved", "Denied", "Executed", "Failed", "Expired"}

\* token stands for ApprovalTokenHash, ApprovalTokenExpiresAt and
\* ApprovalTokenSecretName, which the code always writes together.
Object == [rv: Nat, phase: Phases, token: Nat,
           notification: {"none", "Pending", "Delivered"},
           assessment: {"none", "Pending", "Done"},
           retryAt: BOOLEAN]

NewObject == [rv |-> 1, phase |-> "New", token |-> None, notification |-> "none",
              assessment |-> "none", retryAt |-> FALSE]

NoSnap == [NewObject EXCEPT !.rv = 0]

RecPCs == {"idle", "new", "mint", "persist", "pending", "assess", "deliver", "send",
           "update", "refetch", "approved", "execute"}

Mutations == {"none", "playbook", "assessed", "sendFailed", "delivered", "executed", "failed"}

Idle == [pc |-> "idle", snap |-> NoSnap, tok |-> None, mut |-> "none", tries |-> 0]

HttpIdle == [pc |-> "idle", op |-> "Approved", snap |-> NoSnap]

TypeOK ==
  /\ kind \in Kinds
  /\ obj \in Object /\ cache \in Object /\ watch \in Seq(Object)
  /\ minted \in Nat
  /\ secrets \subseteq 1..minted /\ expired \subseteq 1..minted /\ sent \subseteq Nat
  /\ old \in BOOLEAN /\ backoff \in BOOLEAN /\ queued \in BOOLEAN
  /\ timer \in {"none", "soon", "expiry"}
  /\ rec \in [pc: RecPCs, snap: Object, tok: Nat, mut: Mutations, tries: Nat]
  /\ http \in [Handlers -> [pc: {"idle", "decide", "write", "done"},
                            op: {"Approved", "Denied"}, snap: Object]]
  /\ gc \in [pc: {"idle", "list", "write"}, snap: Object]
  /\ acks \subseteq {"Approved", "Denied"} \X Handlers
  /\ faults \in 0..MaxFaults /\ stale \in 0..MaxStale

Init ==
  /\ kind \in Kinds
  /\ obj = NewObject /\ cache = NewObject /\ watch = << >>
  /\ secrets = {} /\ minted = 0 /\ expired = {} /\ sent = {}
  /\ old = FALSE /\ backoff = FALSE /\ queued = TRUE /\ timer = "none"
  /\ rec = Idle
  /\ http = [h \in Handlers |-> HttpIdle]
  /\ gc = [pc |-> "idle", snap |-> NoSnap]
  /\ acks = {} /\ faults = 0 /\ stale = 0

-----------------------------------------------------------------------------
(* The apiserver and the informer.                                         *)

Fresh(snap) == snap.rv = obj.rv

\* A committed write: a new resourceVersion, and one more version to deliver.
Commit(o) ==
  LET n == [o EXCEPT !.rv = obj.rv + 1]
  IN  /\ obj' = n
      /\ watch' = Append(watch, n)

NoCommit == UNCHANGED <<obj, watch>>

Fault == faults < MaxFaults /\ faults' = faults + 1

NoFault == UNCHANGED faults

\* The informer takes the next version and enqueues the object (For(&SudoRequest)).
CacheSync ==
  /\ watch # << >>
  /\ cache' = Head(watch)
  /\ watch' = Tail(watch)
  /\ queued' = TRUE
  /\ UNCHANGED <<kind, obj, secrets, minted, expired, old, sent, backoff, timer, rec, http,
                 gc, acks, faults, stale>>

\* Owns(&corev1.Secret{}): a token Secret was created or deleted.
SecretEvent ==
  /\ minted > 0 /\ ~queued
  /\ queued' = TRUE
  /\ UNCHANGED <<kind, obj, cache, watch, secrets, minted, expired, old, sent, backoff, timer,
                 rec, http, gc, acks, faults, stale>>

\* The process dies and the Deployment restarts it: in-flight work, timers and
\* open HTTP requests are gone, the informer lists afresh and enqueues.
Crash ==
  /\ Fault
  /\ rec' = Idle /\ gc' = [pc |-> "idle", snap |-> NoSnap]
  /\ http' = [h \in Handlers |-> IF http[h].pc = "idle" THEN http[h]
                                 ELSE [http[h] EXCEPT !.pc = "done", !.snap = NoSnap]]
  /\ cache' = obj /\ watch' = << >>
  /\ queued' = TRUE /\ timer' = "none"
  /\ UNCHANGED <<kind, obj, secrets, minted, expired, old, sent, backoff, acks, stale>>

(* Time.  PendingRequestTTL counts from creation and ApprovalTokenTTL, of  *)
(* the same length, from the later minting, so no token expires first.     *)

Age ==
  /\ ~old
  /\ old' = TRUE
  /\ UNCHANGED <<kind, obj, cache, watch, secrets, minted, expired, sent, backoff, queued, timer,
                 rec, http, gc, acks, faults, stale>>

TokenExpires(t) ==
  /\ old /\ t \notin expired
  /\ expired' = expired \cup {t}
  /\ UNCHANGED <<kind, obj, cache, watch, secrets, minted, old, sent, backoff, queued, timer,
                 rec, http, gc, acks, faults, stale>>

BackoffElapses ==
  /\ backoff
  /\ backoff' = FALSE
  /\ UNCHANGED <<kind, obj, cache, watch, secrets, minted, expired, old, sent, queued, timer,
                 rec, http, gc, acks, faults, stale>>

TimerFires ==
  /\ \/ timer = "soon" /\ ~backoff
     \/ timer = "expiry" /\ old
  /\ timer' = "none"
  /\ queued' = TRUE
  /\ UNCHANGED <<kind, obj, cache, watch, secrets, minted, expired, old, sent, backoff,
                 rec, http, gc, acks, faults, stale>>

-----------------------------------------------------------------------------
(* The reconcile worker.  The workqueue never hands one object to two      *)
(* workers, so there is one rec.  A reconcile ends with a ctrl.Result: an  *)
(* error and Requeue both put the object back, RequeueAfter arms a timer   *)
(* and the delaying queue keeps the earlier of two.                        *)

End(result) ==
  /\ rec' = Idle
  /\ queued' = (queued \/ result = "requeue")
  /\ timer' = IF result = "soon" \/ (result = "expiry" /\ timer = "none") THEN result ELSE timer

Goto(r) == rec' = r /\ UNCHANGED <<queued, timer>>

\* Reconcile: the cached read and the switch on status.phase.
Reconcile ==
  /\ queued /\ rec.pc = "idle"
  /\ \/ cache = obj /\ UNCHANGED stale
     \/ cache # obj /\ stale < MaxStale /\ stale' = stale + 1
  /\ queued' = FALSE
  /\ rec' = IF cache.phase \in {"New", "Pending", "Approved"}
            THEN [Idle EXCEPT !.pc = CASE cache.phase = "New"     -> "new"
                                       [] cache.phase = "Pending" -> "pending"
                                       [] OTHER                   -> "approved",
                              !.snap = cache]
            ELSE Idle
  /\ UNCHANGED <<kind, obj, cache, watch, secrets, minted, expired, old, sent, backoff, timer,
                 http, gc, acks, faults>>

\* A plain Status().Update that ends the reconcile: it commits and returns
\* result, or it reports an error -- a conflict, a rejected call, or a call
\* that committed all the same.  Only a reported success spends the Secret.
PlainUpdate(o, spent, result) ==
  \/ /\ Fresh(rec.snap) /\ Commit(o) /\ End(result)
     /\ \/ secrets' = secrets \ {spent} /\ NoFault
        \/ spent \in secrets /\ UNCHANGED secrets /\ Fault
  \/ /\ ~Fresh(rec.snap)
     /\ NoCommit /\ End("requeue") /\ NoFault /\ UNCHANGED secrets
  \/ /\ Fresh(rec.snap) /\ Fault
     /\ NoCommit \/ Commit(o)
     /\ End("requeue") /\ UNCHANGED secrets

\* handleNew, the syntax check and the spec validation.
HandleNewReject ==
  /\ rec.pc = "new" /\ kind = "rejected"
  /\ PlainUpdate([rec.snap EXCEPT !.phase = "Denied"], None, "none")
  /\ UNCHANGED <<kind, cache, minted, expired, old, sent, backoff, http, gc, acks, stale>>

\* handleNew, autoApproveTokens.
HandleNewAutoApprove ==
  /\ rec.pc = "new" /\ kind = "auto"
  /\ PlainUpdate([rec.snap EXCEPT !.phase = "Approved"], None, "none")
  /\ UNCHANGED <<kind, cache, minted, expired, old, sent, backoff, http, gc, acks, stale>>

\* handleNew, prepareAutoApprovedPlaybook: the target Job is fit for deletion
\* (or absent), or it is not and a human is asked, or the lookup fails.
HandleNewPlaybook ==
  /\ rec.pc = "new" /\ kind = "playbook"
  /\ \/ Goto([rec EXCEPT !.pc = "update", !.mut = "playbook"]) /\ NoFault
     \/ Goto([rec EXCEPT !.pc = "mint"]) /\ NoFault
     \/ End("requeue") /\ Fault
  /\ UNCHANGED <<kind, obj, cache, watch, secrets, minted, expired, old, sent, backoff, http,
                 gc, acks, stale>>

\* Mutant: the link is pushed as soon as its Secret is stored.
MintAndPush ==
  /\ \/ rec.pc = "new" /\ kind = "command"
     \/ rec.pc = "mint"
  /\ minted' = minted + 1
  /\ \/ /\ secrets' = secrets \cup {minted + 1} /\ sent' = sent \cup {minted + 1} /\ NoFault
        /\ Goto([rec EXCEPT !.pc = "persist", !.tok = minted + 1])
     \/ /\ secrets' \in {secrets, secrets \cup {minted + 1}} /\ UNCHANGED sent /\ Fault
        /\ End("requeue")
  /\ UNCHANGED <<kind, obj, cache, watch, expired, old, backoff, http, gc, acks, stale>>

\* handleNew: mint a token and store it in its Secret, before any status
\* refers to it.  A failed Create may have stored the Secret.
HandleNewMint ==
  /\ \/ rec.pc = "new" /\ kind = "command"
     \/ rec.pc = "mint"
  /\ minted' = minted + 1
  /\ \/ /\ secrets' = secrets \cup {minted + 1} /\ NoFault
        /\ Goto([rec EXCEPT !.pc = "persist", !.tok = minted + 1])
     \/ /\ secrets' \in {secrets, secrets \cup {minted + 1}} /\ Fault
        /\ End("requeue")
  /\ UNCHANGED <<kind, obj, cache, watch, expired, old, sent, backoff, http, gc, acks, stale>>

PendingObject(o, t) ==
  [o EXCEPT !.phase = "Pending", !.token = t, !.notification = "Pending",
            !.assessment = IF Summarize THEN "Pending" ELSE "none"]

\* Mutant: an error deletes the Secret.
PersistOrDelete ==
  /\ rec.pc = "persist"
  /\ LET o == PendingObject(rec.snap, rec.tok)
     IN  \/ Fresh(rec.snap) /\ Commit(o) /\ UNCHANGED secrets /\ NoFault
         \/ ~Fresh(rec.snap) /\ NoCommit /\ secrets' = secrets \ {rec.tok} /\ NoFault
         \/ /\ Fresh(rec.snap) /\ Fault /\ secrets' = secrets \ {rec.tok}
            /\ NoCommit \/ Commit(o)
  /\ End("requeue")
  /\ UNCHANGED <<kind, cache, minted, expired, old, sent, backoff, http, gc, acks, stale>>

\* handleNew: persist Pending with the token.  On an error the Secret stays:
\* the write may have committed.
HandleNewPersist ==
  /\ rec.pc = "persist"
  /\ PlainUpdate(PendingObject(rec.snap, rec.tok), None, "requeue")
  /\ UNCHANGED <<kind, cache, minted, expired, old, sent, backoff, http, gc, acks, stale>>

\* Mutant: the token survives.
SettleKeepingToken(o, phase) == [o EXCEPT !.phase = phase]

\* Leaving Pending burns the token.
Settle(o, phase) == [o EXCEPT !.phase = phase, !.token = None]

\* Mutant: a request whose link was never pushed does not age.
PastTTLOncePushed == old /\ sent # {}

\* The age test handlePending and expirePending share.
PastTTL == old

\* handlePending past the TTL.
HandlePendingExpire ==
  /\ rec.pc = "pending" /\ PastTTL
  /\ PlainUpdate(Settle(rec.snap, "Expired"), rec.snap.token, "none")
  /\ UNCHANGED <<kind, cache, minted, expired, old, sent, backoff, http, gc, acks, stale>>

\* handlePending once no assessment is due: deliver, wait out the back-off, or
\* sleep until expiry.
Notify(snap) ==
  IF snap.notification # "Pending" THEN End("expiry")
  ELSE IF snap.retryAt /\ backoff THEN End("soon")
  ELSE Goto([Idle EXCEPT !.pc = "deliver", !.snap = snap])

HandlePending ==
  /\ rec.pc = "pending" /\ ~PastTTL
  /\ IF rec.snap.assessment = "Pending" THEN Goto([rec EXCEPT !.pc = "assess"])
                                        ELSE Notify(rec.snap)
  /\ UNCHANGED <<kind, obj, cache, watch, secrets, minted, expired, old, sent, backoff, http,
                 gc, acks, faults, stale>>

\* generatePermissionAssessment: a slow external call whose failure is recorded
\* just as its success is.
GenerateAssessment ==
  /\ rec.pc = "assess"
  /\ Goto([rec EXCEPT !.pc = "update", !.mut = "assessed"])
  /\ UNCHANGED <<kind, obj, cache, watch, secrets, minted, expired, old, sent, backoff, http,
                 gc, acks, faults, stale>>

\* Mutant: the error is logged and swallowed.
DeliverErrorSwallowed == End("none")

\* deliverApprovalNotification returns the error, so the object is requeued.
DeliverError == End("requeue")

\* deliverApprovalNotification reads the token Secret from the informer's
\* cache, which may still hold a deleted Secret or not yet hold a new one.
DeliverRead ==
  /\ rec.pc = "deliver"
  /\ \/ /\ rec.snap.token # None /\ NoFault
        /\ Goto([rec EXCEPT !.pc = "send", !.tok = rec.snap.token])
     \/ rec.snap.token \notin secrets /\ NoFault /\ DeliverError
     \/ rec.snap.token \in secrets /\ Fault /\ DeliverError
  /\ UNCHANGED <<kind, obj, cache, watch, secrets, minted, expired, old, sent, backoff, http,
                 gc, acks, stale>>

\* Pushover.SendApproval; a reported failure may have delivered the push.
SendApproval ==
  /\ rec.pc = "send"
  /\ \/ /\ sent' = sent \cup {rec.tok} /\ NoFault
        /\ Goto([rec EXCEPT !.pc = "update", !.mut = "delivered"])
     \/ /\ sent' \in {sent, sent \cup {rec.tok}} /\ Fault
        /\ Goto([rec EXCEPT !.pc = "update", !.mut = "sendFailed"])
  /\ UNCHANGED <<kind, obj, cache, watch, secrets, minted, expired, old, backoff, http, gc, acks,
                 stale>>

\* Mutant: a state outside the notification lifecycle.
MutateUnknownState(m, o) == [o EXCEPT !.notification = "Sent"]

\* The mutate functions given to updateStatus.
Mutate(m, o) ==
  CASE m = "playbook"   -> [o EXCEPT !.phase = "Approved"]
    [] m = "assessed"   -> [o EXCEPT !.assessment = "Done"]
    [] m = "sendFailed" -> [o EXCEPT !.retryAt = TRUE]
    [] m = "delivered"  -> [o EXCEPT !.notification = "Delivered", !.retryAt = FALSE]
    [] m = "executed"   -> [o EXCEPT !.phase = "Executed"]
    [] m = "failed"     -> [o EXCEPT !.phase = "Failed"]
    [] OTHER            -> o

\* What the caller does once its updateStatus has succeeded.
AfterUpdate(m, o) ==
  CASE m = "assessed"   -> Notify(o)
    [] m = "sendFailed" -> End("soon")
    [] m = "delivered"  -> End(IF old THEN "none" ELSE "expiry")
    [] m = "playbook"   -> End("requeue")
    [] OTHER            -> End("none")

\* updateStatus: write, and on a conflict refetch uncached and mutate again.
\* A recorded send failure also moves NotificationNextAttemptAt.
UpdateStatus ==
  /\ rec.pc = "update"
  /\ LET CommitMutation == /\ Commit(Mutate(rec.mut, rec.snap))
                           /\ backoff' = (backoff \/ rec.mut = "sendFailed")
     IN  \/ /\ Fresh(rec.snap) /\ CommitMutation /\ NoFault
            /\ AfterUpdate(rec.mut, obj')
         \/ /\ ~Fresh(rec.snap) /\ NoCommit /\ NoFault /\ UNCHANGED backoff
            /\ IF rec.tries < MaxRetries THEN Goto([rec EXCEPT !.pc = "refetch"])
                                         ELSE End("requeue")
         \/ /\ Fresh(rec.snap) /\ Fault
            /\ \/ NoCommit /\ UNCHANGED backoff
               \/ CommitMutation
            /\ End("requeue")
  /\ UNCHANGED <<kind, cache, secrets, minted, expired, old, sent, http, gc, acks, stale>>

Refetch ==
  /\ rec.pc = "refetch"
  /\ \/ Goto([rec EXCEPT !.pc = "update", !.snap = obj, !.tries = @ + 1]) /\ NoFault
     \/ End("requeue") /\ Fault
  /\ UNCHANGED <<kind, obj, cache, watch, secrets, minted, expired, old, sent, backoff, http,
                 gc, acks, stale>>

\* handleApproved begins with an uncached refetch and gives way to a newer phase.
HandleApproved ==
  /\ rec.pc = "approved"
  /\ \/ obj.phase = "Approved" /\ Goto([rec EXCEPT !.pc = "execute", !.snap = obj]) /\ NoFault
     \/ obj.phase # "Approved" /\ End("requeue") /\ NoFault
     \/ End("requeue") /\ Fault
  /\ UNCHANGED <<kind, obj, cache, watch, secrets, minted, expired, old, sent, backoff, http,
                 gc, acks, stale>>

\* The rest of handleApproved, which module ExecutorFlow details: the workload
\* is still running, or its outcome is written through updateStatus.
Execute ==
  /\ rec.pc = "execute"
  /\ \/ End("soon")
     \/ \E m \in {"executed", "failed"} : Goto([rec EXCEPT !.pc = "update", !.mut = m])
  /\ UNCHANGED <<kind, obj, cache, watch, secrets, minted, expired, old, sent, backoff, http,
                 gc, acks, faults, stale>>

RecStep ==
  \/ HandleNewReject \/ HandleNewAutoApprove \/ HandleNewPlaybook \/ HandleNewMint
  \/ HandleNewPersist \/ HandlePendingExpire \/ HandlePending \/ GenerateAssessment
  \/ DeliverRead \/ SendApproval \/ UpdateStatus \/ Refetch \/ HandleApproved \/ Execute

-----------------------------------------------------------------------------
(* The HTTP decisions.  authenticateHuman and the admin-group check have   *)
(* let the caller through; CSRF has been validated.                        *)

\* VerifyApprovalToken on the cached object.  For an admin an expired token
\* counts as no token at all.
Verified(t) ==
  /\ cache.phase = "Pending"
  /\ cache.token \in expired \/ cache.token = t

\* handleApprovePost / denyHandlerWithClaims up to the token check; the form
\* carries the token of a pushed link, or none.
Click(h, op, t) ==
  /\ http[h].pc = "idle"
  /\ http' = [http EXCEPT ![h] = [HttpIdle EXCEPT !.op = op,
                !.pc = IF t = None \/ Verified(t) THEN "decide" ELSE "done"]]
  /\ UNCHANGED <<kind, obj, cache, watch, secrets, minted, expired, old, sent, backoff, queued,
                 timer, rec, gc, acks, faults, stale>>

\* Approve / Deny: findByUID reads the cache again.
DecideRead(h) ==
  /\ http[h].pc = "decide"
  /\ http' = [http EXCEPT ![h] = IF cache.phase = "Pending"
                                 THEN [@ EXCEPT !.pc = "write", !.snap = cache]
                                 ELSE [@ EXCEPT !.pc = "done"]]
  /\ UNCHANGED <<kind, obj, cache, watch, secrets, minted, expired, old, sent, backoff, queued,
                 timer, rec, gc, acks, faults, stale>>

\* Mutant: the decision is retried on the refetched object, its phase unchecked.
DecideRetrying(h) ==
  /\ http[h].pc = "write"
  /\ http' = [http EXCEPT ![h].pc = "done", ![h].snap = NoSnap]
  /\ Commit(Settle(obj, http[h].op)) /\ NoFault
  /\ acks' = acks \cup {<<http[h].op, h>>}
  /\ secrets' = secrets \ {http[h].snap.token}
  /\ UNCHANGED <<kind, cache, minted, expired, old, sent, backoff, queued, timer, rec, gc, stale>>

\* Approve / Deny: the status write, the Secret's deletion (best effort) and
\* the answer to the human.
DecideWrite(h) ==
  LET snap == http[h].snap
      o    == Settle(snap, http[h].op)
  IN  /\ http[h].pc = "write"
      /\ http' = [http EXCEPT ![h].pc = "done", ![h].snap = NoSnap]
      /\ \/ /\ Fresh(snap) /\ Commit(o)
            /\ acks' = acks \cup {<<http[h].op, h>>}
            /\ \/ secrets' = secrets \ {snap.token} /\ NoFault
               \/ snap.token \in secrets /\ UNCHANGED secrets /\ Fault
         \/ ~Fresh(snap) /\ NoCommit /\ NoFault /\ UNCHANGED <<secrets, acks>>
         \/ /\ Fresh(snap) /\ Fault
            /\ NoCommit \/ Commit(o)
            /\ UNCHANGED <<secrets, acks>>
      /\ UNCHANGED <<kind, cache, minted, expired, old, sent, backoff, queued, timer, rec, gc,
                     stale>>

HttpStep ==
  \E h \in Handlers :
    \/ \E op \in {"Approved", "Denied"}, t \in {None} \cup sent : Click(h, op, t)
    \/ DecideRead(h)
    \/ DecideWrite(h)

-----------------------------------------------------------------------------
(* The garbage collector: sweepSecrets, then expirePending, every tick.    *)

\* Mutant: only the Secret the request refers to is considered.
SweptReferenced == secrets \cap expired \cap {obj.token}

\* Secrets whose expires-at label has passed.
Swept == secrets \cap expired

\* sweepSecrets deletes the token Secrets past expires-at; a failed Delete is
\* left to the next tick.
SweepSecrets ==
  /\ gc.pc = "idle"
  /\ gc' = [gc EXCEPT !.pc = "list"]
  /\ \/ secrets' = secrets \ Swept /\ NoFault
     \/ Swept # {} /\ UNCHANGED secrets /\ Fault
  /\ UNCHANGED <<kind, obj, cache, watch, minted, expired, old, sent, backoff, queued, timer,
                 rec, http, acks, stale>>

\* expirePending: the cached List, and the choice of requests past the TTL; a
\* failed List is left to the next tick.
ExpirePendingList ==
  /\ gc.pc = "list"
  /\ \/ /\ gc' = IF cache.phase = "Pending" /\ PastTTL
                 THEN [pc |-> "write", snap |-> cache]
                 ELSE [pc |-> "idle", snap |-> NoSnap]
        /\ NoFault
     \/ gc' = [pc |-> "idle", snap |-> NoSnap] /\ Fault
  /\ UNCHANGED <<kind, obj, cache, watch, secrets, minted, expired, old, sent, backoff, queued,
                 timer, rec, http, acks, stale>>

\* expirePending: the write; any error leaves the request to the next tick.
ExpirePendingWrite ==
  /\ gc.pc = "write"
  /\ gc' = [pc |-> "idle", snap |-> NoSnap]
  /\ \/ /\ Fresh(gc.snap) /\ Commit(Settle(gc.snap, "Expired"))
        /\ \/ secrets' = secrets \ {gc.snap.token} /\ NoFault
           \/ gc.snap.token \in secrets /\ UNCHANGED secrets /\ Fault
     \/ ~Fresh(gc.snap) /\ NoCommit /\ NoFault /\ UNCHANGED secrets
     \/ /\ Fresh(gc.snap) /\ Fault
        /\ NoCommit \/ Commit(Settle(gc.snap, "Expired"))
        /\ UNCHANGED secrets
  /\ UNCHANGED <<kind, cache, minted, expired, old, sent, backoff, queued, timer, rec, http, acks,
                 stale>>

GCStep == SweepSecrets \/ ExpirePendingList \/ ExpirePendingWrite

-----------------------------------------------------------------------------
Next ==
  \/ CacheSync \/ SecretEvent \/ Crash
  \/ Age \/ (\E t \in 1..minted : TokenExpires(t)) \/ BackoffElapses \/ TimerFires
  \/ Reconcile \/ RecStep
  \/ HttpStep
  \/ GCStep

\* The process runs, so its goroutines and timers do; watch events arrive.
\* Nobody promises a human; faults are bounded, not fair; and the TTL need not
\* pass -- the properties that wait for it say <>old.
Fairness ==
  /\ WF_vars(CacheSync) /\ WF_vars(BackoffElapses) /\ WF_vars(TimerFires)
  /\ WF_vars(\E t \in 1..minted : TokenExpires(t))
  /\ WF_vars(Reconcile) /\ WF_vars(RecStep)
  /\ WF_vars(SweepSecrets) /\ WF_vars(ExpirePendingList) /\ WF_vars(ExpirePendingWrite)

Spec == Init /\ [][Next]_vars

FairSpec == Spec /\ Fairness

-----------------------------------------------------------------------------
(* Properties.                                                             *)

\* The abstract lifecycle this specification is shown to implement.
Lifecycle == INSTANCE SudoLifecycle WITH phase <- obj.phase, link <- obj.token

\* Whatever the caches, workers, handlers and collector race on, a request
\* follows the lifecycle of SudoLifecycle: one decision, one live link while it
\* is open, terminal phases for good (reconciler.go, Reconcile's phase switch).
FollowsLifecycle == Lifecycle!LSpec

\* Every link ever pushed is the one that can decide the request: no retry, crash
\* or lost write leaves the human with "a dead predecessor link"
\* (deliverApprovalNotification), and none is pushed before Pending is durable.
LinkIntegrity ==
  /\ obj.phase = "New" => sent = {}
  /\ obj.phase = "Pending" => sent \subseteq {obj.token}

\* A durable Pending request whose token is still good can always be notified:
\* its token Secret exists, even when the write that made it Pending reported
\* an error (handleNew keeps the Secret on an ambiguous update).
NotStranded == obj.phase = "Pending" /\ obj.token \notin expired => obj.token \in secrets

\* A human who was told "Approved" or "Denied" is not contradicted: at most one
\* decision is acknowledged and the phase is a consequence of it, against every
\* race with the other handlers, expiry in the reconciler and expiry in the GC.
AcknowledgedDecisionStands ==
  \A a \in acks :
    /\ acks = {a}
    /\ obj.phase \in IF a[1] = "Denied" THEN {"Denied"} ELSE {"Approved", "Executed", "Failed"}

\* No request waits for a decision for ever: handlePending's timer or the GC
\* expires it, whatever the order of restarts, lost writes and stale reads.
PendingResolves == <>old => (obj.phase = "Pending" ~> obj.phase # "Pending")

\* A Pending request is pushed to the human unless it is decided or outlives its
\* TTL first: no failed push, lost write, missed Secret or restart drops the
\* notification (handlePending, deliverApprovalNotification).
NotifiedOrDecided ==
  obj.phase = "Pending" ~> (obj.notification = "Delivered" \/ obj.phase # "Pending" \/ old)

\* Token Secrets do not pile up: those of abandoned mints, ambiguous writes and
\* failed deletions are swept once their label expires (gc.go, sweepSecrets).
SecretsSwept == <>old => <>[](secrets = {})
=============================================================================
