# TLA+ models of sudo-service

sudo-service is a Kubernetes controller with an HTTP API. An agent submits a
privileged command as a `SudoRequest`; a human is pushed a one-time link and
approves or denies it; an approved command runs once, as a Job, and its exit code
and output are reported back. This directory models that program: what each part
does to the shared state, step by step, against lagging caches, failed and
ambiguous API calls, restarts and other clients of the cluster.

## 1. Inventory

| Part (source) | State it keeps | Operations | What makes it correct |
|---|---|---|---|
| Reconciler, approval half (`reconciler.go`: `handleNew`, `handlePending`, `deliverApprovalNotification`, `updateStatus`) | `status` of the request, the approval-token Secret, the workqueue and its timers | reject, auto-approve, mint a token, persist Pending, assess, push, expire | the link the human holds is the one that works; a Pending request is pushed and ends; nothing overwrites a decision |
| Decisions (`reconciler.go`: `Approve`, `Deny`, `VerifyApprovalToken`; `api.go`: `handleApprovePost`, `denyHandlerWithClaims`) | none of its own: a cached read and a conditional write | approve, deny | a decision answered "done" stands |
| Garbage collector (`gc.go`) | none: a ticker | sweep Secrets, expire Pending requests | backs up the timers lost in a restart; leaves no token Secret behind |
| Executor (`executor.go`, `handleApproved`, the deletion branch of `Reconcile`) | Job name and UID, stdin Secret, exit code and output fields, finalizer | mint names, create and adopt the Job, observe, capture, tear down, fail, finalise | the command is not run twice, its own result is reported, nothing keeps running afterwards, no request hangs |
| Event streams (`broadcaster.go`; `api.go`: `serveEvents`, `globalEventsHandler`) | subscriber channels | subscribe, publish, stream, unsubscribe | no slow client blocks a writer; no stream misses the end of its request |
| Submission and retry (`retry.go`; `api.go`: `createRequestHandler`, `resubmitHandler`) | `requestMu`, `supersededByUID` | create, requester retry, administrator resubmission | no duplicate active requests; one genuine, linked successor |
| Playbooks (`playbooks.go`) | pinned target UID or recorded absence | prepare, approve, delete, mark | only vetted Jobs are deleted, only the one that was pinned |
| From spec to pod (`validation.go`, `decode.go`, `profiles.go`, `auto_approve.go`, `review.go`, `buildExecutorJob`) | rules and profile catalog of the running process, `resolvedImage` | validate, resolve, preflight, auto-approve, display, build, refuse token Secrets | what runs is what was approved; an approved pod is not refused over what was spliced in; no Secret is exposed unseen |
| Output (`executor.go`: `captureJobOutput`, `consumePodLogs`; `logs.go`; `api.go`: `serveOutput`; `gc.go`) | output Secret with its expiry, counts, digest and states in the status | copy, truncate, store, record, serve, sweep | the status tells the truth about the output, which is kept as long as asked |
| Review page (`api.go`: `authenticateHuman`, `renderApprovePage`, `ensureCSRFCookie`, `validateCSRF`; `auth.go`) | a cookie in the reviewer's browser | identify, render, post | a form that is open works |
| Client (`client/cli/sudo-service`) and requester endpoints (`api.go`, `auth.go`) | none but the uid | submit, poll, fetch | the caller is told what happened, and gets an answer |
| Process (`main.go`) | two goroutines and a shared context | start, fail, shut down, join | the service is whole or gone |
| Summarizer (`summarizer.go`), chart and templates | none | an external call, configuration, HTML | not modelled, see section 8 |

How they interact. All of them share the `SudoRequest` in the apiserver. The
reconciler, `Reconciler.findByUID` and the collector read it through one informer
cache, which lags; `handleApproved`, `updateStatus`'s refetch, the API server's
`findByUID` and the duplicate check read the apiserver directly. Every status write
is conditional on the `resourceVersion` of the copy that was read. controller-runtime
hands one request to one worker at a time, so the concurrency around one request is:
one reconcile, any number of HTTP handlers, the collector, the informer, and the
cluster. The chart runs one replica with strategy `Recreate`.

What is hard in it: a copy that is stale when it is used; a call that commits and
reports an error; a step of several that fails (Secret created, status not written;
Job created, UID not recorded; result recorded, Job not stopped); timers that die
with the process; background deletion, which reaps a Job's dependents in no set
order; publishes that overtake each other; names that someone else may take; a
process that is replaced, with other rules and images, between approval and
execution; a cookie shared by forms that were rendered at different times.
`PROJECT.json` lists these hazards at the lines where they bite.

## 2. Modules

| Module | Models | Uses |
|---|---|---|
| `SudoLifecycle` | abstract specification: phases, and one approval link that is live exactly while a decision is open | |
| `ApprovalFlow` | one request from creation to decision; reconciler, handlers, collector, informer | instantiates `SudoLifecycle` with `phase <- obj.phase`, `link <- obj.token` |
| `ExecutorFlow` | one approved request: the rest of `handleApproved`, deletion, Jobs, pods, stdin Secret | details `Execute` of `ApprovalFlow` |
| `PlaybookFlow` | the playbook path of `handleNew` and `handleApproved` | details `HandleNewPlaybook` of `ApprovalFlow` |
| `EventStream` | publishing one request's transitions to streams and watchers | takes the transitions of `SudoLifecycle`, and the repeated playbook approval of `PlaybookFlow` |
| `RetryFlow` | submissions and retries around one source request | |
| `CommandPreflight` | what is read out of a command: executables, allowlist tokens; a reference reading of the shell | |
| `ExecutorPod` | one spec from submission to the pod that runs | extends `CommandPreflight`; details `kind` of `ApprovalFlow` and the Job of `ExecutorFlow` |
| `ServerProcess` | the process, its goroutines and its end | |
| `OutputDelivery` | capture, output Secret, sweep | extends `ServerProcess`: its workers live and die with the manager |
| `ReviewPage` | the reviewer's browser, identity and CSRF | extends `OutputDelivery` |
| `RequestSession` | client and requester endpoints; the composition of the three before it | extends `ReviewPage` |
| `X_proofs`, for each of `ApprovalFlow`, `ExecutorFlow`, `EventStream`, `RetryFlow`, `PlaybookFlow`, `ExecutorPod`, `RequestSession` | the theorems about `X` and the lemmas under them (section 5) | extends `X`, `TLAPS` |
| `NumberLemmas` | least and largest of a set of numbers: induction over data for the proofs | extended by `ExecutorPod_proofs` and `RequestSession_proofs` |
| `MC_*` | TLC instances | |

The modules cut the system where one part's interface to another is narrow: the
approval half hands over at phase `Approved`, and comes back only through the two
terminal writes that `Execute` stands for; streams see only commits.
`RequestSession` cuts the other way: it follows one request through all parts, with
their inner races left to the modules above, to see what its caller and its reviewer
experience.

### Conventions

* `obj`/`req` is the object in the apiserver and `cache` the informer's copy; a
  worker carries `snap`, the copy it read. `rv` is the `resourceVersion`. A write
  through a plain `Status().Update` requires `snap.rv` to be current;
  `updateStatus` refetches and re-applies its mutation on a conflict.
* `pc` values are the points of a handler between two API calls. What runs
  between two calls is one step; each call has its own step, because another
  actor may act in between. The result of a reconcile is `End(...)`: an error,
  `Requeue` and `RequeueAfter` all bring the object back.
* `Fault` is a call that fails, or succeeds and reports an error (both outcomes are
  taken), a crash, an evicted pod or a foreign object. `MaxFaults` bounds how many
  happen in one behaviour; it does not bound ordinary conflicts, lag or
  interleaving.
* Tokens are numbers: 0 is none, `t` the t-th minted. `token` stands for the hash,
  expiry and Secret name, which the code writes together.
* Time is untimed, except in `OutputDelivery` and the modules above it, where `now`
  counts from the request's creation and expiries are compared with it. Elsewhere
  `old` (the TTL has passed), `backoff`, `late` (the start
  deadline) and `expired` become true at any moment; durations are compared only
  where the code's constants order them (a token, minted after creation with the
  same TTL, does not expire before the request does).
* A definition whose comment begins with "Mutant" is a plausible wrong version of
  the definition that follows it. No specification uses it; each shows that a
  property can fail.

### ApprovalFlow

`Reconcile` routes by the cached phase. `handleNew` is `HandleNewReject`,
`HandleNewAutoApprove`, `HandleNewPlaybook`, and `HandleNewMint` followed by
`HandleNewPersist`, because the Secret is created before the status refers to it.
`handlePending` is `HandlePendingExpire` or `HandlePending`, which goes on to
`GenerateAssessment`, `DeliverRead` (the cached Secret), `SendApproval` and the
status writes through `UpdateStatus`/`Refetch`. `Click`, `DecideRead` and
`DecideWrite` are an approve or deny request: token check, second cached read,
conditional write with its answer. `SweepSecrets`, `ExpirePendingList` and
`ExpirePendingWrite` are one tick of the collector. `kind` says which branch of
`handleNew` a spec takes; `acks` and `sent` are history.

### ExecutorFlow

`job` is the object at the minted name, `pods[u]` the pod of the Job with UID u,
`stdin` the owner of the stdin Secret. The worker walks through `HandleApproved`
(uncached refetch), `AddFinalizer`, `MintNames`, `FindJob`, `CreateJob`,
`EnsureStdin`, `RecordUID`, `Observe`, `CaptureOutput`, then `Conclude` or, with a
sidecar holding the Job open, `RecordResult` and on a later reconcile `Teardown`.
`StopAndFail`/`MarkFailed` are `failApproved`/`markFailed`; `FinalizeStopJob` and
`FinalizeRelease` the deletion branch. The cluster's steps (`PodScheduled` ..
`StartDeadlinePasses`) are external: they are what the code must cope with.

### EventStream, RetryFlow, PlaybookFlow

`EventStream` splits `Publish` into the copy under the lock and one send per
channel, and a stream into find, subscribe, snapshot and receive loop. `commits` is the
history of the request's phases, each with the progress of its publish, because a phase
may be committed twice: `CommitPhase` takes the transitions that start from the current
object, `ReapproveStale` is the reconcile of finding 4, which turns the request back to
`Approved` from whatever it has become, and publishes that. An event is the number of its
commit. In
`RetryFlow` a request is reduced to what the checks tell apart: same fingerprint or
not, genuine lineage or not, at the retry name or not. "Failed" stands for the
phases both callers may retry, "Denied" for those only an administrator may.
`PlaybookFlow` lets Jobs finish, vanish and reappear under the target's name
between every two calls; `first` remembers what the approval was first pinned to.

### ExecutorPod, CommandPreflight

A spec is a record of what the checks tell apart: namespace, privileges, stdin,
volumes with their sources, mounts with their paths, environment, init containers, image, profile, and a command as
simple commands of opaque words; small tables say what the code's string tests find
in a word. `SubmitHTTP` and `CreateDirect` (a request made with kubectl skips the
API's checks), `HandleNew` (all verdicts of `handleNew`), `ShowPage`, `Approve`, and then
`findOrCreateJob` call by call: `FindJob`, one `CheckSecret` per Secret named, `CreateJob`,
each of which may fail and start the reconcile over (`CallFails`). `worker` is where it
has got to. In between `Restart` brings other rules or another catalog and
`SecretChanges` deletes or creates a Secret, also between a Secret's Get and the Create.

A mount path is the requester's string, split at every slash and not cleaned: `/tmp//a`
is `<<"", "tmp", "", "a">>`, `tmp/a` is `<<"tmp", "a">>`, and a trailing slash leaves an
empty last component. Equality of strings is equality of such sequences, and Go's
`HasPrefix(p, dir+"/")` is being a proper prefix. `Under` is the other reading, of where
a container finds the path, and `Canonical` tells where the two agree. `formats` stands for
the apiserver's rules for single fields (names as DNS labels, a required `secretName`,
relative subpaths), which validation does not repeat. `SudoRequestSpec` is the type of all such specs; the
proofs are about every one of them. The operators carry the names of the Go functions:
`validateSpecExtras`, `imageFor`, `autoApproves`, `stampScratch`, `buildExecutorJob`
and so on. `Admitted` is the apiserver's validation,
external. `Invokes` in `CommandPreflight` is the reference: which word of a simple
command the shell looks up, stated without following the code's scan.

### RequestSession and the modules under it

`ServerProcess`: `Start`, `ListenFails`, `ManagerFails`, `Signal`, `Shutdown`, `Drained`,
`Exit` are the main goroutine and its two children; `Kill` and `Restart` the kubelet.
`OutputDelivery`: `OpenLogs`, one `CopyChunk` per chunk through `Write`, `StoreOutput`,
`Finalize` are one reconcile after the Job has ended; each of its calls may fail by
itself or because the context is cancelled, and `ProcessStep` ends the reconcile with
its manager. `SweepOutput` is the collector. The Job has no sidecar here. `ReviewPage`:
`Load`, `Render`, `Post` per tab, where `Render` sets the cookie and `Post` checks it
with the identity from the first header that verifies. `RequestSession` adds `Submit`,
`Poll` and `Fetch` of the client with their failures, `Interrupt` (exit 130, at any point),
`--timeout` and `--detach`; the status is read from the apiserver, the output from the cache. Once a request is
decided the browser is forgotten.

## 3. Runs

| Run | Question | Result |
|---|---|---|
| `approval_safety` | Do links, Secrets and acknowledged decisions survive every race, and is the lifecycle refined? | `TypeOK`, `LinkIntegrity`, `NotStranded`, `AcknowledgedDecisionStands`, `FollowsLifecycle` hold (4.5 million states) |
| `approval_liveness` | Is a Pending request always pushed, always ended, its Secret always swept? | `NotifiedOrDecided`, `PendingResolves`, `SecretsSwept` hold (0.4 million) |
| `executor_flow` | Does an approved request end, with its own result if it can be read, one recorded Job and nothing left running? | `NoOrphanWorkload`, `OwnResult`, `OutcomeReported`, `NoReplayOnceRecorded`, `ApprovedTerminates`, `DeletionCompletes` hold (1 million) |
| `executor_replay` | Does the command start at most once? | `RunsAtMostOnce` is violated (finding 1) |
| `executor_outcome` | Is a recorded result what is reported? | `RecordedOutcomeKept` is violated (finding 2) |
| `events_delivery` | Do streams and watchers learn of transitions, also of repeated ones, and do writers never wait? | `ClosesWithOutcome`, `StreamsDropOnlyRepeats`, `PublishCompletes`, `FreshStreamEnds`, `WatchersTold` hold (98 thousand) |
| `events_lost` | Does every stream of a terminal request end? | `StreamEnds` is violated (finding 3) |
| `retry_flow` | Is the source linked to its own successor before the caller is answered, without active duplicates, and is a missing link repaired? | `LinkedToSuccessor`, `AnswerIsLinked`, `NoActiveDuplicate`, `LinkRepaired` hold (0.2 million) |
| `playbook_flow` | Are only vetted Jobs deleted, and does a playbook end? | `TypeOK`, `DeletesOnlyVetted`, `ExecutedMeansGone`, `PlaybookEnds` hold (45 thousand) |
| `playbook_repin` | Is the pinned target the only one ever deleted? | `PinHolds` is violated (finding 4) |
| `pod_flow` | Is what runs what was approved, admissible as far as validation promises, and free of Secrets nobody saw? | `ApprovedIsExecuted`, `ValidatedIsAdmitted`, `ScratchStepsAside`, `SecretsReviewed`, `NoTokenExposed`, `AutoApprovedIsPlain`, `PreflightSound` hold (3.5 million) |
| `session_flow` | What do the caller, the reviewer and the operator experience through outages and repeated captures? | `CallerToldTruth`, `OutputAccounted`, `OutputKept`, `FormsWork`, `ServiceResumes`, `ClientReturns` hold (0.8 million) |

`TypeOK` of the modules whose run does not list it documents the state; it is proved in
the module's proofs.

### Bounds, and why they are enough

* Two handlers (`approval_safety`): approve against deny, approve against approve;
  a third decision meets the same two outcomes. The liveness run needs no second
  one, because no human is assumed to act at all.
* One fault: each property is about what a failed or ambiguous call does at each
  of the places it can happen, and a fault anywhere combines with unbounded
  conflicts, lag and interleaving. `ExecutorFlow` with stdin has also been run once
  with two faults (14 million states) without a violation of its invariants;
  `playbook_flow` has two throughout. The proofs of section 5 have no bound.
* `MaxStale` counts reconciles routed by a lagging cache. One lets every branch
  start from an old phase; `playbook_flow` allows two. In `events_delivery` it counts
  the approvals such reconciles repeat.
* `MaxRetries = 1`: one refetch after a conflict, then the error path: both
  outcomes of `RetryOnConflict`.
* `GlobalCapacity = 1` makes a watcher's buffer overflow after one event, which 32
  would only delay. `StreamCapacity = 2` is below the three phases that a request and one
  repeated approval commit here (`Pending` or not, `Approved` or `Denied`, `Approved`
  again), so a stream's buffer does overflow in the run; that the code's eight slots
  last until the third repeated approval is the theorem's arithmetic (section 5).
  `Explored` leaves one terminal phase, `Denied`, the one whose writers overtake the
  worker's; a second outcome after a repeated approval is beyond the run's size and is
  covered by the proofs.
* `pod_flow` takes its specs from three families (`MC_ExecutorPod`): mounts at, under,
  above and beside each of the controller's paths, two in the executor and one in an
  init container; Secrets by every route, with namespaces and privileges; commands of
  up to three words, four for `exec -a`, with images, profiles and lifetimes; a malformed
  field, and an init container named `executor`. One restart (`MaxRestarts`) between any
  two stages: the stages after it all see the same world. Two changes of a Secret
  (`MaxSwaps`), which is what it takes to recreate it as a token, on either side of its
  Get; two Secrets, so that one can change while the other is read. What a Secret was
  before the approval is an initial state.
* `session_flow`: `MaxOutputBytes = 2` with logs below, at and above it, in chunks that
  straddle it; a clock of three units, in which an output of lifetime one and a request
  of lifetime two can expire; two tabs; two troubles (`MaxFaults`), of which one may end
  the process (`MaxStops`): a failed status write after a capture and then a shutdown in
  the repeated one is the longest case the properties speak of.
* `MaxRequests = 2`: a successor and a rival (a duplicate or an object at the retry
  name). Replicas and handlers are symmetric.
* `MaxJobs = 2`: the target and what replaces it.

Deadlock is checked for `ApprovalFlow`, whose collector never stops. The other
systems may come to rest: a finished request with its Job gone, a closed stream, a
client that has exited when the clock is at its bound.

### Fairness, and what in the code justifies it

Weak fairness of the reconcile worker, the informer and the timers: goroutines of
a running process. The collector's steps: its ticker. `Publisher` and the stream
loops likewise; a client listed in `Slow` is owed no read. In `ExecutorFlow` the
cluster owes completed deletions, the exit of a started command, the Job count once
the pod is over, unless a sidecar holds it, and the passage of time; it does not owe
a pod its start. In `RetryFlow` `Lock` is strongly fair (Go's mutex does not
starve) and so is the caller's repetition of an administrator's retry, which is
the recovery the comment on `retryRequest` describes. In `RequestSession` the goroutines
of the process, its restart by the kubelet, the reconciler, the informer, the clock and
a client that is not killed are fair; the command owes no end. No human is fair, no fault is
fair, and `Age` is not either: the properties that wait for the TTL say `<>old`.

## 4. Findings

1. **A rolled-back Job may have run** (`executor_replay`). If recording the Job's
   UID fails, `handleApproved` deletes the Job in the background and retries with no
   UID. The pod may already run, and the next reconcile starts a second one.
2. **A recorded result can be rewritten** (`executor_outcome`). After the result
   was recorded for a Job held open by a sidecar, the next reconcile captures again.
   If the Job has finished meanwhile and that capture fails, the request is marked
   Failed, or its output state overwritten.
3. **A committed write that reports an error is never published** (`events_lost`),
   so an open stream never ends although the request has.
4. **A stale reconcile repeats a playbook's approval** (`playbook_repin`).
   `updateStatus` re-applies "Approved" and a fresh pin on the refetched object
   whatever its phase is; a Job that appeared after a recorded absence is deleted.
   For the same reason the theorems about `ApprovalFlow` exclude playbooks: this
   write can reopen a terminal request. Event streams that were closed on the outcome it
   undoes are not told, and each repetition publishes `Approved` again: see
   `ClosesWithOutcome` and `StreamsDropOnlyRepeats`.

### Remarks

Met while modelling, and outside what the properties claim:

* The form of a command, argv or shell, is chosen when the Job is built, by the rules
  of the process that builds it. `executor.go:91-97` says the gate and the choice go
  through one function "so they can't drift", and `templates/approve.html:63` calls the
  page "exactly what will run"; both are true only without a restart under other rules.
  `ApprovedIsExecuted` and `AutoApprovedIsPlain` say so (`config = approved.config`); the
  words and the image survive any restart.
* Validation does not repeat the apiserver's checks. Two requester volumes with one name, a
  volume with two sources, two init containers with one name, an init container named
  `executor`, and any field malformed by itself (a name that is no DNS label, an empty
  `secretName`, a relative subpath with `..`) pass it and are refused after the approval.
  `ValidatedIsAdmitted` lists these five and says that mounts, and what the controller
  adds, are never the cause; the fifth, `formats`, is as wide as the apiserver's rules
  for single fields are.
* Mount paths are compared as written. A mount at `//tmp/creds`, `tmp/creds` or
  `/./tmp/creds` does not keep the `/tmp` scratch from being mounted above it, against
  the comment at `executor.go:435-437` ("never nests a volume over a requester mount"), and
  one at `/home/sudo-service/` takes the branch of a mount below the home directory and
  gets no `HOME`. `ScratchStepsAside` claims the rest: paths written canonically.
* A requester's mount at `/home` gets the home scratch nested inside it. A mount at the
  home directory is taken to be writable without a look at `readOnly`.
* `executor.go:146` leaves a dangling Secret reference "to fail at mount time"; the code
  at 178-189 refuses it. A Secret deleted and recreated as a token after its Get and before
  the pod mounts it is the race that the comments at 147-150 and 183-186 accept;
  `NoTokenExposed` excepts exactly the Secrets that change between Get and Create, and
  claims nothing of the time after the Create.
* A client interrupted from the keyboard exits with 130, which a command may exit with as
  well; the caller cannot tell them apart by the code alone (`CallerToldTruth`). Each of
  its other errors is exit 1. A caller that closes the client's stdout is not modelled.
* Combined `exec` options ("-la name") are read wrongly by `execTarget`, and any word of
  `set` with an "o" in it passes for an option that takes `pipefail`.
* The stdin Secret of a rolled-back Job is owned by that Job and reaped after it; the
  retry's Job finds a Secret it does not own, and the request fails as "foreign".
* Two first loads of the review page in flight, or a page reached from another site (the
  cookie is `SameSite=Strict`), mint different CSRF tokens, and the later page invalidates
  the form of the other. `FormsWork` excludes this by the history `bare`, and claims the
  rest.
* An output Secret's lifetime counts from the first capture. A repeated capture finds
  it (`AlreadyExists`) and keeps the old expiry, so its end may come before the request's.

## 5. Theorems

Each proof has the same shape: an inductive invariant, a lemma per action (or group of
actions that leave the same things alone), and theorems that follow from the invariant.
Constants have only the assumptions named in their modules: sets of known values, and
bounds that are natural numbers. Every invariant a passing run checks is stated by a
theorem.

### ApprovalFlow

`ApprovalFlow_proofs` proves, for every number of handlers and every value of the
bounds:

* `TypeCorrect`: `Spec => []TypeOK`, for all kinds of request.
* `ApprovalSafe`: `LinkIntegrity`, `NotStranded` and `AcknowledgedDecisionStands`
  are invariants, if `"playbook" \notin Kinds`.
* `PendingNeverStranded` and `DecisionsStand`: its two corollaries by name, `NotStranded`
  and `AcknowledgedDecisionStands`.
* `ImplementsLifecycle`: `Spec => FollowsLifecycle` under the same assumption.

The only other assumptions are those named in `ApprovalFlow`: the kinds are known
kinds, `Summarize` is a Boolean, the bounds are naturals.

None of the invariants is inductive: each depends on what actors in flight may
still write. `IndInv` adds what the code relies on without saying so:

* `Copies`: a copy of the object, in the cache, on its way to the cache or in an
  actor's hands, is no newer than the object, and equals it if it has its
  `resourceVersion`. This turns "the conditional write succeeded" into "the actor
  acted on the current object", and is why a stale actor can only fail;
* `Routes`: each actor's copy has the phase that routed it, so a write that
  succeeds starts from Pending, or New, or Approved, as the branch expects;
* `Links`: the tokens in copies and pushed links are the object's own once it is
  Pending, and there are none before, so a re-minted token is either persisted or
  never pushed;
* `SecretKept`: the Secret of a token that is referred to, or about to be, is
  still there, unless it expired or was spent by the write that settles the request.

The proof has one lemma per layer (`TypeStep`, `EffectStep` for what each action
does to the object, `WorkerStep`, `TokensStep`, `AcksStep`, `CopiesStep`) and combines
them in `IndStep`. The refinement proof maps each step to `SettleWithoutHuman`,
`OpenForDecision`, `Decide`, `Finish` or a stutter. `IndInv` was first checked with
TLC on the instance of `approval_safety` with one handler.

### PlaybookFlow

`PlaybookFlow_proofs` proves, for every number of Jobs, faults and stale reconciles:

* `PlaybookTypeCorrect`: `Spec => []TypeOK`;
* `DeletionsVetted`: `Spec => []DeletesOnlyVetted`;
* `ExecutedIsGone`: `Spec => []ExecutedMeansGone`.

Its `IInv` adds `PinVetted` (a recorded or about to be recorded pin was finished and
matched the rule, and stays so, because a Job does not run again and its template does
not change) and `PinCurrent` (between the refetch of `handleApproved` and its last write
nobody else writes the request, so the pin acted on is the recorded one; and once the
worker is about to write Executed, the pinned Job is gone). Without them the deletion,
which compares only the UID, would not be tied to the check two reconciles earlier. The
cluster's steps, the deletion and the worker's other steps have a lemma each. That
`PinHolds` fails (finding 4) is no contradiction: a re-pinned Job is vetted too.

### ExecutorFlow

`ExecutorFlow_proofs`, for both placements, with and without stdin and sidecars, for any
number of faults:

* `ExecutorTypeCorrect`: `TypeOK`, which includes that a recorded UID is that of a Job
  that was created;
* `ResultIsOwn`: `OwnResult`; `NothingOrphaned`: `NoOrphanWorkload`; `OutcomesReported`:
  `OutcomeReported`;
* `NeverReplayed`: the action property `NoReplayOnceRecorded`.

The four depend on where the worker is between two calls. `IInv` adds `Tracks` (from
the uncached refetch to its last write the worker's copy has the UID, exit code and
output state of the object: nobody else writes them), `Stage` (what has been established
at each point: a Job is created only with a name and no UID recorded, the last write is
reached only with the Job finished, stopped or foreign, and with the exit code of the
recorded Job's pod), `Cluster` (exit codes come from pods that ended, Jobs finish after
their pods), `Deletion` and `Guarded` (the deletion branch works on a cached copy that is
no newer than the object; elsewhere than in the controller's namespace the finalizer
precedes the name, and the name the Job). Without `Guarded`, a deletion that overtakes a reconcile would leave a
Job behind, and `NoOrphanWorkload` would not be inductive.

### EventStream

`EventStream_proofs`, for any number of streams, watchers and faults and any explored
transitions: `EventTypeCorrect`, `StreamsCloseWithOutcome` (`ClosesWithOutcome`),
`StreamBufferSuffices` (`StreamsDropOnlyRepeats`), with any number of approvals repeated from
a lagging cache. `IInv` says that a request has committed no more phases than its current
one ranks, plus two for each repeated approval (`Counted`), that only such an approval
follows an outcome (`OutcomeHeld`), that a closed stream was told one (`OutcomeTold`), that a
publish has sent nothing yet to the channels it has left (`Sending`), and that a stream's
channel holds published commits, each at most once (`Sent`, `Once`). The buffer argument is
then a count: the events in a full channel and the one that finds it full are different
commits, so there are more commits than slots (`Overflow`), and at most `3 + 2 * stale` of
them. Eight slots are safe up to two repeated approvals; a stream that reads nothing while
three of them happen may lose an event, which the theorem allows.

### RetryFlow

`RetryFlow_proofs`, for any number of replicas, handlers, requests, conflict retries and
faults: `RetryTypeCorrect`, `SourceLinkedToSuccessor` (`LinkedToSuccessor`),
`AnswersAreLinked` (`AnswerIsLinked`), `NoDuplicateActive` (`NoActiveDuplicate`). `IInv` is
about the objects (`World`: the link is written once and to a successor; an informer's copy of the
source has the object's link or none) and about each handler (`Handler`: who
holds `requestMu`; between its List and its Create no equivalent request of its replica
is active; what it is about to link is a successor). Each step is first shown to move
the objects forward only (`Grows`, `SourceForward`), which is all the other handlers need.

### ExecutorPod

`ExecutorPod_proofs`, for every set of specs of type `SudoRequestSpec` (any number of
volumes, mounts, variables, init containers, commands and words), any rules, catalogs and Secrets,
and any number of restarts and changes:

* `PodTypeCorrect` and `ApprovedPodRuns` (`ApprovedIsExecuted`);
* `SplicingIsAdmitted` (`ValidatedIsAdmitted`) and `ScratchLeavesAlone`
  (`ScratchStepsAside`), from lemmas about the operators: what `stampScratch` and stdin
  append to mounts (`Stamp`, `WithStdinMounts`), to volumes (`PodVolumes`), and that neither
  can repeat a name or a path (`StampAdmitted`, `VolumesAdmitted`); and that a canonical path
  under a directory has it as a string prefix (`CanonicalUnder`), which is where the code's
  comparison and the containers' view agree;
* `SecretsWereReviewed` (`SecretsReviewed`) and the action property `TokensStayHidden`
  (`NoTokenExposed`), from `ExposedNamed`: the pod exposes no Secret the spec does not name,
  and from `Reads` below;
* `AutoApprovedRunsPlain` (`AutoApprovedIsPlain`);
* `RefusalsAreRight` (`PreflightSound`), from `VisibleIsInvoked`: what the code's scan over
  the words of a simple command finds is a word that the reference reading looks up,
  whatever the length of the command.

`IInv` records that a request past `handleNew` is validated and has its image in the
status (`Pages`), so that a page shown, an approval and a Job built by another process
are functions of the same spec and image; that an automatic approval rests on the rules
of its process (`ByRule`); that the Job is what the running process builds, and a refusal
the apiserver's of that pod (`Jobs`); and that each Secret the worker has read is ordinary
or has changed since (`Reads`), which ties the Create to the Gets before it.
The specs' type is an assumption (`SpecsAssumption`, with: no Secret has an empty name), as
is that a catalog has the default profile and its profiles have images
(`ConfigsAssumption`; the catalog is the table `executorProfiles`, compiled in).

### RequestSession

`RequestSession_proofs`, for all logs in all chunkings, limits, lifetimes, exit codes, tabs,
timeouts and numbers of faults and restarts: `SessionTypeCorrect`, `OutputIsAccounted`
(`OutputAccounted`), `OutputIsKept` (`OutputKept`), `FormsKeepWorking` (`FormsWork`) and
`CallerIsToldTruth` (`CallerToldTruth`). `IInv` has three parts, and TLC checked it on the
instance of `session_flow`:

* `Delivery`: a capture in progress has read some number k of chunks and its digest, count
  and retained bytes are those of the first k (`Copied`); one that is about to be recorded
  speaks the truth about the whole log, and blames a failed call or a cancelled context
  for a loss (`Capturing`); the status does the same, with a failed call (`After`); the
  Secret, in the cluster and in the cache, holds the cut log and expires a lifetime after
  the first capture (`Stored`);
* `Browser`: the cookie outlives the request, a form's token is the cookie's unless a page
  was asked for bare, and at most one page asked for bare is out;
* `Client`: what a client has seen of a request that ended is what it is, and only an
  interrupted one exits with 130 on its own account.

The log is a sequence of numbers here (`OutputAssumption`), which only says that output
consists of bytes.

### Induction over data

Two proofs need what a recursive definition computes: `FlattenSeq` for the log, and the
walk of `execTarget` over options. The library's induction theorems are out of the
provers' reach; both arguments take the least number for which the claim fails
(`Smallest` in `NumberLemmas`, from the well-foundedness of the naturals) and contradict it
(`FlatExists`, `WalkExists`, `WalkEnds`).

### Only model-checked

* Liveness, which needs fairness and `ENABLED`: `NotifiedOrDecided`, `PendingResolves`,
  `SecretsSwept`, `ApprovedTerminates`, `DeletionCompletes`, `PublishCompletes`,
  `FreshStreamEnds`, `WatchersTold`, `LinkRepaired`, `PlaybookEnds`, `ServiceResumes`,
  `ClientReturns`.

Of requests that a playbook may settle, `ApprovalFlow` claims its types and liveness only:
finding 4 breaks the safety properties, and `approval_safety` leaves them out as the
theorems do. `PlaybookFlow` has theirs.

## 6. What the models abstract

The spec of a request is its `kind` (approval), `scope` (executor), `same`
(fingerprint), and a full record only in `ExecutorPod`. Words of a command, messages and
log bytes are opaque; the digest of a stream is the stream. The wording of review rows,
events recorded on the object and log lines are left out; publishes appear in
`EventStream` only. The spec is assumed constant after creation: nothing in the code
writes it, and the resolved image, not the spec, is what survives a new catalog.

`OutputDelivery` assumes that between two sweeps, five minutes apart, the informer has
caught up with the first. A cache still older would let a sweep delete, by name, an
output Secret created again under it.

Deleting a request before its approval is not in `ApprovalFlow`; afterwards it is in
`ExecutorFlow`.

## 7. Plan

Done, in this order: the abstract lifecycle and the approval flow with its proof;
the executor; event streams; submission and retry; playbooks with their proof; spec,
review and pod; the process, the output, the review page and the client, composed.

Then the proofs of section 5, for all of them.

Next:

1. An abstract specification of an execution ("at most one recorded Job, at most one
   result") that `ExecutorFlow` implements, with the refinement proved.
2. The theorems of `ApprovalFlow` with playbooks, as far as finding 4 leaves them true:
   what a playbook's write may undo, and what it may not.
3. Deletion of a request in the approval flow, with the owner-reference collection of
   its token Secrets.

## 8. Not modelled

* Signatures of tokens, and the reviews the apiserver makes: external services, taken
  as sets of answers.
* The summarizer's prompt and answer: one external call whose two outcomes lead to the
  same step, `GenerateAssessment`.
* Loading and checking of the configuration files (rules, playbooks, flags):
  done once, before anything is served, and fatal when it fails (`StartFails`).
* The client's argument parsing and the assembly of its spec; chart and templates;
  the administrator's list page, which only renders.
