------------------------- MODULE ExecutorPod_proofs -------------------------
(***************************************************************************)
(* Proofs about ExecutorPod, for every spec of the API's type and any      *)
(* rules, catalogs and Secrets: the pod that runs is the one approved, a   *)
(* validated spec is admitted whatever the controller splices into it, no  *)
(* Secret reaches the pod that was not reviewed, and preflight refuses a   *)
(* command only for a word the shell would run.                            *)
(***************************************************************************)
EXTENDS ExecutorPod, NumberLemmas, FiniteSetTheorems, SequenceTheorems, TLAPS

-----------------------------------------------------------------------------
(* The inductive invariant.                                                *)

\* The request passed handleNew.
Passed == {"Pending", "Approved", "Failed", "running"}

\* A page that was built from the spec and the recorded image.
Built(page) ==
  /\ page.config \in Configs /\ page.secrets = ViewedSecrets(spec)
  /\ page.pod = buildExecutorJob(spec, status, page.config)

\* Only a valid spec passes; what is shown or approved from then on has its image
\* from the status.
Pages ==
  /\ spec \in SudoRequestSpec
  /\ status.phase \in Passed => validateSpecExtras(spec)
  /\ shown # NoPage => status.phase \in Passed /\ Built(shown)
  /\ status.phase \in Passed \ {"Pending"} => Built(approved)

\* An automatic approval rests on the rules of the process that gave it.
ByRule ==
  status.by = "auto-approve" =>
    status.phase \in Passed \ {"Pending"} /\ autoApproves(spec, status, approved.config)

\* The Job is the pod the running process builds; only a pod that the apiserver
\* refuses ends as invalid.
Jobs ==
  /\ job # NoPod => job = buildExecutorJob(spec, status, config) /\ Admitted(job)
  /\ status.reason # "" => status.phase = "Failed"
  /\ status.reason = "invalid" => ~Admitted(buildExecutorJob(spec, status, config))

\* A Secret that the worker has read was an ordinary one then.
Reads ==
  worker.busy =>
    \/ clusterAdminEnabled(spec)
    \/ \A n \in ReferencedSecrets(spec) \ worker.left : secret[n] = "opaque" \/ n \in worker.swapped

IInv == TypeOK /\ Pages /\ ByRule /\ Jobs /\ Reads

\* A step that leaves spec and image alone leaves what was built from them as it was.
LEMMA SameImage ==
  ASSUME NEW s, NEW st, NEW st2, NEW c, st.image = st2.image
  PROVE  /\ buildExecutorJob(s, st, c) = buildExecutorJob(s, st2, c)
         /\ autoApproves(s, st, c) = autoApproves(s, st2, c)
  <1>1. imageFor(s, st, c) = imageFor(s, st2, c)
    BY DEF imageFor
  <1>2. autoApproves(s, st, c) = autoApproves(s, st2, c)
    BY <1>1 DEF autoApproves
  <1>3. executorCommand(s, st, c) = executorCommand(s, st2, c)
    BY <1>2 DEF executorCommand
  <1> QED BY <1>1, <1>2, <1>3 DEF buildExecutorJob

\* A pod that is built from a recorded image is a pod.
LEMMA PodIsPod ==
  ASSUME NEW s, NEW st, NEW c, st.image # ""
  PROVE  buildExecutorJob(s, st, c) # NoPod
  <1>1. buildExecutorJob(s, st, c).image = st.image
    BY DEF buildExecutorJob, imageFor
  <1>2. NoPod.image = ""
    BY DEF NoPod
  <1> QED BY <1>1, <1>2

\* Preflight leaves an image to record.
LEMMA ImageResolved ==
  ASSUME NEW s \in SudoRequestSpec, NEW c \in Configs, Preflighted(s, c)
  PROVE  resolveExecutorProfile(s, c) \in STRING \ {""}
  <1>1. s.image \in STRING /\ s.profile \in STRING
    BY DEF SudoRequestSpec
  <1>2. CASE s.image # ""
    BY <1>1, <1>2 DEF resolveExecutorProfile
  <1>3. CASE s.image = ""
    <2>1. (IF s.profile = "" THEN Default ELSE s.profile) \in DOMAIN c.catalog
      BY <1>3, ConfigsAssumption DEF Preflighted, ResolvesProfile, Default
    <2> QED BY <1>3, <2>1, ConfigsAssumption DEF resolveExecutorProfile, ProfileEntry
  <1> QED BY <1>2, <1>3

\* The invariant holds before the request is submitted.
LEMMA InitIInv == Init => IInv
  <1> SUFFICES ASSUME Init PROVE IInv OBVIOUS
  <1>1. TypeOK
    <2>1. status \in StatusType
      <3>1. NewStatus \in StatusType
        BY DEF StatusType, NewStatus
      <3>2. status = NewStatus
        BY DEF Init
      <3> QED BY <3>1, <3>2
    <2>2. changes \in [restarts: 0..MaxRestarts, swaps: 0..MaxSwaps]
      BY BoundsAssumption DEF Init
    <2>3. worker \in [busy: BOOLEAN, left: SUBSET Secrets, swapped: SUBSET Secrets] /\ ~worker.busy
      BY DEF Init, Idle
    <2> QED BY <2>1, <2>2, <2>3 DEF Init, TypeOK, NewStatus
  <1>2. Pages /\ ByRule /\ Jobs /\ Reads
    BY SpecsAssumption DEF Init, Pages, ByRule, Jobs, Reads, NewStatus, Passed, Idle
  <1> QED BY <1>1, <1>2 DEF IInv

-----------------------------------------------------------------------------
(* Each action.                                                            *)

\* Before the approval there is no worker.
LEMMA NoWorkerYet ==
  ASSUME IInv, status.phase # "Approved", UNCHANGED worker
  PROVE  ~worker.busy /\ ~worker'.busy /\ Reads'
  BY DEF IInv, TypeOK, Reads

\* A step before handleNew's, or a denial.
LEMMA SubmitPreserves ==
  ASSUME IInv, SubmitHTTP \/ CreateDirect
  PROVE  IInv'
  <1>1. /\ status'.phase \in {"New", "rejected"} /\ status'.by = status.by
        /\ status'.image = status.image /\ status'.reason = status.reason
        /\ status' \in StatusType
        /\ shown = NoPage /\ job = NoPod /\ status.by # "auto-approve" /\ status.reason = ""
        /\ status.phase = "none"
    BY DEF SubmitHTTP, CreateDirect, TypeOK, StatusType, Pages, ByRule, Jobs, Passed, IInv
  <1>2. UNCHANGED <<config, spec, shown, approved, job, secret, worker, changes>>
    BY DEF SubmitHTTP, CreateDirect
  <1>w. ~worker'.busy /\ Reads'
    BY <1>1, <1>2, NoWorkerYet
  <1>3. TypeOK'
    BY <1>1, <1>2, <1>w DEF IInv, TypeOK
  <1>4. Pages' /\ ByRule' /\ Jobs'
    BY <1>1, <1>2 DEF IInv, Pages, ByRule, Jobs, Passed
  <1> QED BY <1>3, <1>4, <1>w DEF IInv

\* handleNew records the image with its decision, and approves by rule only what the
\* rules of this process match.
LEMMA HandleNewPreserves ==
  ASSUME IInv, HandleNew
  PROVE  IInv'
  <1> DEFINE image == IF Preflighted(spec, config) THEN resolveExecutorProfile(spec, config) ELSE ""
  <1> DEFINE resolved == [status EXCEPT !.image = image]
  <1>1. /\ status \in StatusType /\ status.phase = "New" /\ config \in Configs
        /\ shown = NoPage /\ job = NoPod /\ status.by # "auto-approve" /\ status.reason = ""
        /\ UNCHANGED <<config, spec, shown, job, secret, worker, changes>>
    BY DEF IInv, TypeOK, Pages, ByRule, Jobs, HandleNew, Passed
  <1>w. ~worker'.busy /\ Reads'
    BY <1>1, NoWorkerYet
  <1>2. spec \in SudoRequestSpec
    BY DEF IInv, Pages
  <1>3. image \in STRING \cup {""} /\ (Preflighted(spec, config) => image # "")
    BY <1>1, <1>2, ImageResolved
  <1> HIDE DEF image
  <1>4. /\ resolved \in StatusType /\ resolved.image = image /\ resolved.reason = ""
        /\ resolved.by = status.by
    BY <1>1, <1>3 DEF StatusType
  <1>5. CASE status' \in {[resolved EXCEPT !.phase = "Denied", !.by = "syntax-check"],
                          [resolved EXCEPT !.phase = "Denied", !.by = "spec-validation"]}
    <2>1. /\ status' \in StatusType /\ status'.phase = "Denied" /\ status'.reason = ""
          /\ status'.by # "auto-approve"
      BY <1>4, <1>5 DEF StatusType
    <2>2. TypeOK'
      BY <1>1, <1>w, <2>1 DEF IInv, TypeOK
    <2>3. Pages' /\ ByRule' /\ Jobs'
      BY <1>1, <2>1 DEF IInv, Pages, ByRule, Jobs, Passed
    <2> QED BY <1>w, <2>2, <2>3 DEF IInv
  <1>6. CASE /\ Accepts(spec, config) /\ autoApproves(spec, resolved, config)
             /\ status' = [resolved EXCEPT !.phase = "Approved", !.by = "auto-approve"]
    <2>1. /\ status' \in StatusType /\ status'.phase = "Approved" /\ status'.reason = ""
          /\ status'.image = resolved.image /\ status'.image # ""
      BY <1>3, <1>4, <1>6 DEF StatusType, Accepts
    <2>2. approved' = Page(resolved)
      BY <2>1 DEF HandleNew, image
    <2>3. TypeOK'
      BY <1>1, <1>w, <2>1 DEF IInv, TypeOK
    <2>4. Built(approved)' /\ autoApproves(spec, status, approved.config)'
      <3>1. /\ buildExecutorJob(spec, resolved, config) = buildExecutorJob(spec, status', config)
            /\ autoApproves(spec, resolved, config) = autoApproves(spec, status', config)
        BY <2>1, SameImage
      <3>2. /\ approved'.config = config /\ approved'.secrets = ViewedSecrets(spec)
            /\ approved'.pod = buildExecutorJob(spec, resolved, config)
        BY <2>2 DEF Page
      <3> QED BY <1>1, <1>6, <3>1, <3>2 DEF Built
    <2>5. Pages' /\ ByRule' /\ Jobs'
      BY <1>1, <1>6, <2>1, <2>4 DEF IInv, Pages, ByRule, Jobs, Passed, Accepts
    <2> QED BY <1>w, <2>3, <2>5 DEF IInv
  <1>7. CASE Accepts(spec, config) /\ status' = [resolved EXCEPT !.phase = "Pending"]
    <2>1. /\ status' \in StatusType /\ status'.phase = "Pending" /\ status'.reason = ""
          /\ status'.image # "" /\ status'.by # "auto-approve"
      BY <1>1, <1>3, <1>4, <1>7 DEF StatusType, Accepts
    <2>2. TypeOK'
      BY <1>1, <1>w, <2>1 DEF IInv, TypeOK
    <2>3. Pages' /\ ByRule' /\ Jobs'
      BY <1>1, <1>7, <2>1 DEF IInv, Pages, ByRule, Jobs, Passed, Accepts
    <2> QED BY <1>w, <2>2, <2>3 DEF IInv
  <1>8. QED
    BY <1>5, <1>6, <1>7 DEF HandleNew, image

\* The page is built from the recorded image.
LEMMA ShowPagePreserves ==
  ASSUME IInv, ShowPage
  PROVE  IInv'
  <1>1. /\ status.phase = "Pending" /\ shown' = Page(status) /\ config \in Configs
        /\ UNCHANGED <<config, spec, status, approved, job, secret, worker, changes>>
    BY DEF ShowPage, IInv, TypeOK
  <1>2. Built(shown)'
    BY <1>1 DEF Built, Page
  <1>3. TypeOK' /\ ByRule' /\ Jobs'
    BY <1>1 DEF IInv, TypeOK, ByRule, Jobs
  <1>4. Pages'
    BY <1>1, <1>2 DEF IInv, Pages, Passed, Built
  <1> QED BY <1>1, <1>3, <1>4, NoWorkerYet DEF IInv

\* What the human approves is the page that was shown.
LEMMA ApprovePreserves ==
  ASSUME IInv, Approve
  PROVE  IInv'
  <1>1. /\ status \in StatusType /\ status.phase = "Pending" /\ shown # NoPage /\ approved' = shown
        /\ status' = [status EXCEPT !.phase = "Approved", !.by = "human"]
        /\ UNCHANGED <<config, spec, shown, job, secret, worker, changes>>
    BY DEF Approve, IInv, TypeOK
  <1>2. /\ status' \in StatusType /\ status'.phase = "Approved" /\ status'.by = "human"
        /\ status'.image = status.image /\ status'.reason = status.reason
    BY <1>1 DEF StatusType
  <1>w. ~worker'.busy /\ Reads'
    BY <1>1, NoWorkerYet
  <1>3. TypeOK'
    BY <1>1, <1>2, <1>w DEF IInv, TypeOK
  <1>4. Built(shown)' /\ Built(approved)'
    <2>1. buildExecutorJob(spec, status, shown.config) = buildExecutorJob(spec, status', shown.config)
      BY <1>2, SameImage
    <2> QED BY <1>1, <2>1 DEF IInv, Pages, Built
  <1>5. Pages' /\ ByRule'
    BY <1>1, <1>2, <1>4 DEF IInv, Pages, ByRule, Passed
  <1>6. Jobs'
    BY <1>1, <1>2 DEF IInv, TypeOK, Jobs
  <1> QED BY <1>3, <1>5, <1>6, <1>w DEF IInv

\* What becomes of an approved request: its Job is the pod built from the recorded
\* image, admitted by the apiserver, or it fails for good.
Decides(refused) ==
  /\ status.phase = "Approved"
  /\ status' = [status EXCEPT !.phase = IF refused = "" THEN "running" ELSE "Failed", !.reason = refused]
  /\ job' = IF refused = "" THEN buildExecutorJob(spec, status, config) ELSE NoPod
  /\ refused = "" => Admitted(buildExecutorJob(spec, status, config))
  /\ refused = "invalid" => ~Admitted(buildExecutorJob(spec, status, config))
  /\ worker' = Idle /\ UNCHANGED <<config, spec, shown, approved, secret, changes>>

\* Either way the invariant holds.
LEMMA DecisionPreserves ==
  ASSUME IInv, NEW refused \in {"", "disallowedSecret", "invalid"}, Decides(refused)
  PROVE  IInv'
  <1> DEFINE pod == buildExecutorJob(spec, status, config)
  <1>1. /\ status \in StatusType /\ status.phase = "Approved" /\ status.image # ""
        /\ UNCHANGED <<config, spec, shown, approved, secret, changes>> /\ worker' = Idle
    BY DEF Decides, IInv, TypeOK
  <1>2. /\ refused = "" => Admitted(pod)
        /\ refused = "invalid" => ~Admitted(pod)
        /\ job' = IF refused = "" THEN pod ELSE NoPod
        /\ status' = [status EXCEPT !.phase = IF refused = "" THEN "running" ELSE "Failed",
                                    !.reason = refused]
    BY DEF Decides
  <1>3. pod # NoPod
    BY <1>1, PodIsPod
  <1>4. /\ status' \in StatusType /\ status'.phase = (IF refused = "" THEN "running" ELSE "Failed")
        /\ status'.image = status.image /\ status'.by = status.by /\ status'.reason = refused
    BY <1>1, <1>2 DEF StatusType
  <1>5. pod = buildExecutorJob(spec, status, config)'
    BY <1>1, <1>4, SameImage
  <1> HIDE DEF pod
  <1>6. TypeOK'
    <2>1. job' # NoPod <=> status'.phase = "running"
      <3>1. CASE refused = ""
        BY <3>1, <1>2, <1>3, <1>4
      <3>2. CASE refused # ""
        <4>1. job' = NoPod
          BY <3>2, <1>2
        <4>2. status'.phase = "Failed"
          BY <3>2, <1>4
        <4> QED BY <4>1, <4>2
      <3> QED BY <3>1, <3>2
    <2>2. worker' \in [busy: BOOLEAN, left: SUBSET Secrets, swapped: SUBSET Secrets] /\ ~worker'.busy
      BY <1>1 DEF Idle
    <2> QED BY <1>1, <1>4, <2>1, <2>2 DEF IInv, TypeOK
  <1>7. /\ shown # NoPage => Built(shown)'
        /\ Built(approved)'
    <2>1. \A c : buildExecutorJob(spec, status, c) = buildExecutorJob(spec, status', c)
      BY <1>4, SameImage
    <2> QED BY <1>1, <2>1 DEF IInv, Pages, Built, Passed
  <1>8. Pages'
    BY <1>1, <1>4, <1>7 DEF IInv, Pages, Passed
  <1>9. ByRule'
    BY <1>1, <1>4, SameImage DEF IInv, ByRule, Passed
  <1>10. Jobs'
    BY <1>1, <1>2, <1>4, <1>5 DEF Jobs
  <1>11. Reads'
    BY <1>1 DEF Reads, Idle
  <1> QED BY <1>6, <1>8, <1>9, <1>10, <1>11 DEF IInv

\* A worker that has only read, or given up, leaves the request as it was.
LEMMA WorkerPreserves ==
  ASSUME IInv, status.phase = "Approved", Reads',
         worker' \in [busy: BOOLEAN, left: SUBSET Secrets, swapped: SUBSET Secrets],
         UNCHANGED <<config, spec, status, shown, approved, job, secret, changes>>
  PROVE  IInv'
  <1>1. TypeOK'
    BY DEF IInv, TypeOK
  <1>2. Pages' /\ ByRule' /\ Jobs'
    BY DEF IInv, Pages, ByRule, Jobs, Built
  <1> QED BY <1>1, <1>2 DEF IInv

\* What the worker has to read follows from the spec.
LEMMA SpecDecides ==
  ASSUME UNCHANGED spec
  PROVE  /\ clusterAdminEnabled(spec)' = clusterAdminEnabled(spec)
         /\ ReferencedSecrets(spec)' = ReferencedSecrets(spec)
  <1>1. clusterAdminEnabled(spec)' = clusterAdminEnabled(spec)
    BY DEF clusterAdminEnabled, executorNamespace
  <1>2. ReferencedSecrets(spec)' = ReferencedSecrets(spec)
    BY DEF ReferencedSecrets
  <1> QED BY <1>1, <1>2

\* The worker starts with every Secret to read, and may start over.
LEMMA FindJobPreserves ==
  ASSUME IInv, FindJob \/ CallFails
  PROVE  IInv'
  <1>1. status.phase = "Approved" /\ UNCHANGED <<config, spec, status, shown, approved, job, secret, changes>>
    BY DEF FindJob, CallFails, IInv, TypeOK
  <1>2. ReferencedSecrets(spec) \subseteq Secrets
    BY DEF ReferencedSecrets
  <1>3. CASE FindJob
    <2> DEFINE left == IF clusterAdminEnabled(spec) THEN {} ELSE ReferencedSecrets(spec)
    <2>1. worker' = [busy |-> TRUE, left |-> left, swapped |-> {}]
      BY <1>3 DEF FindJob, Idle
    <2>2. left \in SUBSET Secrets
      BY <1>2
    <2>3. ~clusterAdminEnabled(spec) => left = ReferencedSecrets(spec)
      OBVIOUS
    <2> HIDE DEF left
    <2>4. Reads'
      <3>1. worker'.left = left
        BY <2>1
      <3> QED BY <1>1, <2>3, <3>1, SpecDecides DEF Reads
    <2>5. worker' \in [busy: BOOLEAN, left: SUBSET Secrets, swapped: SUBSET Secrets]
      BY <2>1, <2>2
    <2> QED BY <1>1, <2>4, <2>5, WorkerPreserves
  <1>4. CASE CallFails
    <2>1. worker' = Idle /\ Reads'
      BY <1>4 DEF CallFails, Reads, Idle
    <2> QED BY <1>1, <2>1, WorkerPreserves DEF Idle
  <1> QED BY <1>3, <1>4

\* Each Get finds an ordinary Secret, or the request fails.
LEMMA CheckSecretPreserves ==
  ASSUME IInv, NEW n \in NamedSecrets, CheckSecret(n)
  PROVE  IInv'
  <1>1. status.phase = "Approved" /\ worker.busy
    BY DEF CheckSecret, IInv, TypeOK
  <1>2. CASE secret[n] = "opaque" /\ worker' = [worker EXCEPT !.left = @ \ {n}] /\ UNCHANGED status
    <2>1. UNCHANGED <<config, spec, status, shown, approved, job, secret, changes>>
      BY <1>2 DEF CheckSecret
    <2>2. worker \in [busy: BOOLEAN, left: SUBSET Secrets, swapped: SUBSET Secrets]
      BY DEF IInv, TypeOK
    <2>3. /\ worker' \in [busy: BOOLEAN, left: SUBSET Secrets, swapped: SUBSET Secrets]
          /\ worker'.left = worker.left \ {n} /\ worker'.swapped = worker.swapped
      BY <1>2, <2>2
    <2>4. clusterAdminEnabled(spec)' = clusterAdminEnabled(spec)
          /\ ReferencedSecrets(spec)' = ReferencedSecrets(spec)
      BY <2>1 DEF clusterAdminEnabled, executorNamespace, ReferencedSecrets
    <2>5. ASSUME ~clusterAdminEnabled(spec), NEW m \in ReferencedSecrets(spec) \ worker'.left
          PROVE  secret[m] = "opaque" \/ m \in worker.swapped
      <3>1. CASE m = n
        BY <1>2, <3>1
      <3>2. CASE m # n
        <4>1. m \in ReferencedSecrets(spec) \ worker.left
          BY <2>3, <2>5, <3>2
        <4> QED BY <1>1, <2>5, <4>1 DEF IInv, Reads
      <3> QED BY <3>1, <3>2
    <2>6. Reads'
      BY <2>1, <2>3, <2>4, <2>5 DEF Reads
    <2> QED BY <1>1, <2>1, <2>3, <2>6, WorkerPreserves
  <1>3. CASE Refuse("disallowedSecret")
    <2>1. job' = NoPod /\ UNCHANGED <<config, spec, shown, approved, secret, changes>>
      BY <1>1 DEF CheckSecret, IInv, TypeOK
    <2>2. Decides("disallowedSecret")
      BY <1>1, <1>3, <2>1 DEF Refuse, Decides
    <2> QED BY <2>2, DecisionPreserves
  <1> QED BY <1>2, <1>3 DEF CheckSecret

\* The Job is created, or refused by the apiserver.
LEMMA CreateJobPreserves ==
  ASSUME IInv, CreateJob
  PROVE  IInv'
  <1> DEFINE pod == buildExecutorJob(spec, status, config)
  <1>1. /\ status.phase = "Approved" /\ status \in StatusType /\ job = NoPod /\ status.reason = ""
        /\ UNCHANGED <<config, spec, shown, approved, secret, changes>>
    BY DEF CreateJob, IInv, TypeOK, Jobs
  <1>2. CASE Admitted(pod) /\ job' = pod /\ worker' = Idle /\ status' = [status EXCEPT !.phase = "running"]
    <2>1. status' = [status EXCEPT !.phase = "running", !.reason = ""]
      BY <1>1, <1>2 DEF StatusType
    <2>2. Decides("")
      BY <1>1, <1>2, <2>1 DEF Decides
    <2> QED BY <2>2, DecisionPreserves
  <1>3. CASE ~Admitted(pod) /\ Refuse("invalid") /\ UNCHANGED job
    <2>1. Decides("invalid")
      BY <1>1, <1>3 DEF Decides, Refuse
    <2> QED BY <2>1, DecisionPreserves
  <1> QED BY <1>2, <1>3 DEF CreateJob

\* A restart leaves the request alone, and its worker is gone.
LEMMA RestartPreserves ==
  ASSUME IInv, NEW c \in Configs, Restart(c)
  PROVE  IInv'
  <1>1. /\ config' = c /\ worker' = Idle /\ changes.restarts < MaxRestarts
        /\ changes' = [changes EXCEPT !.restarts = @ + 1]
        /\ status.phase \in {"New", "Pending", "Approved"}
        /\ UNCHANGED <<spec, status, shown, approved, job, secret>>
    BY DEF Restart
  <1>2. changes \in [restarts: 0..MaxRestarts, swaps: 0..MaxSwaps]
    BY DEF IInv, TypeOK
  <1>3. changes.restarts + 1 \in 0..MaxRestarts
    BY <1>1, <1>2, BoundsAssumption
  <1>4. changes' \in [restarts: 0..MaxRestarts, swaps: 0..MaxSwaps]
    BY <1>1, <1>2, <1>3
  <1>5. TypeOK'
    BY <1>1, <1>4 DEF IInv, TypeOK, Idle
  <1>6. Pages' /\ ByRule' /\ Jobs'
    BY <1>1 DEF IInv, TypeOK, Pages, ByRule, Jobs, Built
  <1>7. Reads'
    BY <1>1 DEF Reads, Idle
  <1> QED BY <1>5, <1>6, <1>7 DEF IInv

\* A change of a Secret leaves the request alone; the worker may have read the Secret
\* before.
LEMMA SecretChangesPreserves ==
  ASSUME IInv, NEW n \in NamedSecrets, SecretChanges(n)
  PROVE  IInv'
  <1> DEFINE swapped == worker.swapped \cup ({n} \ worker.left)
  <1>1. PICK t \in {"opaque", "token", "missing"} : secret' = [secret EXCEPT ![n] = t]
    BY DEF SecretChanges
  <1>2. /\ changes.swaps < MaxSwaps /\ changes' = [changes EXCEPT !.swaps = @ + 1]
        /\ status.phase = "Approved" /\ UNCHANGED <<config, spec, status, shown, approved, job>>
        /\ worker' = IF worker.busy THEN [worker EXCEPT !.swapped = swapped] ELSE worker
    BY DEF SecretChanges
  <1>3. /\ changes \in [restarts: 0..MaxRestarts, swaps: 0..MaxSwaps]
        /\ secret \in [Secrets -> {"opaque", "token", "missing"}]
        /\ worker \in [busy: BOOLEAN, left: SUBSET Secrets, swapped: SUBSET Secrets]
    BY DEF IInv, TypeOK
  <1>4. n \in Secrets
    BY DEF NamedSecrets
  <1>5. changes.swaps + 1 \in 0..MaxSwaps
    BY <1>2, <1>3, BoundsAssumption
  <1>6. changes' \in [restarts: 0..MaxRestarts, swaps: 0..MaxSwaps]
    BY <1>2, <1>3, <1>5
  <1>7. swapped \in SUBSET Secrets
    BY <1>3, <1>4
  <1>8. /\ secret' \in [Secrets -> {"opaque", "token", "missing"}]
        /\ \A m \in Secrets : m # n => secret'[m] = secret[m]
    BY <1>1, <1>3
  <1>9. /\ worker' \in [busy: BOOLEAN, left: SUBSET Secrets, swapped: SUBSET Secrets]
        /\ worker'.busy = worker.busy /\ worker'.left = worker.left
        /\ worker.busy => worker'.swapped = swapped
    <2> HIDE DEF swapped
    <2> QED BY <1>2, <1>3, <1>7
  <1>10. TypeOK'
    BY <1>2, <1>6, <1>8, <1>9 DEF IInv, TypeOK
  <1>11. Pages' /\ ByRule' /\ Jobs'
    BY <1>2 DEF IInv, Pages, ByRule, Jobs, Built
  <1>12. Reads'
    <2>1. clusterAdminEnabled(spec)' = clusterAdminEnabled(spec)
          /\ ReferencedSecrets(spec)' = ReferencedSecrets(spec)
      BY <1>2, SpecDecides
    <2>2. ASSUME worker.busy, ~clusterAdminEnabled(spec),
                 NEW m \in ReferencedSecrets(spec) \ worker.left
          PROVE  secret'[m] = "opaque" \/ m \in swapped
      <3>1. m \in Secrets
        BY DEF ReferencedSecrets
      <3>2. secret[m] = "opaque" \/ m \in worker.swapped
        BY <2>2 DEF IInv, Reads
      <3>3. m = n => m \in swapped
        BY <2>2
      <3> QED BY <1>8, <3>1, <3>2, <3>3
    <2> HIDE DEF swapped
    <2> QED BY <1>9, <2>1, <2>2 DEF Reads
  <1> QED BY <1>10, <1>11, <1>12 DEF IInv

\* Every step preserves the invariant.
LEMMA NextIInv == IInv /\ [Next]_vars => IInv'
  <1> SUFFICES ASSUME IInv, [Next]_vars PROVE IInv' OBVIOUS
  <1>1. CASE UNCHANGED vars
    <2>1. TypeOK'
      BY <1>1 DEF vars, IInv, TypeOK
    <2>2. Pages' /\ ByRule'
      BY <1>1 DEF vars, IInv, Pages, ByRule, Built
    <2>3. Jobs'
      BY <1>1 DEF vars, IInv, Jobs
    <2>4. Reads'
      <3>1. UNCHANGED <<spec, secret, worker>>
        BY <1>1 DEF vars
      <3> QED BY <3>1, SpecDecides DEF IInv, Reads
    <2> QED BY <2>1, <2>2, <2>3, <2>4 DEF IInv
  <1> QED
    BY <1>1, SubmitPreserves, HandleNewPreserves, ShowPagePreserves, ApprovePreserves, FindJobPreserves,
       CheckSecretPreserves, CreateJobPreserves, RestartPreserves, SecretChangesPreserves DEF Next

\* In every behaviour of the model.
LEMMA PodInvariant == Spec => []IInv
  <1> QED BY InitIInv, NextIInv, PTL DEF Spec

-----------------------------------------------------------------------------
(* What the controller splices into a pod.                                 *)

TmpMount == Mount("sudo-service-tmp", Tmp)
HomeMount == Mount("sudo-service-home", Home)
StdinMount == Mount("sudo-service-stdin", StdinDir)

\* A container before its scratch is stamped: the requester's mounts, and stdin.
Mountable == MountType \cup {StdinMount}
Container ==
  [env: SUBSET EnvVarType, from: SUBSET STRING, mounts: Seq(Mountable)]
  \cup [name: STRING, shape: STRING,
        env: SUBSET EnvVarType, from: SUBSET STRING, mounts: Seq(Mountable)]

\* t is s with at most x and y appended, where a and b say so.
Splices(S, s, x, y, a, b, t) ==
  /\ t \in Seq(S \cup {x, y}) /\ Len(s) =< Len(t) /\ \A i \in 1..Len(s) : t[i] = s[i]
  /\ \A i \in (Len(s) + 1)..Len(t) : (a = <<x>> /\ t[i] = x) \/ (b = <<y>> /\ t[i] = y)
  /\ a = <<x>> => \E i \in 1..Len(t) : t[i] = x
  /\ b = <<y>> => \E i \in 1..Len(t) : t[i] = y
  /\ \A i, j \in (Len(s) + 1)..Len(t) : t[i] = t[j] => i = j

\* At most two elements are appended to a sequence; the rest is as it was.
LEMMA Spliced ==
  ASSUME NEW S, NEW s \in Seq(S), NEW x, NEW y, NEW a \in {<< >>, <<x>>}, NEW b \in {<< >>, <<y>>},
         x # y
  PROVE  Splices(S, s, x, y, a, b, s \o a \o b)
  <1> DEFINE t == s \o a \o b
  <1> SUFFICES Splices(S, s, x, y, a, b, t) OBVIOUS
  <1> USE DEF Splices
  <1>0. Len(s) \in Nat
    OBVIOUS
  <1>1. CASE a = << >> /\ b = << >>
    <2>1. t = s
      BY <1>1
    <2> QED BY <1>0, <1>1, <2>1
  <1>2. CASE a = <<x>> /\ b = << >>
    <2>1. t = Append(s, x)
      BY <1>2
    <2>2. /\ Len(t) = Len(s) + 1 /\ t[Len(s) + 1] = x /\ \A i \in 1..Len(s) : t[i] = s[i]
          /\ t \in Seq(S \cup {x, y})
      BY <2>1
    <2> QED BY <1>0, <1>2, <2>2
  <1>3. CASE a = << >> /\ b = <<y>>
    <2>1. t = Append(s, y)
      BY <1>3
    <2>2. /\ Len(t) = Len(s) + 1 /\ t[Len(s) + 1] = y /\ \A i \in 1..Len(s) : t[i] = s[i]
          /\ t \in Seq(S \cup {x, y})
      BY <2>1
    <2> QED BY <1>0, <1>3, <2>2
  <1>4. CASE a = <<x>> /\ b = <<y>>
    <2> DEFINE u == s \o <<x>>
    <2>1. /\ u \in Seq(S \cup {x, y}) /\ Len(u) = Len(s) + 1 /\ u[Len(s) + 1] = x
          /\ \A i \in 1..Len(s) : u[i] = s[i]
      <3>1. u = Append(s, x)
        OBVIOUS
      <3> QED BY <3>1
    <2>2. t = u \o <<y>>
      BY <1>4
    <2> HIDE DEF u
    <2>3. t = Append(u, y)
      BY <2>1, <2>2
    <2>4. /\ t \in Seq(S \cup {x, y}) /\ Len(t) = Len(u) + 1 /\ t[Len(u) + 1] = y
          /\ \A i \in 1..Len(u) : t[i] = u[i]
      BY <2>1, <2>3
    <2>5. /\ Len(t) = Len(s) + 2 /\ t[Len(s) + 1] = x /\ t[Len(s) + 2] = y
          /\ \A i \in 1..Len(s) : t[i] = s[i]
      BY <1>0, <2>1, <2>4
    <2>6. \A i \in (Len(s) + 1)..Len(t) : i = Len(s) + 1 \/ i = Len(s) + 2
      BY <1>0, <2>5
    <2>7. \A i \in (Len(s) + 1)..Len(t) : t[i] = x \/ t[i] = y
      BY <2>5, <2>6
    <2>8. \A i, j \in (Len(s) + 1)..Len(t) : t[i] = t[j] => i = j
      BY <2>5, <2>6
    <2>9. Len(s) + 1 \in 1..Len(t) /\ Len(s) + 2 \in 1..Len(t)
      BY <1>0, <2>5
    <2>10. Len(s) =< Len(t)
      BY <1>0, <2>5
    <2>11. (\E i \in 1..Len(t) : t[i] = x) /\ (\E i \in 1..Len(t) : t[i] = y)
      BY <2>5, <2>9
    <2>12. \A i \in (Len(s) + 1)..Len(t) : (a = <<x>> /\ t[i] = x) \/ (b = <<y>> /\ t[i] = y)
      BY <1>4, <2>7
    <2> QED BY <2>4, <2>5, <2>8, <2>10, <2>11, <2>12
  <1> QED BY <1>1, <1>2, <1>3, <1>4

\* A path lies under itself, and the controller's own lie apart.
LEMMA PathsApart ==
  /\ IsPrefix(Tmp, Tmp) /\ IsPrefix(Home, Home)
  /\ Tmp # Home /\ Tmp # StdinDir /\ Home # StdinDir
  /\ ~IsPrefix(Tmp, StdinDir) /\ ~IsPrefix(Home, StdinDir)
  <1>1. Len(Tmp) = 2 /\ Len(Home) = 3 /\ Len(StdinDir) = 4
    BY DEF Tmp, Home, StdinDir
  <1>2. /\ Tmp[2] = "tmp" /\ Home[2] = "home" /\ StdinDir[2] = "var"
    BY DEF Tmp, Home, StdinDir
  <1>3. SubSeq(Tmp, 1, 2)[2] = "tmp" /\ SubSeq(Home, 1, 3)[2] = "home"
        /\ SubSeq(StdinDir, 1, 2)[2] = "var" /\ SubSeq(StdinDir, 1, 3)[2] = "var"
    BY DEF Tmp, Home, StdinDir
  <1> QED BY <1>1, <1>2, <1>3 DEF IsPrefix

\* stampScratch: the mounts it appends, and what it does to the environment.
LEMMA Stamp ==
  ASSUME NEW c \in Container, NEW r, r = stampScratch(c)
  PROVE  LET d == r.c
         IN  /\ d.mounts \in Seq(Mountable \cup {TmpMount, HomeMount})
             /\ Len(c.mounts) =< Len(d.mounts) /\ \A i \in 1..Len(c.mounts) : d.mounts[i] = c.mounts[i]
             /\ \A i \in (Len(c.mounts) + 1)..Len(d.mounts) :
                  (r.usedTmp /\ d.mounts[i] = TmpMount) \/ (r.usedHome /\ d.mounts[i] = HomeMount)
             /\ \A i, j \in (Len(c.mounts) + 1)..Len(d.mounts) : d.mounts[i] = d.mounts[j] => i = j
             /\ r.usedTmp => ~mountsAtOrUnder(c.mounts, Tmp)
             /\ r.usedHome => ~mountsAtOrUnder(c.mounts, Home)
             /\ d.from = c.from
             /\ d.env # c.env => /\ d.env = c.env \cup {HomeVar} /\ ~hasEnv(c.env, "HOME")
                                /\ c.from = {} /\ hasMountAt(d.mounts, Home)
  <1> DEFINE usedTmp == ~mountsAtOrUnder(c.mounts, Tmp)
  <1> DEFINE handsOff == hasEnv(c.env, "HOME") \/ c.from # {}
  <1> DEFINE usedHome == ~handsOff /\ ~mountsAtOrUnder(c.mounts, Home)
  <1> DEFINE a == If(usedTmp, <<TmpMount>>)
  <1> DEFINE b == If(usedHome, <<HomeMount>>)
  <1> DEFINE env == c.env \cup IF usedHome \/ (~handsOff /\ hasMountAt(c.mounts, Home))
                              THEN {HomeVar} ELSE {}
  <1> DEFINE mounts == c.mounts \o a \o b
  <1>1. r = [c |-> [c EXCEPT !.mounts = mounts, !.env = env], usedTmp |-> usedTmp, usedHome |-> usedHome]
    BY DEF stampScratch, TmpMount, HomeMount
  <1>2. a \in {<< >>, <<TmpMount>>} /\ (a = <<TmpMount>> <=> usedTmp)
    BY DEF If
  <1>3. b \in {<< >>, <<HomeMount>>} /\ (b = <<HomeMount>> <=> usedHome)
    BY DEF If
  <1>4. TmpMount # HomeMount /\ HomeMount.path = Home
    BY DEF TmpMount, HomeMount, Mount
  <1>5. c.mounts \in Seq(Mountable)
    BY DEF Container
  <1>m. mounts = c.mounts \o a \o b
    OBVIOUS
  <1> HIDE DEF a, b, usedTmp, usedHome, env, mounts
  <1>s. Splices(Mountable, c.mounts, TmpMount, HomeMount, a, b, mounts)
    BY <1>2, <1>3, <1>4, <1>5, <1>m, Spliced
  <1>6. /\ mounts \in Seq(Mountable \cup {TmpMount, HomeMount})
        /\ Len(c.mounts) =< Len(mounts) /\ \A i \in 1..Len(c.mounts) : mounts[i] = c.mounts[i]
        /\ \A i \in (Len(c.mounts) + 1)..Len(mounts) :
             (a = <<TmpMount>> /\ mounts[i] = TmpMount) \/ (b = <<HomeMount>> /\ mounts[i] = HomeMount)
        /\ b = <<HomeMount>> => \E i \in 1..Len(mounts) : mounts[i] = HomeMount
        /\ \A i, j \in (Len(c.mounts) + 1)..Len(mounts) : mounts[i] = mounts[j] => i = j
    BY <1>s DEF Splices
  <1>7. r.c.mounts = mounts /\ r.c.env = env /\ r.c.from = c.from
    <2>1. r.c = [c EXCEPT !.mounts = mounts, !.env = env]
      BY <1>1
    <2> QED BY <2>1 DEF Container
  <1>8. (r.usedTmp <=> usedTmp) /\ (r.usedHome <=> usedHome)
    BY <1>1
  <1>9. usedHome \/ (~handsOff /\ hasMountAt(c.mounts, Home)) => hasMountAt(mounts, Home)
    <2>1. CASE usedHome
      BY <2>1, <1>3, <1>4, <1>6 DEF hasMountAt
    <2>2. CASE hasMountAt(c.mounts, Home)
      BY <2>2, <1>5, <1>6 DEF hasMountAt
    <2> QED BY <2>1, <2>2
  <1>10. env # c.env => /\ env = c.env \cup {HomeVar} /\ ~handsOff /\ hasMountAt(mounts, Home)
    BY <1>9 DEF env, usedHome
  <1>11. (usedTmp => ~mountsAtOrUnder(c.mounts, Tmp)) /\ (usedHome => ~mountsAtOrUnder(c.mounts, Home))
    BY DEF usedTmp, usedHome
  <1>12. /\ r.c.env # c.env => /\ r.c.env = c.env \cup {HomeVar} /\ ~hasEnv(c.env, "HOME")
                               /\ c.from = {} /\ hasMountAt(r.c.mounts, Home)
         /\ r.usedTmp => ~mountsAtOrUnder(c.mounts, Tmp)
         /\ r.usedHome => ~mountsAtOrUnder(c.mounts, Home)
    BY <1>7, <1>8, <1>10, <1>11
  <1> HIDE DEF handsOff
  <1>13. \A i \in (Len(c.mounts) + 1)..Len(mounts) :
             (r.usedTmp /\ mounts[i] = TmpMount) \/ (r.usedHome /\ mounts[i] = HomeMount)
    BY <1>2, <1>3, <1>6, <1>8
  <1> QED BY <1>6, <1>7, <1>12, <1>13

\* The executor container with stdin mounted.
WithStdin(s) == [s.executor EXCEPT !.mounts = @ \o If(s.stdin # "none", <<StdinMount>>)]

\* The volumes of the spec, and the one of stdin, by name.
VolNames(s) == {s.volumes[i].name : i \in DOMAIN s.volumes}
                 \cup (IF s.stdin = "none" THEN {} ELSE {"sudo-service-stdin"})

\* Mounts of known volumes other than the scratch ones, each at a path of its own.
Clean(c, names) ==
  /\ c \in Container
  /\ \A i \in DOMAIN c.mounts : /\ c.mounts[i].name \in names
                                /\ c.mounts[i].name \notin {"sudo-service-tmp", "sudo-service-home"}
  /\ \A i, j \in DOMAIN c.mounts : c.mounts[i].path = c.mounts[j].path => i = j

\* Mounting stdin changes nothing else.
LEMMA WithStdinMounts ==
  ASSUME NEW s \in SudoRequestSpec
  PROVE  LET e == s.executor  w == WithStdin(s)
         IN  /\ w \in Container /\ w.env = e.env /\ w.from = e.from
             /\ DOMAIN w.mounts = 1..Len(w.mounts) /\ DOMAIN e.mounts = 1..Len(e.mounts)
             /\ Len(e.mounts) \in Nat /\ Len(w.mounts) \in Nat
             /\ \A i \in DOMAIN e.mounts : i \in DOMAIN w.mounts /\ w.mounts[i] = e.mounts[i]
             /\ \A i \in DOMAIN w.mounts \ DOMAIN e.mounts :
                  s.stdin # "none" /\ i = Len(e.mounts) + 1 /\ w.mounts[i] = StdinMount
  <1> DEFINE e == s.executor
  <1> DEFINE m == e.mounts \o If(s.stdin # "none", <<StdinMount>>)
  <1>1. e \in ExecutorType
    BY DEF SudoRequestSpec
  <1>2. e.mounts \in Seq(MountType)
    BY <1>1 DEF ExecutorType
  <1>3. WithStdin(s) = [e EXCEPT !.mounts = m]
    BY DEF WithStdin
  <1>4. CASE s.stdin = "none"
    <2>1. m = e.mounts
      BY <1>2, <1>4 DEF If
    <2>2. WithStdin(s) = e
      <3>1. [e EXCEPT !.mounts = e.mounts] = e
        <4> HIDE DEF e
        <4> QED BY <1>1 DEF ExecutorType
      <3> QED BY <1>3, <2>1, <3>1
    <2>3. e \in Container
      BY <1>1 DEF ExecutorType, Container, Mountable
    <2> QED BY <1>2, <2>2, <2>3
  <1>5. CASE s.stdin # "none"
    <2>1. m = Append(e.mounts, StdinMount)
      BY <1>2, <1>5 DEF If
    <2>2. /\ m \in Seq(Mountable) /\ Len(m) = Len(e.mounts) + 1 /\ m[Len(e.mounts) + 1] = StdinMount
          /\ \A i \in 1..Len(e.mounts) : m[i] = e.mounts[i]
      <3>1. e.mounts \in Seq(Mountable) /\ StdinMount \in Mountable
        BY <1>2 DEF Mountable
      <3> HIDE DEF m, e
      <3> QED BY <2>1, <3>1
    <2> HIDE DEF m
    <2>3. WithStdin(s) \in Container /\ WithStdin(s).mounts = m
          /\ WithStdin(s).env = e.env /\ WithStdin(s).from = e.from
      <3>1. WithStdin(s) = [env |-> e.env, from |-> e.from, mounts |-> m]
        BY <1>1, <1>3 DEF ExecutorType
      <3>2. e.env \in SUBSET EnvVarType /\ e.from \in SUBSET STRING
        BY <1>1 DEF ExecutorType
      <3> HIDE DEF e
      <3> QED BY <2>2, <3>1, <3>2 DEF Container
    <2>4. Len(e.mounts) \in Nat /\ DOMAIN e.mounts = 1..Len(e.mounts) /\ DOMAIN m = 1..Len(m)
      BY <1>2, <2>2
    <2> QED BY <1>5, <2>2, <2>3, <2>4
  <1> QED BY <1>4, <1>5

\* A validated spec is clean in every container.
LEMMA ValidatedIsClean ==
  ASSUME NEW s \in SudoRequestSpec, validateSpecExtras(s)
  PROVE  /\ Clean(WithStdin(s), VolNames(s))
         /\ \A i \in DOMAIN s.inits : Clean(s.inits[i], VolNames(s))
  <1> DEFINE e == s.executor
  <1> DEFINE w == WithStdin(s)
  <1>1. /\ \A i \in DOMAIN e.mounts : e.mounts[i].name \notin reservedVolumeNames /\ e.mounts[i].path # StdinDir
        /\ validateMounts(e.mounts, VolNames(s), s.stdin # "none")
    BY DEF validateSpecExtras, VolNames
  <1>2. Clean(w, VolNames(s))
    <2>1. StdinMount.name = "sudo-service-stdin" /\ StdinMount.path = StdinDir
      BY DEF StdinMount, Mount
    <2>2. s.stdin # "none" => "sudo-service-stdin" \in VolNames(s)
      BY DEF VolNames
    <2>3. \A i \in DOMAIN e.mounts : e.mounts[i].name \in VolNames(s)
      BY <1>1 DEF validateMounts
    <2>4. \A i, j \in DOMAIN e.mounts : e.mounts[i].path = e.mounts[j].path => i = j
      BY <1>1 DEF validateMounts
    <2> HIDE DEF e, w
    <2>5. ASSUME NEW i \in DOMAIN w.mounts
          PROVE  /\ w.mounts[i].name \in VolNames(s)
                 /\ w.mounts[i].name \notin {"sudo-service-tmp", "sudo-service-home"}
      <3>1. CASE i \in DOMAIN e.mounts
        BY <3>1, <1>1, <2>3, WithStdinMounts DEF reservedVolumeNames, e, w
      <3>2. CASE i \notin DOMAIN e.mounts
        BY <3>2, <2>1, <2>2, WithStdinMounts DEF e, w
      <3> QED BY <3>1, <3>2
    <2>6. ASSUME NEW i \in DOMAIN w.mounts, NEW j \in DOMAIN w.mounts, w.mounts[i].path = w.mounts[j].path
          PROVE  i = j
      <3>1. CASE i \in DOMAIN e.mounts /\ j \in DOMAIN e.mounts
        BY <3>1, <2>4, <2>6, WithStdinMounts DEF e, w
      <3>2. CASE i \notin DOMAIN e.mounts /\ j \notin DOMAIN e.mounts
        BY <3>2, WithStdinMounts DEF e, w
      <3>3. CASE i \in DOMAIN e.mounts /\ j \notin DOMAIN e.mounts
        BY <3>3, <1>1, <2>1, <2>6, WithStdinMounts DEF e, w
      <3>4. CASE i \notin DOMAIN e.mounts /\ j \in DOMAIN e.mounts
        BY <3>4, <1>1, <2>1, <2>6, WithStdinMounts DEF e, w
      <3> QED BY <3>1, <3>2, <3>3, <3>4
    <2>7. w \in Container
      BY WithStdinMounts DEF w
    <2> QED BY <2>5, <2>6, <2>7 DEF Clean
  <1>3. ASSUME NEW i \in DOMAIN s.inits
        PROVE  Clean(s.inits[i], VolNames(s))
    <2>1. s.inits[i] \in InitType
      BY DEF SudoRequestSpec
    <2>2. s.inits[i] \in Container
      BY <2>1 DEF InitType, Container, Mountable
    <2>3. /\ \A j \in DOMAIN s.inits[i].mounts : s.inits[i].mounts[j].name \notin reservedVolumeNames
          /\ validateMounts(s.inits[i].mounts, VolNames(s), FALSE)
      BY DEF validateSpecExtras, VolNames
    <2> QED BY <2>2, <2>3 DEF Clean, validateMounts, reservedVolumeNames
  <1> QED BY <1>2, <1>3

\* As many values as positions, when no two are the same.
LEMMA CountApart ==
  ASSUME NEW n \in Nat, NEW T, NEW f \in [1..n -> T],
         \A i, j \in 1..n : f[i] = f[j] => i = j, \A t \in T : \E i \in 1..n : f[i] = t
  PROVE  Cardinality(T) = n
  <1>1. f \in Bijection(1..n, T)
    BY DEF Bijection, Injection, Surjection, IsInjective
  <1>2. ExistsBijection(1..n, T)
    BY <1>1 DEF ExistsBijection
  <1>3. IsFiniteSet(1..n) /\ Cardinality(1..n) = n
    BY FS_Interval
  <1> QED BY <1>2, <1>3, FS_Bijection

\* The steps of a canonical path are all its components but the first, which is empty.
LEMMA CanonicalSteps ==
  ASSUME NEW p \in Seq(STRING), Canonical(p), NEW i \in Steps(p)
  PROVE  i \in 2..Len(p) /\ Cardinality({j \in Steps(p) : j =< i}) = i - 1
  <1>1. DOMAIN p = 1..Len(p) /\ Len(p) \in Nat
    OBVIOUS
  <1>2. p[1] = "" /\ \A j \in 2..Len(p) : p[j] \notin {"", "."}
    BY DEF Canonical
  <1>3. Steps(p) = 2..Len(p)
    <2>0. \A j \in DOMAIN p : j = 1 \/ j \in 2..Len(p)
      BY <1>1
    <2>1. \A j \in DOMAIN p : p[j] \notin {"", "."} <=> j \in 2..Len(p)
      <3> SUFFICES ASSUME NEW j \in DOMAIN p PROVE p[j] \notin {"", "."} <=> j \in 2..Len(p)
        OBVIOUS
      <3>1. CASE j \in 2..Len(p)
        BY <1>2, <3>1
      <3>2. CASE j = 1
        <4>1. 1 \notin 2..Len(p)
          BY <1>1
        <4> QED BY <1>2, <3>2, <4>1
      <3> QED BY <2>0, <3>1, <3>2
    <2>2. 2..Len(p) \subseteq DOMAIN p
      BY <1>1
    <2> QED BY <2>1, <2>2 DEF Steps
  <1>4. i \in 2..Len(p) /\ {j \in Steps(p) : j =< i} = 2..i
    BY <1>1, <1>3
  <1>5. i \in Int /\ ~(2 > i) /\ (i - 2) + 1 = i - 1
    BY <1>1, <1>4
  <1>6. Cardinality(2..i) = i - 2 + 1
    BY <1>5, FS_Interval
  <1> QED BY <1>4, <1>5, <1>6

\* The range of the steps of a directory is not empty.
LEMMA LastStep ==
  ASSUME NEW n \in Nat, n >= 2
  PROVE  n \in 2..n /\ 1 \in 1..n /\ \A k \in 1..n : k = 1 \/ k \in 2..n
OBVIOUS

\* The components of the controller's directories.
DirSteps == {"", "tmp", "home", "sudo-service"}

\* A canonical path under a directory of the controller.
CleanlyUnder(p, dir) ==
  /\ p \in Seq(STRING) /\ Canonical(p)
  /\ dir \in Seq(DirSteps) /\ Len(dir) >= 2 /\ dir[1] = "" /\ Under(p, dir)

\* The first elements of a sequence.
LEMMA FirstElements ==
  ASSUME NEW T, NEW s \in Seq(T), NEW l \in Nat, l =< Len(s)
  PROVE  SubSeq(s, 1, l) = [k \in 1..l |-> s[k]]
OBVIOUS

\* What lies under a directory and is written canonically has it as a prefix.
LEMMA CanonicalUnder ==
  ASSUME NEW p, NEW dir, CleanlyUnder(p, dir)
  PROVE  IsPrefix(dir, p)
  <1> DEFINE n == Len(dir)
  <1> DEFINE m == Len(p)
  <1>1. n \in Nat /\ m \in Nat
    <2>1. p \in Seq(STRING) /\ dir \in Seq(DirSteps)
      BY DEF CleanlyUnder
    <2>2. ASSUME NEW T, NEW s \in Seq(T)
          PROVE  Len(s) \in Nat
      OBVIOUS
    <2> QED BY <2>1, <2>2
  <1>2. n >= 2 /\ p[1] = "" /\ dir[1] = ""
    BY DEF CleanlyUnder, Canonical
  <1>3. \A k \in 2..n : \E i \in Steps(p) :
          p[i] = dir[k] /\ Cardinality({j \in Steps(p) : j =< i}) = k - 1
    BY DEF CleanlyUnder, Under
  <1>4. \A i \in Steps(p) : i \in 2..m /\ Cardinality({j \in Steps(p) : j =< i}) = i - 1
    <2>1. p \in Seq(STRING) /\ Canonical(p)
      BY DEF CleanlyUnder
    <2>2. ASSUME NEW i \in Steps(p)
          PROVE  i \in 2..m /\ Cardinality({j \in Steps(p) : j =< i}) = i - 1
      BY <2>1, <2>2, CanonicalSteps
    <2> QED BY <2>2
  <1>5. /\ n =< m => SubSeq(p, 1, n) = [k \in 1..n |-> p[k]]
        /\ SubSeq(dir, 1, n) = [k \in 1..n |-> dir[k]]
    <2>1. p \in Seq(STRING) /\ dir \in Seq(DirSteps)
      BY DEF CleanlyUnder
    <2> QED BY <1>1, <2>1, FirstElements
  <1> HIDE DEF n, m
  <1>6. ASSUME NEW k \in 2..n
        PROVE  k \in 2..m /\ p[k] = dir[k]
    <2>1. PICK i \in 2..m : p[i] = dir[k] /\ i - 1 = k - 1
      BY <1>3, <1>4
    <2>2. i = k
      BY <1>1, <2>1
    <2> QED BY <2>1, <2>2
  <1>7. n =< m
    <2>1. n \in 2..m
      BY <1>1, <1>2, <1>6, LastStep
    <2> QED BY <1>1, <2>1
  <1>8. \A k \in 1..n : p[k] = dir[k]
    BY <1>1, <1>2, <1>6, LastStep
  <1>9. SubSeq(p, 1, n) = SubSeq(dir, 1, n)
    BY <1>5, <1>7, <1>8
  <1> QED BY <1>7, <1>9 DEF IsPrefix, n, m

\* The controller's directories have two or three components, the first one empty.
LEMMA Directories ==
  /\ Tmp \in Seq(DirSteps) /\ Len(Tmp) >= 2 /\ Tmp[1] = ""
  /\ Home \in Seq(DirSteps) /\ Len(Home) >= 2 /\ Home[1] = ""
BY DEF Tmp, Home, DirSteps

\* stampScratch mounts nothing at a path that a requester's mount has as a prefix.
LEMMA StampAside ==
  ASSUME NEW names, NEW c, Clean(c, names), NEW d, d = stampScratch(c).c
  PROVE  \A i \in ScratchMounts(d), j \in RequesterMounts(d) :
           /\ ~IsPrefix(d.mounts[i].path, d.mounts[j].path)
           /\ d.mounts[i].path \in {Tmp, Home} /\ d.mounts[j].path \in Seq(STRING)
  <1> DEFINE r == stampScratch(c)
  <1> DEFINE n == Len(c.mounts)
  <1>0. c \in Container /\ c.mounts \in Seq(Mountable) /\ d = r.c
    BY DEF Clean, Container
  <1>1. n \in Nat /\ DOMAIN c.mounts = 1..n
    BY <1>0
  <1> HIDE DEF r
  <1>2. /\ d.mounts \in Seq(Mountable \cup {TmpMount, HomeMount})
        /\ n =< Len(d.mounts) /\ \A i \in 1..n : d.mounts[i] = c.mounts[i]
        /\ \A i \in (n + 1)..Len(d.mounts) :
             (r.usedTmp /\ d.mounts[i] = TmpMount) \/ (r.usedHome /\ d.mounts[i] = HomeMount)
        /\ r.usedTmp => ~mountsAtOrUnder(c.mounts, Tmp)
        /\ r.usedHome => ~mountsAtOrUnder(c.mounts, Home)
    BY <1>0, Stamp DEF r
  <1>3. /\ TmpMount.name = "sudo-service-tmp" /\ TmpMount.path = Tmp
        /\ HomeMount.name = "sudo-service-home" /\ HomeMount.path = Home
    BY DEF TmpMount, HomeMount, Mount
  <1>4. DOMAIN d.mounts = 1..Len(d.mounts) /\ Len(d.mounts) \in Nat
    BY <1>2
  <1> HIDE DEF n
  <1>5. ASSUME NEW i \in ScratchMounts(d)
        PROVE  i \in (n + 1)..Len(d.mounts)
    <2>1. i \in 1..Len(d.mounts) /\ d.mounts[i].name \in {"sudo-service-tmp", "sudo-service-home"}
      BY <1>4 DEF ScratchMounts
    <2>2. i \notin 1..n
      BY <1>1, <1>2, <2>1 DEF Clean
    <2> QED BY <1>1, <1>4, <2>1, <2>2
  <1>6. ASSUME NEW j \in RequesterMounts(d)
        PROVE  j \in 1..n
    <2>1. j \in 1..Len(d.mounts) /\ d.mounts[j].name \notin {"sudo-service-tmp", "sudo-service-home"}
      BY <1>4 DEF RequesterMounts, reservedVolumeNames
    <2>2. j \notin (n + 1)..Len(d.mounts)
      BY <1>2, <1>3, <2>1
    <2> QED BY <1>1, <1>4, <2>1, <2>2
  <1>7. ASSUME NEW i \in ScratchMounts(d), NEW j \in RequesterMounts(d)
        PROVE  /\ ~IsPrefix(d.mounts[i].path, d.mounts[j].path)
               /\ d.mounts[i].path \in {Tmp, Home} /\ d.mounts[j] \in Mountable
    <2>1. i \in (n + 1)..Len(d.mounts) /\ j \in DOMAIN c.mounts /\ d.mounts[j] = c.mounts[j]
      BY <1>1, <1>2, <1>5, <1>6
    <2>2. c.mounts[j] \in Mountable
      BY <1>0, <2>1
    <2> QED BY <1>2, <1>3, <2>1, <2>2 DEF mountsAtOrUnder
  <1>8. ASSUME NEW j \in RequesterMounts(d)
        PROVE  d.mounts[j] # StdinMount
    BY DEF RequesterMounts, reservedVolumeNames, StdinMount, Mount
  <1>9. \A m \in Mountable : m # StdinMount => m.path \in Seq(STRING)
    BY DEF Mountable, MountType
  <1> QED BY <1>7, <1>8, <1>9

\* Mounts of known volumes, each at a path of its own.
MountsFit(c, names) ==
  /\ \A i \in DOMAIN c.mounts : c.mounts[i].name \in names
  /\ Cardinality({c.mounts[i].path : i \in DOMAIN c.mounts}) = Len(c.mounts)

\* A stamped container mounts known volumes, each at a path of its own.
LEMMA StampAdmitted ==
  ASSUME NEW names, NEW all, NEW c, Clean(c, names), NEW r, r = stampScratch(c), names \subseteq all,
         r.usedTmp => "sudo-service-tmp" \in all, r.usedHome => "sudo-service-home" \in all
  PROVE  MountsFit(r.c, all)
  <1> DEFINE d == r.c
  <1> DEFINE n == Len(c.mounts)
  <1>0. c \in Container /\ c.mounts \in Seq(Mountable)
    BY DEF Clean, Container
  <1>1. n \in Nat /\ DOMAIN c.mounts = 1..n
    BY <1>0
  <1>2. /\ d.mounts \in Seq(Mountable \cup {TmpMount, HomeMount})
        /\ n =< Len(d.mounts) /\ \A i \in 1..n : d.mounts[i] = c.mounts[i]
        /\ \A i \in (n + 1)..Len(d.mounts) :
             (r.usedTmp /\ d.mounts[i] = TmpMount) \/ (r.usedHome /\ d.mounts[i] = HomeMount)
        /\ \A i, j \in (n + 1)..Len(d.mounts) : d.mounts[i] = d.mounts[j] => i = j
        /\ r.usedTmp => ~mountsAtOrUnder(c.mounts, Tmp)
        /\ r.usedHome => ~mountsAtOrUnder(c.mounts, Home)
    BY <1>0, Stamp
  <1>3. /\ TmpMount.name = "sudo-service-tmp" /\ TmpMount.path = Tmp
        /\ HomeMount.name = "sudo-service-home" /\ HomeMount.path = Home
    BY DEF TmpMount, HomeMount, Mount
  <1>4. DOMAIN d.mounts = 1..Len(d.mounts) /\ Len(d.mounts) \in Nat
    BY <1>2
  <1> HIDE DEF n, d
  <1>5. \A i \in 1..Len(d.mounts) : i \in 1..n \/ i \in (n + 1)..Len(d.mounts)
    BY <1>1, <1>4
  <1>6. \A i \in DOMAIN d.mounts : d.mounts[i].name \in all
    BY <1>1, <1>2, <1>3, <1>4, <1>5 DEF Clean
  <1>7. \A i \in (n + 1)..Len(d.mounts), j \in 1..n : d.mounts[i].path # d.mounts[j].path
    BY <1>1, <1>2, <1>3, PathsApart DEF mountsAtOrUnder
  <1>8. \A i, j \in (n + 1)..Len(d.mounts) : d.mounts[i].path = d.mounts[j].path => i = j
    BY <1>2, <1>3, PathsApart
  <1>9. \A i, j \in 1..n : d.mounts[i].path = d.mounts[j].path => i = j
    <2>1. \A i, j \in 1..n : c.mounts[i].path = c.mounts[j].path => i = j
      BY <1>1 DEF Clean
    <2>2. \A i \in 1..n : d.mounts[i] = c.mounts[i]
      BY <1>2
    <2> QED BY <2>1, <2>2
  <1>10. \A i, j \in 1..Len(d.mounts) : d.mounts[i].path = d.mounts[j].path => i = j
    BY <1>5, <1>7, <1>8, <1>9
  <1>11. Cardinality({d.mounts[i].path : i \in DOMAIN d.mounts}) = Len(d.mounts)
    <2> DEFINE T == {d.mounts[i].path : i \in DOMAIN d.mounts}
    <2> DEFINE f == [i \in 1..Len(d.mounts) |-> d.mounts[i].path]
    <2>1. /\ f \in [1..Len(d.mounts) -> T] /\ \A t \in T : \E i \in 1..Len(d.mounts) : f[i] = t
          /\ \A i, j \in 1..Len(d.mounts) : f[i] = f[j] => i = j
      BY <1>4, <1>10
    <2> HIDE DEF f, T
    <2>2. Cardinality(T) = Len(d.mounts)
      BY <1>4, <2>1, CountApart
    <2> QED BY <2>2 DEF T
  <1> QED BY <1>6, <1>11 DEF d, MountsFit

\* No name twice.
NamesApart(t) == \A i, j \in 1..Len(t) : t[i].name = t[j].name => i = j

\* Names stay apart when what is appended has names of its own.
LEMMA SplicedApart ==
  ASSUME NEW S, NEW s \in Seq(S), NEW x, NEW y, NEW a, NEW b, NEW t, Splices(S, s, x, y, a, b, t),
         x.name # y.name, \A i \in 1..Len(s) : s[i].name \notin {x.name, y.name},
         NamesApart(s)
  PROVE  NamesApart(t)
  <1>1. Len(s) \in Nat /\ Len(t) \in Nat
    BY DEF Splices
  <1>2. \A i \in 1..Len(t) : i \in 1..Len(s) \/ i \in (Len(s) + 1)..Len(t)
    BY <1>1
  <1>3. \A i \in (Len(s) + 1)..Len(t), j \in 1..Len(s) : t[i].name # t[j].name
    BY DEF Splices
  <1>4. \A i, j \in (Len(s) + 1)..Len(t) : t[i].name = t[j].name => i = j
    BY DEF Splices
  <1>5. \A i, j \in 1..Len(s) : t[i].name = t[j].name => i = j
    BY DEF Splices, NamesApart
  <1> QED BY <1>2, <1>3, <1>4, <1>5 DEF NamesApart

TmpVolume == ScratchVolume("sudo-service-tmp")
HomeVolume == ScratchVolume("sudo-service-home")

\* The sequence that the volumes of the pod extend: the spec's, and stdin's.
WithStdinVolume(s) == s.volumes \o If(s.stdin # "none", <<StdinVolume>>)

\* Some container got a writable /tmp, or a HOME.
AnyTmp(stamped) ==
  \E c \in {stamped.executor} \cup {stamped.inits[i] : i \in DOMAIN stamped.inits} : c.usedTmp
AnyHome(stamped) ==
  \E c \in {stamped.executor} \cup {stamped.inits[i] : i \in DOMAIN stamped.inits} : c.usedHome

\* What the volumes of the pod are.
LEMMA PodVolumes ==
  ASSUME NEW s \in SudoRequestSpec, NEW stamped
  PROVE  \E a \in {<< >>, <<StdinVolume>>}, tmp \in {<< >>, <<TmpVolume>>}, home \in {<< >>, <<HomeVolume>>} :
           /\ a = <<StdinVolume>> <=> s.stdin # "none"
           /\ tmp = <<TmpVolume>> <=> AnyTmp(stamped)
           /\ home = <<HomeVolume>> <=> AnyHome(stamped)
           /\ s.volumes \in Seq(VolumeType)
           /\ WithStdinVolume(s) \in Seq(VolumeType \cup {StdinVolume, HomeVolume})
           /\ Splices(VolumeType, s.volumes, StdinVolume, HomeVolume, a, << >>, WithStdinVolume(s))
           /\ Splices(VolumeType \cup {StdinVolume, HomeVolume}, WithStdinVolume(s),
                      TmpVolume, HomeVolume, tmp, home, Volumes(s, stamped))
  <1> DEFINE a == If(s.stdin # "none", <<StdinVolume>>)
  <1> DEFINE tmp == If(AnyTmp(stamped), <<TmpVolume>>)
  <1> DEFINE home == If(AnyHome(stamped), <<HomeVolume>>)
  <1> DEFINE v == WithStdinVolume(s)
  <1>1. a \in {<< >>, <<StdinVolume>>} /\ (a = <<StdinVolume>> <=> s.stdin # "none")
    BY DEF If
  <1>2. tmp \in {<< >>, <<TmpVolume>>} /\ (tmp = <<TmpVolume>> <=> AnyTmp(stamped))
    BY DEF If
  <1>3. home \in {<< >>, <<HomeVolume>>} /\ (home = <<HomeVolume>> <=> AnyHome(stamped))
    BY DEF If
  <1>4. s.volumes \in Seq(VolumeType)
    BY DEF SudoRequestSpec
  <1>5. v = s.volumes \o a /\ Volumes(s, stamped) = v \o tmp \o home
    BY DEF WithStdinVolume, Volumes, AnyTmp, AnyHome, TmpVolume, HomeVolume
  <1>6. StdinVolume # HomeVolume /\ TmpVolume # HomeVolume
    BY DEF StdinVolume, TmpVolume, HomeVolume, ScratchVolume
  <1> HIDE DEF a, tmp, home, v
  <1>7. Splices(VolumeType, s.volumes, StdinVolume, HomeVolume, a, << >>, s.volumes \o a \o << >>)
    BY <1>1, <1>4, <1>6, Spliced
  <1>8. s.volumes \o a \in Seq(VolumeType \cup {StdinVolume})
    <2>1. CASE a = << >>
      BY <2>1, <1>4
    <2>2. CASE a = <<StdinVolume>>
      <3>1. s.volumes \o a = Append(s.volumes, StdinVolume)
        BY <2>2, <1>4
      <3> QED BY <3>1, <1>4
    <2> QED BY <1>1, <2>1, <2>2
  <1>9. s.volumes \o a \o << >> = s.volumes \o a
    BY <1>8
  <1>10. Splices(VolumeType, s.volumes, StdinVolume, HomeVolume, a, << >>, v)
    BY <1>5, <1>7, <1>9
  <1>11. v \in Seq(VolumeType \cup {StdinVolume, HomeVolume})
    BY <1>10 DEF Splices
  <1>12. Splices(VolumeType \cup {StdinVolume, HomeVolume}, v, TmpVolume, HomeVolume, tmp, home, v \o tmp \o home)
    BY <1>2, <1>3, <1>6, <1>11, Spliced
  <1> QED BY <1>1, <1>2, <1>3, <1>4, <1>5, <1>10, <1>11, <1>12 DEF v

\* A volume has finitely many sources.
LEMMA SourcesFinite ==
  ASSUME NEW v \in VolumeType
  PROVE  IsFiniteSet(v.sources)
  <1>1. v.sources \subseteq VolumeSources
    BY DEF VolumeType
  <1>2. IsFiniteSet(VolumeSources)
    <2> DEFINE three == {"emptyDir"} \cup {"secret"} \cup {"configMap"}
    <2>1. IsFiniteSet({"emptyDir"}) /\ IsFiniteSet({"pvc"})
      BY FS_Singleton
    <2>2. IsFiniteSet({"emptyDir"} \cup {"secret"})
      BY <2>1, FS_AddElement
    <2>3. IsFiniteSet(three)
      BY <2>2, FS_AddElement
    <2>4. IsFiniteSet({"pvc"} \cup {"hostPath"})
      BY <2>1, FS_AddElement
    <2>5. IsFiniteSet({"pvc"} \cup {"hostPath"} \cup {"projected"})
      BY <2>4, FS_AddElement
    <2>6. IsFiniteSet({"pvc"} \cup {"hostPath"} \cup {"projected"} \cup {"nfs"})
      BY <2>5, FS_AddElement
    <2>7. IsFiniteSet(three \cup ({"pvc"} \cup {"hostPath"} \cup {"projected"} \cup {"nfs"}))
      BY <2>3, <2>6, FS_Union
    <2>8. VolumeSources = three \cup ({"pvc"} \cup {"hostPath"} \cup {"projected"} \cup {"nfs"})
      BY DEF VolumeSources
    <2> QED BY <2>7, <2>8
  <1> QED BY <1>1, <1>2, FS_Subset

\* A validated volume that has at most one source has one.
LEMMA OneSource ==
  ASSUME NEW v \in VolumeType, validateVolumeSource(v), ~(Cardinality(v.sources) > 1)
  PROVE  Cardinality(v.sources) = 1
  <1>1. v.sources # {}
    BY DEF validateVolumeSource, describeVolumeSource
  <1>2. Cardinality(v.sources) \in Nat /\ Cardinality(v.sources) # 0
    BY <1>1, SourcesFinite, FS_CardinalityType, FS_EmptySet
  <1> QED BY <1>2

\* Volumes with names and sources apart, the ones that containers mount among them.
VolumesFit(s, stamped, vols) ==
  LET names == {vols[i].name : i \in DOMAIN vols}
  IN  /\ Cardinality(names) = Len(vols)
      /\ \A i \in DOMAIN vols : Cardinality(vols[i].sources) = 1
      /\ VolNames(s) \subseteq names
      /\ AnyTmp(stamped) => "sudo-service-tmp" \in names
      /\ AnyHome(stamped) => "sudo-service-home" \in names

\* The volumes of a pod are admitted when the requester's own are: stdin and scratch
\* bring names of their own.
LEMMA VolumesAdmitted ==
  ASSUME NEW s \in SudoRequestSpec, validateSpecExtras(s), NEW stamped,
         \A i, j \in DOMAIN s.volumes : s.volumes[i].name = s.volumes[j].name => i = j,
         \A i \in DOMAIN s.volumes : ~(Cardinality(s.volumes[i].sources) > 1)
  PROVE  VolumesFit(s, stamped, Volumes(s, stamped))
  <1> DEFINE w == WithStdinVolume(s)
  <1> DEFINE vols == Volumes(s, stamped)
  <1> DEFINE names == {vols[i].name : i \in DOMAIN vols}
  <1> DEFINE S == VolumeType \cup {StdinVolume, HomeVolume}
  <1>1. PICK a \in {<< >>, <<StdinVolume>>}, tmp \in {<< >>, <<TmpVolume>>}, home \in {<< >>, <<HomeVolume>>} :
           /\ a = <<StdinVolume>> <=> s.stdin # "none"
           /\ tmp = <<TmpVolume>> <=> AnyTmp(stamped)
           /\ home = <<HomeVolume>> <=> AnyHome(stamped)
           /\ s.volumes \in Seq(VolumeType)
           /\ w \in Seq(S)
           /\ Splices(VolumeType, s.volumes, StdinVolume, HomeVolume, a, << >>, w)
           /\ Splices(S, w, TmpVolume, HomeVolume, tmp, home, vols)
    BY PodVolumes
  <1> HIDE DEF w, vols, S
  <1>2. /\ StdinVolume.name = "sudo-service-stdin" /\ StdinVolume.sources = {"secret"}
        /\ TmpVolume.name = "sudo-service-tmp" /\ TmpVolume.sources = {"emptyDir"}
        /\ HomeVolume.name = "sudo-service-home" /\ HomeVolume.sources = {"emptyDir"}
    BY DEF StdinVolume, TmpVolume, HomeVolume, ScratchVolume
  <1>3. /\ DOMAIN s.volumes = 1..Len(s.volumes) /\ Len(s.volumes) \in Nat
        /\ DOMAIN vols = 1..Len(vols) /\ Len(vols) \in Nat /\ Len(w) \in Nat
    BY <1>1 DEF Splices
  <1>4. \A i \in 1..Len(s.volumes) : /\ s.volumes[i].name \notin reservedVolumeNames
                                     /\ validateVolumeSource(s.volumes[i])
    BY <1>3 DEF validateSpecExtras
  <1>5. NamesApart(w)
    <2>1. /\ StdinVolume.name # HomeVolume.name
          /\ \A i \in 1..Len(s.volumes) : s.volumes[i].name \notin {StdinVolume.name, HomeVolume.name}
      BY <1>2, <1>4 DEF reservedVolumeNames
    <2>2. NamesApart(s.volumes)
      BY <1>3 DEF NamesApart
    <2>3. s.volumes \in Seq(VolumeType) /\ Splices(VolumeType, s.volumes, StdinVolume, HomeVolume, a, << >>, w)
      BY <1>1
    <2> QED BY <2>1, <2>2, <2>3, SplicedApart
  <1>e. << >> # <<HomeVolume>>
    OBVIOUS
  <1>f. /\ Len(s.volumes) =< Len(w) /\ \A i \in 1..Len(s.volumes) : w[i] = s.volumes[i]
        /\ \A i \in (Len(s.volumes) + 1)..Len(w) : s.stdin # "none" /\ w[i] = StdinVolume
        /\ s.stdin # "none" => \E i \in 1..Len(w) : w[i] = StdinVolume
    BY <1>1, <1>e DEF Splices
  <1>g. /\ Len(w) =< Len(vols) /\ \A i \in 1..Len(w) : vols[i] = w[i]
        /\ \A i \in (Len(w) + 1)..Len(vols) : vols[i] \in {TmpVolume, HomeVolume}
        /\ AnyTmp(stamped) => \E i \in 1..Len(vols) : vols[i] = TmpVolume
        /\ AnyHome(stamped) => \E i \in 1..Len(vols) : vols[i] = HomeVolume
    BY <1>1 DEF Splices
  <1>6. \A i \in 1..Len(w) : \/ i \in 1..Len(s.volumes) /\ w[i] = s.volumes[i]
                             \/ s.stdin # "none" /\ w[i] = StdinVolume
    BY <1>3, <1>f
  <1>7. \A i \in 1..Len(w) : w[i].name \notin {"sudo-service-tmp", "sudo-service-home"}
    BY <1>2, <1>4, <1>6 DEF reservedVolumeNames
  <1>8. NamesApart(vols)
    <2>1. /\ TmpVolume.name # HomeVolume.name
          /\ \A i \in 1..Len(w) : w[i].name \notin {TmpVolume.name, HomeVolume.name}
      BY <1>2, <1>7
    <2>2. w \in Seq(S) /\ Splices(S, w, TmpVolume, HomeVolume, tmp, home, vols)
      BY <1>1
    <2> QED BY <1>5, <2>1, <2>2, SplicedApart
  <1>9. Cardinality(names) = Len(vols)
    <2> DEFINE f == [i \in 1..Len(vols) |-> vols[i].name]
    <2>1. /\ f \in [1..Len(vols) -> names] /\ \A t \in names : \E i \in 1..Len(vols) : f[i] = t
          /\ \A i, j \in 1..Len(vols) : f[i] = f[j] => i = j
      BY <1>3, <1>8 DEF NamesApart
    <2> HIDE DEF f, names
    <2> QED BY <1>3, <2>1, CountApart
  <1>10. \A i \in 1..Len(w) : Cardinality(w[i].sources) = 1
    <2>1. \A i \in 1..Len(s.volumes) : Cardinality(s.volumes[i].sources) = 1
      BY <1>1, <1>3, <1>4, OneSource
    <2>2. Cardinality(StdinVolume.sources) = 1
      BY <1>2, FS_Singleton
    <2> QED BY <1>6, <2>1, <2>2
  <1>11. \A i \in 1..Len(vols) : \/ i \in 1..Len(w) /\ vols[i] = w[i]
                                 \/ vols[i] = TmpVolume \/ vols[i] = HomeVolume
    BY <1>3, <1>g
  <1>12. \A i \in 1..Len(vols) : Cardinality(vols[i].sources) = 1
    <2>1. Cardinality(TmpVolume.sources) = 1 /\ Cardinality(HomeVolume.sources) = 1
      BY <1>2, FS_Singleton
    <2> QED BY <1>10, <1>11, <2>1
  <1>13. \A i \in 1..Len(w) : w[i].name \in names
    BY <1>3, <1>g
  <1>14. VolNames(s) \subseteq names
    <2> HIDE DEF names
    <2>1. \A i \in 1..Len(s.volumes) : s.volumes[i].name \in names
      BY <1>3, <1>13, <1>f
    <2>2. s.stdin # "none" => "sudo-service-stdin" \in names
      BY <1>2, <1>13, <1>f
    <2> QED BY <1>3, <2>1, <2>2 DEF VolNames
  <1>15. /\ AnyTmp(stamped) => "sudo-service-tmp" \in names
         /\ AnyHome(stamped) => "sudo-service-home" \in names
    BY <1>2, <1>3, <1>g
  <1> QED BY <1>3, <1>9, <1>12, <1>14, <1>15 DEF vols, VolumesFit

\* The containers of the pod, as they were stamped.
LEMMA PodContainers ==
  ASSUME NEW s \in SudoRequestSpec, NEW st, NEW k, NEW pod, pod = buildExecutorJob(s, st, k)
  PROVE  /\ pod.executor = stampScratch(WithStdin(s)).c
         /\ DOMAIN pod.inits = DOMAIN s.inits
         /\ \A i \in DOMAIN s.inits : pod.inits[i] = stampScratch(s.inits[i]).c
         /\ pod.volumes = Volumes(s, Stamped(s))
         /\ Stamped(s).executor = stampScratch(WithStdin(s))
         /\ DOMAIN Stamped(s).inits = DOMAIN s.inits
         /\ \A i \in DOMAIN s.inits : Stamped(s).inits[i] = stampScratch(s.inits[i])
  <1>1. /\ Stamped(s).executor = stampScratch(WithStdin(s))
        /\ DOMAIN Stamped(s).inits = DOMAIN s.inits
        /\ \A i \in DOMAIN s.inits : Stamped(s).inits[i] = stampScratch(s.inits[i])
    BY DEF Stamped, WithStdin, StdinMount
  <1> QED BY <1>1 DEF buildExecutorJob

\* The Job outlives neither its bound nor its reason: the TTL is in the policy's range.
LEMMA TtlInRange ==
  ASSUME NEW s \in SudoRequestSpec
  PROVE  ttlSecondsAfterApproval(s) \in 0..ExecutorJobTTL
  <1>1. CASE s.ttl = {}
    BY <1>1 DEF ttlSecondsAfterApproval, DefaultPostApproval, ExecutorJobTTL
  <1>2. CASE s.ttl # {}
    <2> DEFINE v == CHOOSE v \in s.ttl : TRUE
    <2>1. v \in Int
      BY <1>2 DEF SudoRequestSpec
    <2>2. ttlSecondsAfterApproval(s) = IF v < 0 THEN 0 ELSE IF v > ExecutorJobTTL THEN ExecutorJobTTL ELSE v
      BY <1>2 DEF ttlSecondsAfterApproval
    <2> HIDE DEF v
    <2> QED BY <2>1, <2>2 DEF ExecutorJobTTL
  <1> QED BY <1>1, <1>2

\* What the apiserver asks of the pod follows from the validation of the spec and from
\* what validation leaves to the requester.
LEMMA ValidatedAdmitted ==
  ASSUME NEW s \in SudoRequestSpec, validateSpecExtras(s), NEW st, NEW k,
         \A i, j \in DOMAIN s.volumes : s.volumes[i].name = s.volumes[j].name => i = j,
         \A i \in DOMAIN s.volumes : ~(Cardinality(s.volumes[i].sources) > 1),
         \A i, j \in DOMAIN s.inits : s.inits[i].name = s.inits[j].name => i = j,
         \A i \in DOMAIN s.inits : s.inits[i].name # "executor", s.formats
  PROVE  Admitted(buildExecutorJob(s, st, k))
  <1> DEFINE pod == buildExecutorJob(s, st, k)
  <1> DEFINE vols == Volumes(s, Stamped(s))
  <1> DEFINE names == {pod.volumes[i].name : i \in DOMAIN pod.volumes}
  <1>1. /\ pod.executor = stampScratch(WithStdin(s)).c
        /\ DOMAIN pod.inits = DOMAIN s.inits
        /\ \A i \in DOMAIN s.inits : pod.inits[i] = stampScratch(s.inits[i]).c
        /\ pod.volumes = vols
    BY PodContainers
  <1>2. /\ Cardinality(names) = Len(pod.volumes)
        /\ \A i \in DOMAIN pod.volumes : Cardinality(pod.volumes[i].sources) = 1
        /\ VolNames(s) \subseteq names
        /\ AnyTmp(Stamped(s)) => "sudo-service-tmp" \in names
        /\ AnyHome(Stamped(s)) => "sudo-service-home" \in names
    <2>1. VolumesFit(s, Stamped(s), vols)
      BY VolumesAdmitted
    <2> HIDE DEF vols, pod
    <2> QED BY <1>1, <2>1 DEF VolumesFit
  <1>3. /\ stampScratch(WithStdin(s)).usedTmp => "sudo-service-tmp" \in names
        /\ stampScratch(WithStdin(s)).usedHome => "sudo-service-home" \in names
        /\ \A i \in DOMAIN s.inits :
             /\ stampScratch(s.inits[i]).usedTmp => "sudo-service-tmp" \in names
             /\ stampScratch(s.inits[i]).usedHome => "sudo-service-home" \in names
    <2> DEFINE stamped == Stamped(s)
    <2>1. /\ stamped.executor = stampScratch(WithStdin(s))
          /\ DOMAIN stamped.inits = DOMAIN s.inits
          /\ \A i \in DOMAIN s.inits : stamped.inits[i] = stampScratch(s.inits[i])
      BY PodContainers
    <2>2. /\ AnyTmp(stamped) => "sudo-service-tmp" \in names
          /\ AnyHome(stamped) => "sudo-service-home" \in names
      BY <1>2
    <2> HIDE DEF stamped, names
    <2> QED BY <2>1, <2>2 DEF AnyTmp, AnyHome
  <1>4. /\ pod.pulls = s.pulls /\ s.pulls # "nameless"
        /\ pod.ttl = (LET ttl == ttlSecondsAfterApproval(s)
                      IN  IF ttl < ExecutorJobTTLFloor THEN ExecutorJobTTLFloor ELSE ttl)
    <2>1. s.pulls # "nameless"
      BY DEF validateSpecExtras
    <2> QED BY <2>1 DEF buildExecutorJob
  <1>5. pod.ttl =< ExecutorJobTTL
    <2> DEFINE ttl == ttlSecondsAfterApproval(s)
    <2>1. ttl \in 0..ExecutorJobTTL
      BY TtlInRange
    <2>2. pod.ttl = IF ttl < ExecutorJobTTLFloor THEN ExecutorJobTTLFloor ELSE ttl
      BY <1>4
    <2> HIDE DEF ttl, pod
    <2> QED BY <2>1, <2>2 DEF ExecutorJobTTL, ExecutorJobTTLFloor
  <1>6. Containers(pod) = {stampScratch(WithStdin(s)).c} \cup {stampScratch(s.inits[i]).c : i \in DOMAIN s.inits}
    BY <1>1 DEF Containers
  <1>7. /\ \A i, j \in DOMAIN pod.inits : pod.inits[i].name = pod.inits[j].name => i = j
        /\ \A i \in DOMAIN pod.inits : pod.inits[i].name # "executor"
        /\ pod.formats
    <2>1. ASSUME NEW i \in DOMAIN s.inits
          PROVE  stampScratch(s.inits[i]).c.name = s.inits[i].name
      <3>1. s.inits[i] \in InitType
        BY DEF SudoRequestSpec
      <3> QED BY <3>1 DEF stampScratch, InitType
    <2>2. pod.formats = s.formats
      BY DEF buildExecutorJob
    <2> HIDE DEF pod
    <2> QED BY <1>1, <2>1, <2>2
  <1> HIDE DEF pod, names, vols
  <1>8. ASSUME NEW c \in Containers(pod)
        PROVE  /\ \A i \in DOMAIN c.mounts : c.mounts[i].name \in names
               /\ Cardinality({c.mounts[i].path : i \in DOMAIN c.mounts}) = Len(c.mounts)
    <2>1. PICK c0 : /\ c = stampScratch(c0).c /\ Clean(c0, VolNames(s))
                    /\ stampScratch(c0).usedTmp => "sudo-service-tmp" \in names
                    /\ stampScratch(c0).usedHome => "sudo-service-home" \in names
      BY <1>3, <1>6, ValidatedIsClean
    <2>2. MountsFit(stampScratch(c0).c, names)
      BY <1>2, <2>1, StampAdmitted
    <2> QED BY <2>1, <2>2 DEF MountsFit
  <1> QED BY <1>2, <1>4, <1>5, <1>7, <1>8 DEF Admitted, names, pod

\* Stamping adds no Secret to an environment.
LEMMA StampSecrets ==
  ASSUME NEW c \in Container
  PROVE  EnvSecrets(stampScratch(c).c) \cap Secrets \subseteq EnvSecrets(c)
  <1> DEFINE d == stampScratch(c).c
  <1>1. d.from = c.from /\ d.env \subseteq c.env \cup {HomeVar}
    <2>1. d.from = c.from /\ (d.env # c.env => d.env = c.env \cup {HomeVar})
      BY Stamp
    <2> QED BY <2>1
  <1>2. HomeVar.secret \notin Secrets
    BY SpecsAssumption DEF HomeVar
  <1> HIDE DEF d
  <1>3. EnvSecrets(d) \cap Secrets \subseteq EnvSecrets(c)
    BY <1>1, <1>2 DEF EnvSecrets
  <1> QED BY <1>3 DEF d

\* The Secrets a pod exposes are the ones its spec names.
LEMMA ExposedNamed ==
  ASSUME NEW s \in SudoRequestSpec, NEW st, NEW k, NEW n \in ExposedSecrets(buildExecutorJob(s, st, k))
  PROVE  /\ n \in Secrets
         /\ \/ \E i \in DOMAIN s.volumes : /\ "secret" \in s.volumes[i].sources /\ s.volumes[i].secret = n
                                          /\ i \in DOMAIN buildExecutorJob(s, st, k).volumes
                                          /\ buildExecutorJob(s, st, k).volumes[i] = s.volumes[i]
            \/ n \in EnvSecrets(s.executor)
            \/ \E i \in DOMAIN s.inits : n \in EnvSecrets(s.inits[i])
  <1> DEFINE pod == buildExecutorJob(s, st, k)
  <1> DEFINE vols == pod.volumes
  <1>0. n \in ExposedSecrets(pod)
    OBVIOUS
  <1>1. /\ pod.executor = stampScratch(WithStdin(s)).c
        /\ DOMAIN pod.inits = DOMAIN s.inits
        /\ \A i \in DOMAIN s.inits : pod.inits[i] = stampScratch(s.inits[i]).c
        /\ vols = Volumes(s, Stamped(s))
    BY PodContainers
  <1> HIDE DEF pod, vols
  <1>2. n \in Secrets /\ n # ""
    BY <1>0, SpecsAssumption DEF ExposedSecrets
  <1>3. CASE \E i \in DOMAIN vols : "secret" \in vols[i].sources /\ vols[i].secret = n
    <2>1. PICK i \in DOMAIN vols : "secret" \in vols[i].sources /\ vols[i].secret = n
      BY <1>3
    <2> DEFINE w == WithStdinVolume(s)
    <2> DEFINE S == VolumeType \cup {StdinVolume, HomeVolume}
    <2>2. PICK a, tmp, home :
             /\ s.volumes \in Seq(VolumeType) /\ w \in Seq(S)
             /\ Splices(VolumeType, s.volumes, StdinVolume, HomeVolume, a, << >>, w)
             /\ Splices(S, w, TmpVolume, HomeVolume, tmp, home, vols)
      BY <1>1, PodVolumes
    <2> HIDE DEF w, S
    <2>3. /\ StdinVolume.secret = "" /\ TmpVolume.secret = "" /\ HomeVolume.secret = ""
      BY DEF StdinVolume, TmpVolume, HomeVolume, ScratchVolume
    <2>4. /\ vols \in Seq(S \cup {TmpVolume, HomeVolume}) /\ Len(w) =< Len(vols)
          /\ \A j \in 1..Len(w) : vols[j] = w[j]
          /\ \A j \in (Len(w) + 1)..Len(vols) : vols[j] \in {TmpVolume, HomeVolume}
      BY <2>2 DEF Splices
    <2>5. /\ Len(s.volumes) =< Len(w) /\ \A j \in 1..Len(s.volumes) : w[j] = s.volumes[j]
          /\ \A j \in (Len(s.volumes) + 1)..Len(w) : w[j] \in {StdinVolume, HomeVolume}
      BY <2>2 DEF Splices
    <2>6. /\ DOMAIN vols = 1..Len(vols) /\ Len(vols) \in Nat /\ Len(w) \in Nat
          /\ DOMAIN s.volumes = 1..Len(s.volumes) /\ Len(s.volumes) \in Nat
      BY <2>2, <2>4
    <2>7. i \in 1..Len(w)
      <3>1. i \notin (Len(w) + 1)..Len(vols)
        BY <1>2, <2>1, <2>3, <2>4
      <3> QED BY <3>1, <2>6
    <2>8. i \in 1..Len(s.volumes)
      <3>1. i \notin (Len(s.volumes) + 1)..Len(w)
        BY <1>2, <2>1, <2>3, <2>4, <2>5, <2>7
      <3> QED BY <3>1, <2>6, <2>7
    <2>9. vols[i] = s.volumes[i]
      BY <2>4, <2>5, <2>7, <2>8
    <2> QED BY <1>2, <2>1, <2>6, <2>8, <2>9 DEF vols, pod
  <1>4. CASE n \in EnvSecrets(pod.executor)
    <2>1. n \in EnvSecrets(WithStdin(s))
      <3>1. WithStdin(s) \in Container
        BY WithStdinMounts
      <3> QED BY <1>1, <1>2, <1>4, <3>1, StampSecrets
    <2>2. EnvSecrets(WithStdin(s)) = EnvSecrets(s.executor)
      BY WithStdinMounts DEF EnvSecrets
    <2> QED BY <1>2, <2>1, <2>2
  <1>5. CASE \E i \in DOMAIN pod.inits : n \in EnvSecrets(pod.inits[i])
    <2>1. PICK i \in DOMAIN s.inits : n \in EnvSecrets(stampScratch(s.inits[i]).c)
      BY <1>1, <1>5
    <2>2. s.inits[i] \in Container
      <3>1. s.inits[i] \in InitType
        BY DEF SudoRequestSpec
      <3> QED BY <3>1 DEF InitType, Container, Mountable
    <2> QED BY <1>2, <2>1, <2>2, StampSecrets
  <1> QED BY <1>0, <1>3, <1>4, <1>5 DEF ExposedSecrets, Containers, vols

\* An empty sequence has no positions, and what has none is empty.
LEMMA EmptyDomain ==
  /\ \A q : q = << >> => DOMAIN q = {}
  /\ \A f, g : f = [i \in {} |-> g[i]] => f = << >>
  OBVIOUS

-----------------------------------------------------------------------------
(* What preflight reads out of a command.                                  *)

\* args are the words of the call up to some point; tail those after the first.
Begins(args, call) ==
  args \in Seq(STRING) /\ Len(args) =< Len(call) /\ \A i \in 1..Len(args) : args[i] = call[i]

Follows(tail, call) ==
  tail \in Seq(STRING) /\ Len(tail) < Len(call) /\ \A i \in 1..Len(tail) : tail[i] = call[i + 1]

\* The first word of target is one the shell looks up as a command.
LooksUp(call, target) ==
  target # << >> => \E k \in DOMAIN call : Invokes(call, k) /\ target[1] = call[k]

\* The literal words are the first ones of the call.
LEMMA LiteralBegins ==
  ASSUME NEW call \in Seq(STRING)
  PROVE  Begins(literalArgs(call), call)
  <1> DEFINE plain == {n \in 0..Len(call) : \A i \in 1..n : call[i] \notin Opaque}
  <1> DEFINE n == CHOOSE n \in plain : \A m \in plain : m =< n
  <1>1. plain \in SUBSET Nat /\ plain # {} /\ \A m \in plain : m =< Len(call)
    <2>1. 0 \in plain
      OBVIOUS
    <2> QED BY <2>1
  <1>2. n \in 0..Len(call)
    <2>1. Len(call) \in Nat
      OBVIOUS
    <2>2. \E m \in plain : \A k \in plain : k =< m
      <3> HIDE DEF plain
      <3> QED BY <1>1, <2>1, Largest
    <2>3. n \in plain
      <3> HIDE DEF plain
      <3> QED BY <2>2
    <2> QED BY <2>3
  <1>3. literalArgs(call) = SubSeq(call, 1, n)
    BY DEF literalArgs
  <1> HIDE DEF n
  <1>4. \A i \in 1..n : call[i] \in STRING
    BY <1>2
  <1>5. /\ SubSeq(call, 1, n) \in Seq(STRING) /\ Len(SubSeq(call, 1, n)) = n
        /\ \A i \in 1..n : SubSeq(call, 1, n)[i] = call[i]
    BY <1>2, <1>4, SubSeqProperties
  <1> QED BY <1>2, <1>3, <1>5 DEF Begins

\* Without its first word, what begins the call follows that word.
LEMMA TailFollows ==
  ASSUME NEW call \in Seq(STRING), NEW args, Begins(args, call), args # << >>
  PROVE  Follows(Tail(args), call) /\ args[1] = call[1] /\ 1 \in DOMAIN call
  <1>1. args \in Seq(STRING) /\ Len(args) \in Nat /\ Len(args) >= 1 /\ Len(call) \in Nat
    BY DEF Begins
  <1>2. /\ Tail(args) \in Seq(STRING) /\ Len(Tail(args)) = Len(args) - 1
        /\ \A i \in 1..Len(Tail(args)) : Tail(args)[i] = args[i + 1]
    BY <1>1, HeadTailProperties
  <1>3. \A i \in 1..Len(Tail(args)) : i + 1 \in 1..Len(args)
    BY <1>1, <1>2
  <1>4. DOMAIN call = 1..Len(call)
    BY LenProperties
  <1> QED BY <1>1, <1>2, <1>3, <1>4 DEF Begins, Follows

\* The first word of what is left of a sequence from its n-th element on.
LEMMA RestFirst ==
  ASSUME NEW t \in Seq(STRING), NEW n \in Nat, n >= 1, SubSeq(t, n, Len(t)) # << >>
  PROVE  n =< Len(t) /\ SubSeq(t, n, Len(t))[1] = t[n]
  <1>0. Len(t) \in Nat
    OBVIOUS
  <1>1. n =< Len(t)
    BY <1>0, SubSeqEmpty
  <1>2. \A i \in n..Len(t) : t[i] \in STRING
    BY <1>0
  <1>3. \A i \in 1..(Len(t) - n + 1) : SubSeq(t, n, Len(t))[i] = t[n + i - 1]
    BY <1>0, <1>2, SubSeqProperties
  <1>4. 1 \in 1..(Len(t) - n + 1) /\ n + 1 - 1 = n
    BY <1>0, <1>1
  <1> QED BY <1>1, <1>3, <1>4

\* commandTarget finds the word that the command builtin looks up.
LEMMA CommandLooksUp ==
  ASSUME NEW call \in Seq(STRING), NEW t, Follows(t, call), call[1] = "command"
  PROVE  LooksUp(call, commandTarget(t))
  <1> SUFFICES ASSUME commandTarget(t) # << >>
               PROVE  \E k \in DOMAIN call : Invokes(call, k) /\ commandTarget(t)[1] = call[k]
    BY DEF LooksUp
  <1> DEFINE rest == {n \in 1..(Len(t) + 1) : \A i \in 1..(n - 1) : t[i] \in Dashed}
  <1> DEFINE n == CHOOSE n \in rest : \A m \in rest : m =< n
  <1>0. t \in Seq(STRING) /\ Len(t) \in Nat /\ Len(call) \in Nat /\ Len(t) < Len(call) /\ DOMAIN call = 1..Len(call)
    BY LenProperties DEF Follows
  <1>1. rest \in SUBSET Nat /\ rest # {} /\ \A m \in rest : m =< Len(t) + 1
    <2>1. 1 \in rest
      BY <1>0
    <2> QED BY <1>0, <2>1
  <1>2. n \in rest /\ \A m \in rest : m =< n
    <2>1. Len(t) + 1 \in Nat
      BY <1>0
    <2> HIDE DEF rest
    <2>2. \E m \in rest : \A k \in rest : k =< m
      BY <1>1, <2>1, Largest
    <2> QED BY <2>2
  <1>3. ~\E i \in 1..(n - 1) : t[i] = "-v"
    BY DEF commandTarget
  <1>4. commandTarget(t) = SubSeq(t, n, Len(t))
    BY <1>3 DEF commandTarget
  <1> HIDE DEF n
  <1>5. n \in 1..(Len(t) + 1) /\ \A i \in 1..(n - 1) : t[i] \in Dashed
    BY <1>2
  <1>6. n =< Len(t) /\ commandTarget(t)[1] = t[n]
    BY <1>0, <1>4, <1>5, RestFirst
  <1>7. t[n] \notin Dashed
    <2> SUFFICES ASSUME t[n] \in Dashed PROVE FALSE
      OBVIOUS
    <2>1. n + 1 \in 1..(Len(t) + 1) /\ ~(n + 1 =< n) /\ n + 1 - 1 = n
      BY <1>0, <1>5, <1>6
    <2>2. \A i \in 1..n : i = n \/ i \in 1..(n - 1)
      BY <1>5
    <2>3. \A i \in 1..n : t[i] \in Dashed
      BY <1>5, <2>2
    <2>4. n + 1 \in rest
      <3>1. \A i \in 1..((n + 1) - 1) : t[i] \in Dashed
        <4>1. 1..((n + 1) - 1) = 1..n
          BY <1>5
        <4> QED BY <2>3, <4>1
      <3> QED BY <2>1, <3>1
    <2> HIDE DEF rest
    <2> QED BY <1>2, <2>1, <2>4
  <1> DEFINE k == n + 1
  <1>8. k \in 1..Len(call) /\ k > 1 /\ n \in 1..Len(t) /\ \A i \in 2..(k - 1) : i - 1 \in 1..(n - 1) /\ (i - 1) + 1 = i
    BY <1>0, <1>5, <1>6
  <1>9. call[k] = t[n] /\ \A i \in 2..(k - 1) : call[i] = t[i - 1]
    <2>1. \A j \in 1..Len(t) : t[j] = call[j + 1]
      BY DEF Follows
    <2>2. \A i \in 2..(k - 1) : i - 1 \in 1..Len(t)
      BY <1>0, <1>5, <1>8
    <2> QED BY <1>8, <2>1, <2>2
  <1>10. \A i \in 2..(k - 1) : call[i] \in Dashed \ {"-v"}
    BY <1>3, <1>5, <1>8, <1>9
  <1> HIDE DEF k
  <1>11. Invokes(call, k)
    BY <1>7, <1>8, <1>9, <1>10 DEF Invokes
  <1> QED BY <1>0, <1>6, <1>8, <1>9, <1>11

\* f is execTarget's walk over the options of exec, from its position i on.
IsWalk(f, t, lo) ==
  f = [i \in lo..(Len(t) + 2) |->
         IF i > Len(t) \/ t[i] \notin Dashed THEN i
         ELSE IF t[i] = "-a" /\ i < Len(t) THEN f[i + 2] ELSE f[i + 1]]

\* There is such a walk, by induction on how much of the words is left.
LEMMA WalkExists ==
  ASSUME NEW t \in Seq(STRING)
  PROVE  \E f : IsWalk(f, t, 1)
  <1> DEFINE L == Len(t)
  <1> DEFINE T == {m \in 0..L : ~\E f : IsWalk(f, t, L + 1 - m)}
  <1>0. L \in Nat
    OBVIOUS
  <1>1. L \notin T => \E f : IsWalk(f, t, 1)
    <2>1. L + 1 - L = 1 /\ L \in 0..L
      BY <1>0
    <2> QED BY <2>1
  <1> SUFFICES ASSUME T # {} PROVE FALSE
    BY <1>1
  <1>2. PICK m \in T : \A k \in T : m =< k
    <2>1. T \in SUBSET Nat
      BY <1>0
    <2> HIDE DEF T
    <2> QED BY <2>1, Smallest
  <1>3. m \in 0..L /\ ~\E f : IsWalk(f, t, L + 1 - m)
    OBVIOUS
  <1>4. CASE m = 0
    <2> DEFINE f == [i \in (L + 1)..(L + 2) |-> i]
    <2>1. \A i \in (L + 1)..(L + 2) : i > L
      BY <1>0
    <2>2. f = [i \in (L + 1)..(L + 2) |->
                IF i > L \/ t[i] \notin Dashed THEN i
                ELSE IF t[i] = "-a" /\ i < L THEN f[i + 2] ELSE f[i + 1]]
      BY <2>1
    <2>3. L + 1 - m = L + 1
      BY <1>0, <1>4
    <2> HIDE DEF f
    <2>4. IsWalk(f, t, L + 1 - m)
      BY <2>2, <2>3 DEF IsWalk
    <2> QED BY <1>3, <2>4
  <1>5. CASE m # 0
    <2> DEFINE lo == L + 1 - m
    <2>1. m - 1 \in 0..L /\ ~(m =< m - 1) /\ L + 1 - (m - 1) = lo + 1 /\ lo \in 1..L
      BY <1>0, <1>3, <1>5
    <2>2. m - 1 \notin T
      <3> HIDE DEF T
      <3> QED BY <1>2, <2>1
    <2>3. PICK g : IsWalk(g, t, lo + 1)
      <3>1. \E g : IsWalk(g, t, L + 1 - (m - 1))
        BY <2>1, <2>2
      <3> QED BY <2>1, <3>1
    <2> DEFINE first == IF lo > L \/ t[lo] \notin Dashed THEN lo
                        ELSE IF t[lo] = "-a" /\ lo < L THEN g[lo + 2] ELSE g[lo + 1]
    <2> DEFINE f == [i \in lo..(L + 2) |-> IF i = lo THEN first ELSE g[i]]
    <2> HIDE DEF first, lo
    <2>4. \A i \in (lo + 1)..(L + 2) :
            g[i] = IF i > L \/ t[i] \notin Dashed THEN i
                   ELSE IF t[i] = "-a" /\ i < L THEN g[i + 2] ELSE g[i + 1]
      BY <2>3 DEF IsWalk
    <2>5. \A i \in (lo + 1)..(L + 2) : f[i] = g[i]
      BY <1>0, <2>1
    <2>6. f[lo] = first /\ (lo =< L => lo + 1 \in (lo + 1)..(L + 2)) /\ (lo =< L => lo + 2 \in (lo + 1)..(L + 2))
      BY <1>0, <2>1
    <2>7. ASSUME NEW i \in lo..(L + 2)
          PROVE  f[i] = IF i > L \/ t[i] \notin Dashed THEN i
                        ELSE IF t[i] = "-a" /\ i < L THEN f[i + 2] ELSE f[i + 1]
      <3>1. CASE i = lo
        <4>1. f[lo + 1] = g[lo + 1] /\ f[lo + 2] = g[lo + 2]
          BY <2>1, <2>5, <2>6
        <4> HIDE DEF f
        <4> QED BY <2>6, <3>1, <4>1 DEF first
      <3>2. CASE i # lo
        <4>1. i \in (lo + 1)..(L + 2) /\ (~(i > L) => i + 1 \in (lo + 1)..(L + 2) /\ i + 2 \in (lo + 1)..(L + 2))
          BY <1>0, <2>1, <3>2
        <4> HIDE DEF f
        <4> QED BY <2>4, <2>5, <4>1
      <3> QED BY <3>1, <3>2
    <2>8. IsWalk(f, t, lo)
      <3>1. f = [i \in lo..(L + 2) |-> f[i]]
        OBVIOUS
      <3> HIDE DEF f
      <3> QED BY <2>7, <3>1 DEF IsWalk
    <2> QED BY <1>3, <2>8 DEF lo
  <1> QED BY <1>4, <1>5

\* Of the words lo..hi, those in taken are arguments of an option; hi is the first
\* word that is neither an option nor such an argument.
Walked(t, lo, hi, taken) ==
  /\ taken \subseteq (lo + 1)..(hi - 1) /\ t[hi] \notin Dashed
  /\ \A x \in (lo + 1)..hi : x \in taken <=> t[x - 1] = "-a" /\ x - 1 \notin taken
  /\ \A x \in (lo..(hi - 1)) \ taken : t[x] \in Dashed

\* Where the walk ends, it has seen options and their arguments only.
LEMMA WalkEnds ==
  ASSUME NEW t \in Seq(STRING), NEW f, IsWalk(f, t, 1)
  PROVE  /\ f[1] \in Nat /\ f[1] >= 1
         /\ f[1] =< Len(t) => \E taken : Walked(t, 1, f[1], taken)
  <1> DEFINE L == Len(t)
  <1> DEFINE Good(i) == /\ f[i] \in Nat /\ f[i] >= i
                        /\ f[i] =< L => \E taken : Walked(t, i, f[i], taken)
  <1> DEFINE T == {m \in 0..L : ~Good(L + 1 - m)}
  <1>0. L \in Nat
    OBVIOUS
  <1>s. \A i \in 1..(L + 2) : f[i] = IF i > L \/ t[i] \notin Dashed THEN i
                                     ELSE IF t[i] = "-a" /\ i < L THEN f[i + 2] ELSE f[i + 1]
    BY DEF IsWalk
  <1>1. L \notin T => Good(1)
    <2>1. L + 1 - L = 1 /\ L \in 0..L
      BY <1>0
    <2> HIDE DEF Good
    <2> QED BY <2>1
  <1> SUFFICES ASSUME T # {} PROVE FALSE
    BY <1>1
  <1>2. PICK m \in T : \A k \in T : m =< k
    <2>1. T \in SUBSET Nat
      BY <1>0
    <2> HIDE DEF T
    <2> QED BY <2>1, Smallest
  <1> DEFINE i == L + 1 - m
  <1>3. m \in 0..L /\ ~Good(i) /\ i \in 1..(L + 1)
    BY <1>0
  <1>4. \A j \in (i + 1)..(L + 1) : Good(j)
    <2> SUFFICES ASSUME NEW j \in (i + 1)..(L + 1) PROVE Good(j)
      OBVIOUS
    <2> HIDE DEF Good
    <2>1. L + 1 - j \in 0..L /\ ~(m =< L + 1 - j) /\ L + 1 - (L + 1 - j) = j
      BY <1>0, <1>3
    <2>2. L + 1 - j \notin T
      <3> HIDE DEF T
      <3> QED BY <1>2, <2>1
    <2> QED BY <2>1, <2>2
  <1> HIDE DEF i, T
  <1>5. CASE i > L \/ t[i] \notin Dashed
    <2>1. f[i] = i /\ i \in Nat /\ i >= i
      BY <1>0, <1>3, <1>5, <1>s
    <2>2. i =< L => Walked(t, i, i, {})
      <3> SUFFICES ASSUME i =< L PROVE Walked(t, i, i, {})
        OBVIOUS
      <3>1. t[i] \notin Dashed /\ (i + 1)..i = {} /\ i..(i - 1) = {}
        BY <1>0, <1>3, <1>5
      <3> QED BY <3>1 DEF Walked
    <2>3. Good(i)
      BY <2>1, <2>2
    <2> QED BY <1>3, <2>3
  <1>6. CASE ~(i > L) /\ t[i] \in Dashed /\ t[i] = "-a" /\ i < L
    <2>1. f[i] = f[i + 2] /\ i + 2 \in (i + 1)..(L + 1)
      BY <1>0, <1>3, <1>6, <1>s
    <2>2. Good(i + 2)
      BY <1>4, <2>1
    <2> DEFINE j == f[i + 2]
    <2>3. j \in Nat /\ j >= i + 2
      BY <2>2
    <2>4. ASSUME j =< L PROVE \E taken : Walked(t, i, j, taken)
      <3>1. PICK A : Walked(t, i + 2, j, A)
        BY <2>2, <2>4
      <3> DEFINE B == A \cup {i + 1}
      <3>2. A \subseteq (i + 2 + 1)..(j - 1) /\ t[j] \notin Dashed
        BY <3>1 DEF Walked
      <3> HIDE DEF j
      <3>3. B \subseteq (i + 1)..(j - 1)
        BY <1>3, <2>3, <3>2
      <3>4. \A x \in (i + 1)..j : x \in B <=> t[x - 1] = "-a" /\ x - 1 \notin B
        <4> SUFFICES ASSUME NEW x \in (i + 1)..j PROVE x \in B <=> t[x - 1] = "-a" /\ x - 1 \notin B
          OBVIOUS
        <4>1. CASE x = i + 1
          <5>1. x - 1 = i /\ i \notin A /\ i # i + 1
            BY <1>3, <2>3, <3>2, <4>1
          <5> QED BY <1>6, <4>1, <5>1
        <4>2. CASE x = i + 2
          <5>1. x - 1 = i + 1 /\ x \notin A /\ x # i + 1
            BY <1>3, <2>3, <3>2, <4>2
          <5> QED BY <5>1
        <4>3. CASE x # i + 1 /\ x # i + 2
          <5>1. x \in (i + 2 + 1)..j /\ x - 1 # i + 1
            BY <1>3, <2>3, <4>3
          <5>2. x \in A <=> t[x - 1] = "-a" /\ x - 1 \notin A
            BY <3>1, <5>1 DEF Walked
          <5> QED BY <4>3, <5>1, <5>2
        <4> QED BY <4>1, <4>2, <4>3
      <3>5. \A x \in (i..(j - 1)) \ B : t[x] \in Dashed
        <4> SUFFICES ASSUME NEW x \in (i..(j - 1)) \ B PROVE t[x] \in Dashed
          OBVIOUS
        <4>1. x = i \/ x \in ((i + 2)..(j - 1)) \ A
          BY <1>3, <2>3
        <4> QED BY <1>6, <3>1, <4>1 DEF Walked
      <3>6. Walked(t, i, j, B)
        <4> HIDE DEF B
        <4> QED BY <3>2, <3>3, <3>4, <3>5 DEF Walked
      <3> QED BY <3>6
    <2>5. Good(i)
      <3>1. j \in Nat /\ j >= i /\ f[i] = j
        BY <1>3, <2>1, <2>3
      <3> HIDE DEF j
      <3> QED BY <2>4, <3>1
    <2> QED BY <1>3, <2>5
  <1>7. CASE ~(i > L) /\ t[i] \in Dashed /\ ~(t[i] = "-a" /\ i < L)
    <2>1. f[i] = f[i + 1] /\ i + 1 \in (i + 1)..(L + 1)
      BY <1>0, <1>3, <1>7, <1>s
    <2>2. Good(i + 1)
      BY <1>4, <2>1
    <2> DEFINE j == f[i + 1]
    <2>3. j \in Nat /\ j >= i + 1
      BY <2>2
    <2>4. ASSUME j =< L PROVE \E taken : Walked(t, i, j, taken)
      <3>1. PICK A : Walked(t, i + 1, j, A)
        BY <2>2, <2>4
      <3>2. A \subseteq (i + 1 + 1)..(j - 1) /\ t[j] \notin Dashed
        BY <3>1 DEF Walked
      <3> HIDE DEF j
      <3>3. A \subseteq (i + 1)..(j - 1) /\ i + 1 \notin A /\ t[i] # "-a"
        BY <1>0, <1>3, <1>7, <2>3, <2>4, <3>2
      <3>4. \A x \in (i + 1)..j : x \in A <=> t[x - 1] = "-a" /\ x - 1 \notin A
        <4> SUFFICES ASSUME NEW x \in (i + 1)..j PROVE x \in A <=> t[x - 1] = "-a" /\ x - 1 \notin A
          OBVIOUS
        <4>1. CASE x = i + 1
          <5>1. x - 1 = i
            BY <1>3, <4>1
          <5> QED BY <3>3, <4>1, <5>1
        <4>2. CASE x # i + 1
          <5>1. x \in (i + 1 + 1)..j
            BY <1>3, <2>3, <4>2
          <5> QED BY <3>1, <5>1 DEF Walked
        <4> QED BY <4>1, <4>2
      <3>5. \A x \in (i..(j - 1)) \ A : t[x] \in Dashed
        <4> SUFFICES ASSUME NEW x \in (i..(j - 1)) \ A PROVE t[x] \in Dashed
          OBVIOUS
        <4>1. x = i \/ x \in ((i + 1)..(j - 1)) \ A
          BY <1>3, <2>3
        <4> QED BY <1>7, <3>1, <4>1 DEF Walked
      <3>6. Walked(t, i, j, A)
        BY <3>2, <3>3, <3>4, <3>5 DEF Walked
      <3> QED BY <3>6
    <2>5. Good(i)
      <3>1. j \in Nat /\ j >= i /\ f[i] = j
        BY <1>3, <2>1, <2>3
      <3> HIDE DEF j
      <3> QED BY <2>4, <3>1
    <2> QED BY <1>3, <2>5
  <1> QED BY <1>5, <1>6, <1>7

\* execTarget finds the word that exec looks up, in a call without combined options.
LEMMA ExecLooksUp ==
  ASSUME NEW call \in Seq(STRING), NEW t, Follows(t, call), call[1] = "exec",
         \A i \in DOMAIN call : call[i] # "-la"
  PROVE  LooksUp(call, execTarget(t))
  <1> SUFFICES ASSUME execTarget(t) # << >>
               PROVE  \E k \in DOMAIN call : Invokes(call, k) /\ execTarget(t)[1] = call[k]
    BY DEF LooksUp
  <1> DEFINE f == CHOOSE f : IsWalk(f, t, 1)
  <1>0. t \in Seq(STRING) /\ Len(t) \in Nat /\ Len(call) \in Nat /\ Len(t) < Len(call) /\ DOMAIN call = 1..Len(call)
    BY LenProperties DEF Follows
  <1>1. IsWalk(f, t, 1)
    BY <1>0, WalkExists
  <1>2. execTarget(t) = SubSeq(t, f[1], Len(t))
    BY DEF execTarget, IsWalk
  <1> HIDE DEF f
  <1> DEFINE j == f[1]
  <1>3. j \in Nat /\ j >= 1 /\ (j =< Len(t) => \E taken : Walked(t, 1, j, taken))
    BY <1>0, <1>1, WalkEnds
  <1>4. j =< Len(t) /\ execTarget(t)[1] = t[j]
    BY <1>0, <1>2, <1>3, RestFirst
  <1>5. PICK A : Walked(t, 1, j, A)
    BY <1>3, <1>4
  <1> HIDE DEF j
  <1> DEFINE k == j + 1
  <1> DEFINE args == {x + 1 : x \in A}
  <1>6. A \subseteq 2..(j - 1)
    BY <1>5 DEF Walked
  <1>7. \A x \in 1..Len(t) : t[x] = call[x + 1]
    BY DEF Follows
  <1>8. k \in 1..Len(call) /\ k > 1 /\ call[k] = t[j]
    BY <1>0, <1>3, <1>4, <1>7
  <1>9. \A x \in Int : x + 1 \in args <=> x \in A
    <2>1. \A x, y \in Int : x + 1 = y + 1 => x = y
      OBVIOUS
    <2>2. \A x \in A : x \in Int
      BY <1>3, <1>6
    <2> QED BY <2>1, <2>2
  <1>10. args \in SUBSET (2..(k - 1))
    <2>1. \A x \in A : x + 1 \in 2..(k - 1)
      BY <1>3, <1>6
    <2> QED BY <2>1
  <1> HIDE DEF args
  <1>11. \A i \in 2..k : i \in args <=> TakesArgument(call[i - 1]) /\ i - 1 \notin args
    <2> SUFFICES ASSUME NEW i \in 2..k
                 PROVE  i \in args <=> TakesArgument(call[i - 1]) /\ i - 1 \notin args
      OBVIOUS
    <2>1. i - 1 \in 1..j /\ i - 1 \in Int /\ (i - 1) + 1 = i /\ i - 1 \in 1..Len(call)
      BY <1>0, <1>3, <1>4
    <2>2. TakesArgument(call[i - 1]) <=> call[i - 1] = "-a"
      BY <1>0, <2>1 DEF TakesArgument
    <2>3. i \in args <=> i - 1 \in A
      BY <1>9, <2>1
    <2>4. CASE i = 2
      <3>1. i - 1 = 1 /\ 1 \notin A
        BY <1>3, <1>6, <2>4
      <3> QED BY <2>2, <2>3, <3>1
    <2>5. CASE i # 2
      <3>1. i - 1 \in (1 + 1)..j /\ i - 2 \in Int /\ (i - 2) + 1 = i - 1 /\ (i - 1) - 1 = i - 2 /\ i - 2 \in 1..Len(t)
        BY <1>3, <1>4, <1>0, <2>1, <2>5
      <3>2. i - 1 \in A <=> t[(i - 1) - 1] = "-a" /\ (i - 1) - 1 \notin A
        BY <1>5, <3>1 DEF Walked
      <3>3. t[i - 2] = call[i - 1]
        BY <1>7, <3>1
      <3>4. i - 1 \in args <=> i - 2 \in A
        BY <1>9, <3>1
      <3> QED BY <2>2, <2>3, <3>1, <3>2, <3>3, <3>4
    <2> QED BY <2>4, <2>5
  <1>12. \A i \in (2..(k - 1)) \ args : call[i] \in Dashed
    <2> SUFFICES ASSUME NEW i \in (2..(k - 1)) \ args PROVE call[i] \in Dashed
      OBVIOUS
    <2>1. i - 1 \in 1..(j - 1) /\ (i - 1) + 1 = i /\ i - 1 \in Int /\ i - 1 \in 1..Len(t)
      BY <1>0, <1>3, <1>4
    <2>2. i - 1 \notin A
      BY <1>9, <2>1
    <2>3. t[i - 1] \in Dashed
      BY <1>5, <2>1, <2>2 DEF Walked
    <2> QED BY <1>7, <2>1, <2>3
  <1>13. t[j] \notin Dashed
    BY <1>5 DEF Walked
  <1> HIDE DEF k
  <1>14. Invokes(call, k)
    BY <1>8, <1>10, <1>11, <1>12, <1>13 DEF Invokes
  <1> QED BY <1>0, <1>4, <1>8, <1>14

\* What preflight takes for the executable of a simple command is a name of a word
\* that the shell looks up as a command (visibleExecutables).
LEMMA VisibleIsInvoked ==
  ASSUME NEW call \in Seq(STRING), \A i \in DOMAIN call : call[i] # "-la", NEW w \in visibleExecutable(call)
  PROVE  \E k \in DOMAIN call : Invokes(call, k) /\ w \in catalogExecutableName(call[k])
  <1> DEFINE args == literalArgs(call)
  <1> DEFINE target == IF args = << >> THEN << >>
                       ELSE IF args[1] = "command" THEN commandTarget(Tail(args))
                       ELSE IF args[1] = "exec" THEN execTarget(Tail(args)) ELSE args
  <1>1. target # << >> /\ w \in catalogExecutableName(target[1])
    BY DEF visibleExecutable
  <1>2. args # << >> /\ Begins(args, call)
    BY <1>1, LiteralBegins
  <1>3. Follows(Tail(args), call) /\ args[1] = call[1] /\ 1 \in DOMAIN call
    BY <1>2, TailFollows
  <1> HIDE DEF args
  <1>4. LooksUp(call, target)
    <2>1. CASE args[1] = "command"
      BY <1>2, <1>3, <2>1, CommandLooksUp
    <2>2. CASE args[1] = "exec"
      BY <1>2, <1>3, <2>2, ExecLooksUp
    <2>3. CASE args[1] \notin {"command", "exec"}
      <3>1. Invokes(call, 1)
        BY <1>3, <2>3 DEF Invokes
      <3>2. target = args
        BY <1>2, <2>3
      <3> HIDE DEF target
      <3> QED BY <1>3, <3>1, <3>2 DEF LooksUp
    <2> QED BY <2>1, <2>2, <2>3
  <1> HIDE DEF target
  <1> QED BY <1>1, <1>4 DEF LooksUp

-----------------------------------------------------------------------------
(* The refusals.                                                           *)

\* A request that was refused is one that the running process does not accept: it is
\* not reconfigured once the request is decided.
Refused ==
  /\ spec \in SudoRequestSpec
  /\ status.phase \in {"rejected", "Denied"} => ~Accepts(spec, config)

\* Only the two checks refuse, and nothing they looked at changes afterwards.
LEMMA RefusedInvariant == Spec => []Refused
  <1>1. Init => Refused
    <2> SUFFICES ASSUME Init PROVE Refused
      OBVIOUS
    <2>1. spec \in SudoRequestSpec
      BY SpecsAssumption DEF Init
    <2>2. status.phase = "none"
      BY DEF Init, NewStatus
    <2> QED BY <2>1, <2>2 DEF Refused
  <1>2. TypeOK /\ Refused /\ [Next]_vars => Refused'
    <2> SUFFICES ASSUME TypeOK, Refused, [Next]_vars PROVE Refused'
      OBVIOUS
    <2>0. status \in StatusType
      BY DEF TypeOK
    <2>1. CASE SubmitHTTP \/ CreateDirect
      <3>1. /\ spec' = spec /\ config' = config
            /\ status'.phase \in {"rejected", "Denied"} => ~Accepts(spec, config)
        BY <2>0, <2>1 DEF SubmitHTTP, CreateDirect, StatusType
      <3> QED BY <3>1 DEF Refused
    <2>2. CASE HandleNew
      <3>1. /\ spec' = spec /\ config' = config
            /\ status'.phase \in {"rejected", "Denied"} => ~Accepts(spec, config)
        <4>1. spec' = spec /\ config' = config
          BY <2>2 DEF HandleNew
        <4>2. ~spec.command.parses => ~Accepts(spec, config)
          BY DEF Accepts
        <4>3. PICK image : \/ ~Accepts(spec, config)
                           \/ status' = [status EXCEPT !.image = image, !.phase = "Approved", !.by = "auto-approve"]
                           \/ status' = [status EXCEPT !.image = image, !.phase = "Pending"]
          <5> DEFINE image == IF Preflighted(spec, config) THEN resolveExecutorProfile(spec, config) ELSE ""
          <5> DEFINE resolved == [status EXCEPT !.image = image]
          <5>1. \/ ~Accepts(spec, config)
                \/ status' = [resolved EXCEPT !.phase = "Approved", !.by = "auto-approve"]
                \/ status' = [resolved EXCEPT !.phase = "Pending"]
            BY <2>2, <4>2 DEF HandleNew
          <5> HIDE DEF image
          <5> QED BY <2>0, <5>1 DEF StatusType
        <4> QED BY <2>0, <4>1, <4>3 DEF StatusType
      <3> QED BY <3>1 DEF Refused
    <2>3. CASE ShowPage
      BY <2>3 DEF ShowPage, Refused
    <2>4. CASE Approve
      BY <2>0, <2>4 DEF Approve, Refused, StatusType
    <2>5. CASE CreateJob \/ (\E n \in NamedSecrets : CheckSecret(n))
      <3>1. spec' = spec /\ status'.phase \in {"Approved", "running", "Failed"}
        BY <2>0, <2>5 DEF CreateJob, CheckSecret, Refuse, StatusType, TypeOK
      <3> QED BY <3>1 DEF Refused
    <2>6. CASE \/ FindJob \/ CallFails
               \/ (\E c \in Configs : Restart(c)) \/ (\E n \in NamedSecrets : SecretChanges(n))
      <3>1. spec' = spec /\ status' = status /\ status.phase \in {"New", "Pending", "Approved"}
        BY <2>6 DEF FindJob, CallFails, Restart, SecretChanges, TypeOK
      <3> QED BY <3>1 DEF Refused
    <2>7. CASE UNCHANGED vars
      BY <2>7 DEF vars, Refused
    <2> QED BY <2>1, <2>2, <2>3, <2>4, <2>5, <2>6, <2>7 DEF Next
  <1>3. IInv => TypeOK
    BY DEF IInv
  <1> QED BY <1>1, <1>2, <1>3, PodInvariant, PTL DEF Spec

-----------------------------------------------------------------------------
(* The theorems.                                                           *)

\* The request, its pages and its Job stay of their types; there is a Job exactly while
\* the request runs.
THEOREM PodTypeCorrect == Spec => []TypeOK
  <1>1. IInv => TypeOK
    BY DEF IInv
  <1> QED BY <1>1, PodInvariant, PTL

\* The pod that runs is the one that was approved, whatever process builds it
\* (displayPodTemplate, imageFor and ResolvedImage).
THEOREM ApprovedPodRuns == Spec => []ApprovedIsExecuted
  <1>1. IInv => ApprovedIsExecuted
    <2> SUFFICES ASSUME IInv, job # NoPod
                 PROVE  /\ job = [approved.pod EXCEPT !.command = job.command]
                        /\ job.command.words = approved.pod.command.words
                        /\ config = approved.config => job = approved.pod
      BY DEF ApprovedIsExecuted
    <2>1. /\ job = buildExecutorJob(spec, status, config) /\ status.image # ""
          /\ approved.pod = buildExecutorJob(spec, status, approved.config)
      BY DEF IInv, TypeOK, Pages, Jobs, Built, Passed
    <2>2. \A c : imageFor(spec, status, c) = status.image
      BY <2>1 DEF imageFor
    <2> DEFINE pod == buildExecutorJob(spec, status, config)
    <2> DEFINE Rest(cmd) ==
          [image |-> status.image, command |-> cmd, executor |-> pod.executor, inits |-> pod.inits,
           volumes |-> pod.volumes, formats |-> pod.formats, sa |-> pod.sa, namespace |-> pod.namespace, pulls |-> pod.pulls,
           ttl |-> pod.ttl, owned |-> pod.owned]
    <2>3. \A c : buildExecutorJob(spec, status, c) = Rest(executorCommand(spec, status, c))
      BY <2>2 DEF buildExecutorJob
    <2>4. \A c, d : [Rest(c) EXCEPT !.command = d] = Rest(d) /\ Rest(c).command = c
      OBVIOUS
    <2> HIDE DEF Rest
    <2>5. job = Rest(executorCommand(spec, status, config))
          /\ approved.pod = Rest(executorCommand(spec, status, approved.config))
      BY <2>1, <2>3
    <2>6. job.command = executorCommand(spec, status, config)
          /\ approved.pod.command = executorCommand(spec, status, approved.config)
      BY <2>4, <2>5
    <2>7. job = [approved.pod EXCEPT !.command = job.command]
      BY <2>4, <2>5, <2>6
    <2>8. job.command.words = approved.pod.command.words
      BY <2>6 DEF executorCommand
    <2> QED BY <2>1, <2>7, <2>8
  <1> QED BY <1>1, PodInvariant, PTL

\* A refusal of the apiserver is about what validation leaves to the requester -- a
\* malformed field, volumes or init containers that clash, the main container's name --
\* never about a mount or what the controller spliced in (validateSpecExtras,
\* buildExecutorJob).
THEOREM SplicingIsAdmitted == Spec => []ValidatedIsAdmitted
  <1>1. IInv => ValidatedIsAdmitted
    <2> SUFFICES ASSUME IInv, status.reason = "invalid"
                 PROVE  \/ ~spec.formats
                        \/ \E i, j \in DOMAIN spec.volumes : i # j /\ spec.volumes[i].name = spec.volumes[j].name
                        \/ \E i \in DOMAIN spec.volumes : Cardinality(spec.volumes[i].sources) > 1
                        \/ \E i, j \in DOMAIN spec.inits : i # j /\ spec.inits[i].name = spec.inits[j].name
                        \/ \E i \in DOMAIN spec.inits : spec.inits[i].name = "executor"
      BY DEF ValidatedIsAdmitted
    <2>1. /\ spec \in SudoRequestSpec /\ validateSpecExtras(spec)
          /\ ~Admitted(buildExecutorJob(spec, status, config))
      BY DEF IInv, Pages, Jobs, Passed
    <2> QED BY <2>1, ValidatedAdmitted
  <1> QED BY <1>1, PodInvariant, PTL

\* Scratch volumes and HOME leave alone what the requester sets and mounts at a path
\* written canonically, in every container (stampScratch).
THEOREM ScratchLeavesAlone == Spec => []ScratchStepsAside
  <1>1. IInv => ScratchStepsAside
    <2> SUFFICES ASSUME IInv, job # NoPod PROVE ScratchStepsAside
      BY DEF ScratchStepsAside
    <2>1. /\ spec \in SudoRequestSpec /\ validateSpecExtras(spec)
          /\ job = buildExecutorJob(spec, status, config)
      BY DEF IInv, TypeOK, Pages, Jobs, Passed
    <2>2. /\ job.executor = stampScratch(WithStdin(spec)).c
          /\ DOMAIN job.inits = DOMAIN spec.inits
          /\ \A i \in DOMAIN spec.inits : job.inits[i] = stampScratch(spec.inits[i]).c
      BY <2>1, PodContainers
    <2> DEFINE Aside(c, asked) ==
          /\ \A i \in ScratchMounts(c), j \in RequesterMounts(c) :
               Under(c.mounts[j].path, c.mounts[i].path) => ~Canonical(c.mounts[j].path)
          /\ c.env # asked.env => /\ c.env = asked.env \cup {HomeVar}
                                 /\ ~hasEnv(asked.env, "HOME") /\ asked.from = {}
                                 /\ hasMountAt(c.mounts, Home)
    <2>3. ASSUME NEW c0, Clean(c0, VolNames(spec)) PROVE Aside(stampScratch(c0).c, c0)
      <3>1. c0 \in Container
        BY <2>3 DEF Clean
      <3> DEFINE d == stampScratch(c0).c
      <3>2. ASSUME NEW i \in ScratchMounts(d), NEW j \in RequesterMounts(d),
                   Canonical(d.mounts[j].path), Under(d.mounts[j].path, d.mounts[i].path)
            PROVE  FALSE
        <4>1. ~IsPrefix(d.mounts[i].path, d.mounts[j].path)
          BY <2>3, StampAside
        <4>2. d.mounts[i].path \in {Tmp, Home} /\ d.mounts[j].path \in Seq(STRING)
          BY <2>3, StampAside
        <4> DEFINE p == d.mounts[j].path
        <4> DEFINE dir == d.mounts[i].path
        <4>3. p \in Seq(STRING) /\ Canonical(p) /\ Under(p, dir)
          BY <3>2, <4>2
        <4>4. dir = Tmp \/ dir = Home
          BY <4>2
        <4>5. ~IsPrefix(dir, p)
          BY <4>1
        <4> HIDE DEF d, p, dir
        <4>6. CleanlyUnder(p, dir)
          BY <4>3, <4>4, Directories DEF CleanlyUnder
        <4> QED BY <4>5, <4>6, CanonicalUnder
      <3>3. d.env # c0.env => /\ d.env = c0.env \cup {HomeVar} /\ ~hasEnv(c0.env, "HOME")
                              /\ c0.from = {} /\ hasMountAt(d.mounts, Home)
        BY <3>1, Stamp
      <3> HIDE DEF d
      <3>4. Aside(d, c0)
        BY <3>2, <3>3
      <3> QED BY <3>4 DEF d
    <2>4. Aside(job.executor, spec.executor)
      <3>1. Aside(job.executor, WithStdin(spec))
        BY <2>1, <2>2, <2>3, ValidatedIsClean
      <3> QED BY <2>1, <3>1, WithStdinMounts
    <2>5. \A i \in DOMAIN job.inits : Aside(job.inits[i], spec.inits[i])
      BY <2>1, <2>2, <2>3, ValidatedIsClean
    <2> QED BY <2>4, <2>5 DEF ScratchStepsAside
  <1> QED BY <1>1, PodInvariant, PTL

\* Whoever approved a pod read the name of every Secret it exposes (newSpecExtrasView,
\* describeVolumeSource).
THEOREM SecretsWereReviewed == Spec => []SecretsReviewed
  <1>1. IInv => SecretsReviewed
    <2> SUFFICES ASSUME IInv, job # NoPod, NEW n \in ExposedSecrets(job) PROVE n \in approved.secrets
      BY DEF SecretsReviewed
    <2>1. /\ spec \in SudoRequestSpec /\ Admitted(job) /\ approved.secrets = ViewedSecrets(spec)
          /\ job = buildExecutorJob(spec, status, config)
      BY DEF IInv, TypeOK, Pages, Jobs, Built, Passed
    <2>2. n \in Secrets
      BY <2>1, ExposedNamed
    <2>3. CASE \E i \in DOMAIN spec.volumes : /\ "secret" \in spec.volumes[i].sources /\ spec.volumes[i].secret = n
                                             /\ i \in DOMAIN job.volumes /\ job.volumes[i] = spec.volumes[i]
      <3>1. PICK i \in DOMAIN spec.volumes : /\ "secret" \in spec.volumes[i].sources /\ spec.volumes[i].secret = n
                                             /\ i \in DOMAIN job.volumes /\ job.volumes[i] = spec.volumes[i]
        BY <2>3
      <3> DEFINE v == spec.volumes[i]
      <3>2. v \in VolumeType
        BY <2>1 DEF SudoRequestSpec
      <3>3. Cardinality(v.sources) = 1 /\ "secret" \in v.sources
        BY <2>1, <3>1 DEF Admitted
      <3> HIDE DEF v
      <3>4. v.sources = {"secret"}
        BY <3>2, <3>3, SourcesFinite, FS_Singleton
      <3>5. describeVolumeSource(v) = {"secret"}
        BY <3>4 DEF describeVolumeSource
      <3>6. i \in {j \in DOMAIN spec.volumes : "secret" \in describeVolumeSource(spec.volumes[j])}
        BY <3>5 DEF v
      <3> QED BY <2>1, <2>2, <3>1, <3>6 DEF ViewedSecrets
    <2>4. CASE n \in EnvSecrets(spec.executor) \/ \E i \in DOMAIN spec.inits : n \in EnvSecrets(spec.inits[i])
      BY <2>1, <2>2, <2>4 DEF ViewedSecrets
    <2> QED BY <2>1, <2>3, <2>4, ExposedNamed
  <1> QED BY <1>1, PodInvariant, PTL

\* A pod without API privileges gets no token Secret and none that may still become
\* one, unless it was deleted between the worker's Get and the Create of the Job
\* (rejectServiceAccountTokenSecrets, findOrCreateJob).
THEOREM TokensStayHidden == Spec => NoTokenExposed
  <1> DEFINE Hidden == job = NoPod /\ job' # NoPod /\ job'.sa.name = "default" =>
                         \A n \in ExposedSecrets(job') : secret[n] = "opaque" \/ n \in worker.swapped
  <1>1. IInv /\ [Next]_vars => [Hidden]_vars
    <2> SUFFICES ASSUME IInv, [Next]_vars, job = NoPod, job' # NoPod, job'.sa.name = "default",
                        NEW n \in ExposedSecrets(job')
                 PROVE  secret[n] = "opaque" \/ n \in worker.swapped
      OBVIOUS
    <2>1. CreateJob
      BY DEF Next, vars, SubmitHTTP, CreateDirect, HandleNew, ShowPage, Approve, FindJob, CallFails,
             CheckSecret, Restart, SecretChanges
    <2>2. job' = buildExecutorJob(spec, status, config) /\ worker.busy /\ worker.left = {}
      BY <2>1 DEF CreateJob
    <2>3. ~clusterAdminEnabled(spec)
      <3>1. job'.sa = executorServiceAccount(spec)
        BY <2>2 DEF buildExecutorJob
      <3> QED BY <3>1 DEF executorServiceAccount
    <2>4. spec \in SudoRequestSpec
      BY DEF IInv, Pages
    <2>5. n \in ReferencedSecrets(spec) \ worker.left
      BY <2>2, <2>4, ExposedNamed DEF ReferencedSecrets
    <2> QED BY <2>2, <2>3, <2>5 DEF IInv, Reads
  <1> QED BY <1>1, PodInvariant, PTL DEF Spec, NoTokenExposed

\* An automatically approved pod has nothing spliced in, and runs as argv
\* (autoApproveTokens).
THEOREM AutoApprovedRunsPlain == Spec => []AutoApprovedIsPlain
  <1>1. IInv => AutoApprovedIsPlain
    <2> SUFFICES ASSUME IInv, job # NoPod, status.by = "auto-approve"
                 PROVE  /\ RequesterMounts(job.executor) = {} /\ job.inits = << >> /\ ExposedSecrets(job) = {}
                        /\ job.pulls = "none" /\ job.namespace = "sudo-service"
                        /\ config = approved.config => ~job.command.shell
      BY DEF AutoApprovedIsPlain
    <2>1. /\ spec \in SudoRequestSpec /\ validateSpecExtras(spec)
          /\ job = buildExecutorJob(spec, status, config)
          /\ autoApproves(spec, status, approved.config) /\ ~hasSpecExtras(spec)
      BY DEF IInv, TypeOK, Pages, Jobs, ByRule, Passed, autoApproves
    <2>2. /\ spec.namespace = "" /\ spec.stdin = "none" /\ spec.executor.env = {} /\ spec.executor.from = {}
          /\ spec.executor.mounts = << >> /\ spec.volumes = << >> /\ spec.inits = << >> /\ spec.pulls = "none"
      BY <2>1 DEF hasSpecExtras
    <2>3. job.pulls = "none" /\ job.namespace = "sudo-service"
      BY <2>1, <2>2 DEF buildExecutorJob, executorNamespace
    <2>4. config = approved.config => ~job.command.shell
      <3>1. job.command = executorCommand(spec, status, config)
        BY <2>1 DEF buildExecutorJob
      <3> QED BY <2>1, <3>1 DEF executorCommand
    <2>5. job.inits = << >>
      <3>1. job.inits = [i \in DOMAIN spec.inits |-> Stamped(spec).inits[i].c]
        BY <2>1 DEF buildExecutorJob
      <3>2. DOMAIN spec.inits = {}
        BY <2>2, EmptyDomain
      <3> QED BY <3>1, <3>2, EmptyDomain
    <2>6. ExposedSecrets(job) = {}
      <3>1. EnvSecrets(spec.executor) = {}
        BY <2>2 DEF EnvSecrets
      <3>2. DOMAIN spec.inits = {} /\ DOMAIN spec.volumes = {}
        BY <2>2, EmptyDomain
      <3> QED BY <2>1, <3>1, <3>2, ExposedNamed
    <2>7. RequesterMounts(job.executor) = {}
      <3> DEFINE c == WithStdin(spec)
      <3> DEFINE d == job.executor
      <3>1. c \in Container /\ Len(c.mounts) = 0
        <4>1. DOMAIN spec.executor.mounts = {}
          BY <2>2, EmptyDomain
        <4>2. \A i \in DOMAIN c.mounts : FALSE
          BY <2>1, <2>2, <4>1, WithStdinMounts
        <4>3. c \in Container /\ DOMAIN c.mounts = 1..Len(c.mounts) /\ Len(c.mounts) \in Nat
          BY <2>1, WithStdinMounts
        <4>4. 1 \notin 1..Len(c.mounts)
          BY <4>2, <4>3
        <4> HIDE DEF c
        <4> QED BY <4>3, <4>4
      <3>2. d = stampScratch(c).c
        BY <2>1, PodContainers
      <3> HIDE DEF c, d
      <3>3. /\ d.mounts \in Seq(Mountable \cup {TmpMount, HomeMount})
            /\ \A i \in 1..Len(d.mounts) : d.mounts[i] \in {TmpMount, HomeMount}
        BY <3>1, <3>2, Stamp
      <3>4. \A i \in DOMAIN d.mounts : d.mounts[i].name \in reservedVolumeNames
        BY <3>3 DEF TmpMount, HomeMount, Mount, reservedVolumeNames
      <3> QED BY <3>4 DEF RequesterMounts, d
    <2> QED BY <2>3, <2>4, <2>5, <2>6, <2>7
  <1> QED BY <1>1, PodInvariant, PTL

\* A refusal by preflight is right about the command: some simple command invokes, as
\* the shell reads it, an executable the profile lacks, or sets pipefail
\* (visibleExecutables; exec's combined options excepted).
THEOREM RefusalsAreRight == Spec => []PreflightSound
  <1>1. Refused => PreflightSound
    <2> DEFINE calls == spec.command.calls
    <2> DEFINE entry == ProfileEntry(spec, config)
    <2> SUFFICES ASSUME Refused, spec.command.parses, validateSpecExtras(spec),
                        ResolvesProfile(spec, config), status.phase \in {"rejected", "Denied"},
                        ~\E i \in DOMAIN calls : Contains(calls[i], "-la"),
                        ~commandUsesPipefail(spec.command)
                 PROVE  \E i \in DOMAIN calls : \E k \in DOMAIN calls[i] :
                          Invokes(calls[i], k) /\ catalogExecutableName(calls[i][k]) \cap entry.absent # {}
      BY DEF PreflightSound
    <2>1. ~preflightOK(spec.command, entry)
      BY DEF Refused, Accepts, Preflighted
    <2>2. PICK w \in visibleExecutables(spec.command) : w \in entry.absent
      <3> HIDE DEF entry
      <3> QED BY <2>1 DEF preflightOK
    <2>3. PICK i \in DOMAIN calls : w \in visibleExecutable(calls[i])
      BY DEF visibleExecutables
    <2>4. calls[i] \in Seq(STRING)
      <3>1. calls \in Seq(Seq(STRING))
        BY DEF Refused, SudoRequestSpec
      <3> HIDE DEF calls
      <3> QED BY <3>1
    <2>5. \A j \in DOMAIN calls[i] : calls[i][j] # "-la"
      <3>1. ~Contains(calls[i], "-la")
        OBVIOUS
      <3> HIDE DEF calls
      <3>2. DOMAIN calls[i] = 1..Len(calls[i])
        BY <2>4, LenProperties
      <3> QED BY <3>1, <3>2 DEF Contains
    <2> HIDE DEF calls, entry
    <2>6. PICK k \in DOMAIN calls[i] : Invokes(calls[i], k) /\ w \in catalogExecutableName(calls[i][k])
      BY <2>3, <2>4, <2>5, VisibleIsInvoked
    <2>7. catalogExecutableName(calls[i][k]) \cap entry.absent # {}
      BY <2>2, <2>6
    <2> QED BY <2>6, <2>7
  <1> QED BY <1>1, RefusedInvariant, PTL

=============================================================================
