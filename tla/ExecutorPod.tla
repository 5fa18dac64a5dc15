---------------------------- MODULE ExecutorPod ----------------------------
(***************************************************************************)
(* From a submitted spec to the pod that runs: validation (validation.go,  *)
(* decode.go, profiles.go), automatic approval (auto_approve.go), the      *)
(* review page (review.go) and the Job built after approval (executor.go). *)
(*                                                                         *)
(* The spec of a request never changes; what may change between its        *)
(* stages is the process that looks at it (a restart with other rules or   *)
(* another profile catalog) and the Secrets the spec names.  A mount path  *)
(* is the string the requester wrote, split at its slashes and not cleaned:*)
(* "/tmp/" is <<"", "tmp", "">>, so that two paths are equal as strings    *)
(* exactly when they are as sequences, and p has the prefix dir + "/"      *)
(* exactly when dir is a proper prefix of p.                               *)
(***************************************************************************)
EXTENDS CommandPreflight, Integers, FiniteSets

CONSTANTS
  Specs,      \* the requests to explore
  Configs,    \* auto-approve rules and profile catalogs of the processes to explore
  Secrets,    \* names of Secrets in the executor namespace
  MaxRestarts, \* bound: restarts with another configuration
  MaxSwaps    \* bound: deletions and creations of a Secret

\* The volume sources the controller knows, and one for all others.
VolumeSources == {"emptyDir", "secret", "configMap", "pvc", "hostPath", "projected", "nfs"}

VolumeType == [name: STRING, sources: SUBSET VolumeSources, secret: STRING]
EnvVarType == [name: STRING, secret: STRING]
MountType == [name: STRING, path: Seq(STRING), plain: BOOLEAN]
ExecutorType == [env: SUBSET EnvVarType, from: SUBSET STRING, mounts: Seq(MountType)]
InitType == [name: STRING, shape: STRING,
             env: SUBSET EnvVarType, from: SUBSET STRING, mounts: Seq(MountType)]

\* What a request may ask for; from holds the names of its envFrom sources, formats
\* says that every field the requester wrote satisfies the apiserver's own rules for
\* it (DNS labels, required and exclusive subfields, relative subpaths).
SudoRequestSpec ==
  [command: [parses: BOOLEAN, calls: Seq(Seq(STRING))],
   image: STRING, profile: STRING, namespace: STRING,
   clusterAdmin: {"unset", "yes", "no"}, stdin: {"none", "some", "oversized"},
   decodes: BOOLEAN, formats: BOOLEAN, volumes: Seq(VolumeType),
   executor: ExecutorType, inits: Seq(InitType),
   pulls: {"none", "named", "nameless"}, ttl: SUBSET Int]

ASSUME BoundsAssumption == MaxRestarts \in Nat /\ MaxSwaps \in Nat

\* A profile has an image, and a Secret has a name.
ASSUME ConfigsAssumption ==
  \A c \in Configs : /\ "kubectl" \in DOMAIN c.catalog
                     /\ \A p \in DOMAIN c.catalog : c.catalog[p].image \in STRING \ {""}
ASSUME SpecsAssumption == Specs \subseteq SudoRequestSpec /\ "" \notin Secrets

VARIABLES
  config,   \* rules and catalog of the running process
  spec,     \* the request
  status,   \* its phase, who decided, the resolved image, why it failed
  shown,    \* the last review page: the pod it displayed, the Secrets it listed
  approved, \* what was approved: the pod, the configuration it was built with
  job,      \* the pod of the executor Job, NoPod before there is one
  secret,   \* the type of each Secret
  worker,   \* findOrCreateJob: the Secrets it has still to read and, for the
            \* properties, those that changed after it had read them
  changes   \* restarts and changes of a Secret so far

vars == <<config, spec, status, shown, approved, job, secret, worker, changes>>

Default == "kubectl"

NoPod == [image |-> ""]

NoPage == [pod |-> NoPod, secrets |-> {}, config |-> [rules |-> {}]]

Idle == [busy |-> FALSE, left |-> {}, swapped |-> {}]

Tmp == <<"", "tmp">>
Home == <<"", "home", "sudo-service">>
StdinDir == <<"", "var", "run", "sudo-service">>

reservedVolumeNames == {"sudo-service-stdin", "sudo-service-tmp", "sudo-service-home"}

ExecutorJobTTL == 3600
ExecutorJobTTLFloor == 120
DefaultPostApproval == 3600

-----------------------------------------------------------------------------
(* Validation.                                                             *)

\* Every raw item of the pod fields unmarshals into its Kubernetes type.
decodePodExtras(s) == s.decodes

\* describeVolumeSource: the description a reviewer reads, by the first source that
\* is set; empty when the source is not on the allowlist.
describeVolumeSource(v) ==
  IF "emptyDir" \in v.sources THEN {"emptyDir"}
  ELSE IF "secret" \in v.sources THEN {"secret"}
  ELSE IF "configMap" \in v.sources THEN {"configMap"}
  ELSE IF "pvc" \in v.sources THEN {"pvc"} ELSE {}

validateVolumeSource(v) ==
  /\ v.name # "" /\ v.sources \cap {"hostPath", "projected"} = {}
  /\ describeVolumeSource(v) # {}

\* Mounts name defined volumes, use no unreviewable field, and share no path.
validateMounts(mounts, volNames, hasStdin) ==
  /\ \A i \in DOMAIN mounts :
       /\ mounts[i].name \in volNames /\ mounts[i].plain
       /\ hasStdin => mounts[i].path # StdinDir
  /\ \A i, j \in DOMAIN mounts : mounts[i].path = mounts[j].path => i = j

Elsewhere(s) == s.namespace \notin {"", "sudo-service"}

validateSpecExtras(s) ==
  LET volNames == {s.volumes[i].name : i \in DOMAIN s.volumes}
                    \cup (IF s.stdin = "none" THEN {} ELSE {"sudo-service-stdin"})
  IN  /\ ~(Elsewhere(s) /\ s.clusterAdmin = "yes")
      /\ s.stdin # "oversized"
      /\ decodePodExtras(s)
      /\ \A i \in DOMAIN s.volumes :
           s.volumes[i].name \notin reservedVolumeNames /\ validateVolumeSource(s.volumes[i])
      /\ \A i \in DOMAIN s.executor.mounts :
           /\ s.executor.mounts[i].name \notin reservedVolumeNames
           /\ s.executor.mounts[i].path # StdinDir
      /\ validateMounts(s.executor.mounts, volNames, s.stdin # "none")
      /\ \A i \in DOMAIN s.inits :
           /\ s.inits[i].shape = "ok"
           /\ \A j \in DOMAIN s.inits[i].mounts :
                s.inits[i].mounts[j].name \notin reservedVolumeNames
           /\ validateMounts(s.inits[i].mounts, volNames, FALSE)
      /\ s.pulls # "nameless"

\* resolveExecutorProfile succeeds: one of profile and image, and a known profile.
ResolvesProfile(s, c) ==
  /\ ~(s.profile # "" /\ s.image # "")
  /\ s.image # "" \/ s.profile \in DOMAIN c.catalog \cup {""}

ProfileEntry(s, c) == c.catalog[IF s.profile = "" THEN Default ELSE s.profile]

resolveExecutorProfile(s, c) == IF s.image # "" THEN s.image ELSE ProfileEntry(s, c).image

\* resolveAndPreflight succeeds.
Preflighted(s, c) ==
  ResolvesProfile(s, c) /\ (s.image # "" \/ preflightOK(s.command, ProfileEntry(s, c)))

Accepts(s, c) == s.command.parses /\ Preflighted(s, c) /\ validateSpecExtras(s)

-----------------------------------------------------------------------------
(* The pod.                                                                *)

\* Mutant: the image is resolved again by whoever asks.
imageForNow(s, st, c) == IF s.image # "" THEN s.image ELSE
                         IF ResolvesProfile(s, c) THEN ProfileEntry(s, c).image
                                                  ELSE c.catalog[Default].image

imageFor(s, st, c) ==
  IF st.image # "" THEN st.image
  ELSE IF s.image # "" THEN s.image
  ELSE IF ResolvesProfile(s, c) THEN ProfileEntry(s, c).image ELSE c.catalog[Default].image

\* Mutant: registry credentials are not counted as an extra.
hasSpecExtrasButPulls(s) ==
  \/ s.namespace # "" \/ s.stdin # "none" \/ s.clusterAdmin # "unset"
  \/ s.executor.env # {} \/ s.executor.from # {} \/ s.executor.mounts # << >>
  \/ s.volumes # << >> \/ s.inits # << >>

hasSpecExtras(s) ==
  \/ s.namespace # "" \/ s.stdin # "none" \/ s.clusterAdmin # "unset"
  \/ s.executor.env # {} \/ s.executor.from # {} \/ s.executor.mounts # << >>
  \/ s.volumes # << >> \/ s.inits # << >> \/ s.pulls # "none"

\* autoApproveTokens: evaluated by the gate in handleNew and again by executorCommand.
autoApproves(s, st, c) ==
  /\ ~hasSpecExtras(s)
  /\ \E rule \in c.rules : ruleMatches(rule, shlexSplit(s.command), imageFor(s, st, c),
                                       c.catalog[Default].image)

executorNamespace(s) == IF s.namespace # "" THEN s.namespace ELSE "sudo-service"

clusterAdminEnabled(s) == executorNamespace(s) = "sudo-service" /\ s.clusterAdmin # "no"

executorServiceAccount(s) ==
  IF clusterAdminEnabled(s) THEN [name |-> "executor", automount |-> TRUE]
                            ELSE [name |-> "default", automount |-> FALSE]

\* The argv of an allowlisted command, or a shell fed with the command text.
executorCommand(s, st, c) ==
  IF autoApproves(s, st, c) THEN [shell |-> FALSE, stdin |-> FALSE, words |-> shlexSplit(s.command)]
  ELSE [shell |-> TRUE, stdin |-> s.stdin # "none", words |-> shlexSplit(s.command)]

Mount(name, path) == [name |-> name, path |-> path, plain |-> TRUE]

HomeVar == [name |-> "HOME", secret |-> ""]

hasEnv(env, name) == \E e \in env : e.name = name

hasMountAt(mounts, dir) == \E i \in DOMAIN mounts : mounts[i].path = dir

\* Mutant: only an exact match counts.
mountsExactlyAt(mounts, dir) == hasMountAt(mounts, dir)

mountsAtOrUnder(mounts, dir) == \E i \in DOMAIN mounts : IsPrefix(dir, mounts[i].path)

If(cond, seq) == IF cond THEN seq ELSE << >>

\* A writable /tmp and HOME, each unless the requester manages that area.
stampScratch(c) ==
  LET usedTmp == ~mountsAtOrUnder(c.mounts, Tmp)
      handsOff == hasEnv(c.env, "HOME") \/ c.from # {}
      usedHome == ~handsOff /\ ~mountsAtOrUnder(c.mounts, Home)
  IN  [c |-> [c EXCEPT
              !.mounts = @ \o If(usedTmp, <<Mount("sudo-service-tmp", Tmp)>>)
                           \o If(usedHome, <<Mount("sudo-service-home", Home)>>),
              !.env = @ \cup IF usedHome \/ (~handsOff /\ hasMountAt(c.mounts, Home))
                             THEN {HomeVar} ELSE {}],
       usedTmp |-> usedTmp, usedHome |-> usedHome]

ttlSecondsAfterApproval(s) ==
  IF s.ttl = {} THEN DefaultPostApproval
  ELSE LET v == CHOOSE v \in s.ttl : TRUE
       IN  IF v < 0 THEN 0 ELSE IF v > ExecutorJobTTL THEN ExecutorJobTTL ELSE v

ScratchVolume(name) == [name |-> name, sources |-> {"emptyDir"}, secret |-> ""]

StdinVolume == [name |-> "sudo-service-stdin", sources |-> {"secret"}, secret |-> ""]

\* The containers of the pod, stdin mounted and scratch stamped, and its volumes.
Stamped(s) ==
  [executor |-> stampScratch([s.executor EXCEPT
                  !.mounts = @ \o If(s.stdin # "none", <<Mount("sudo-service-stdin", StdinDir)>>)]),
   inits |-> [i \in DOMAIN s.inits |-> stampScratch(s.inits[i])]]

\* Mutant: only the executor container's use of a scratch volume is counted.
VolumesForExecutor(s, stamped) ==
  s.volumes \o If(s.stdin # "none", <<StdinVolume>>)
    \o If(stamped.executor.usedTmp, <<ScratchVolume("sudo-service-tmp")>>)
    \o If(stamped.executor.usedHome, <<ScratchVolume("sudo-service-home")>>)

Volumes(s, stamped) ==
  LET all == {stamped.executor} \cup {stamped.inits[i] : i \in DOMAIN stamped.inits}
  IN  s.volumes \o If(s.stdin # "none", <<StdinVolume>>)
        \o If(\E c \in all : c.usedTmp, <<ScratchVolume("sudo-service-tmp")>>)
        \o If(\E c \in all : c.usedHome, <<ScratchVolume("sudo-service-home")>>)

buildExecutorJob(s, st, c) ==
  LET stamped == Stamped(s)
      ttl == ttlSecondsAfterApproval(s)
  IN  [image |-> imageFor(s, st, c), command |-> executorCommand(s, st, c),
       executor |-> stamped.executor.c,
       inits |-> [i \in DOMAIN s.inits |-> stamped.inits[i].c],
       volumes |-> Volumes(s, stamped), formats |-> s.formats,
       sa |-> executorServiceAccount(s), namespace |-> executorNamespace(s), pulls |-> s.pulls,
       ttl |-> IF ttl < ExecutorJobTTLFloor THEN ExecutorJobTTLFloor ELSE ttl,
       owned |-> executorNamespace(s) = "sudo-service"]

Containers(pod) == {pod.executor} \cup {pod.inits[i] : i \in DOMAIN pod.inits}

EnvSecrets(c) == {e.secret : e \in c.env} \cup c.from

\* Mutant: the environment of the init containers is not looked at.
ReferencedByExecutor(s) ==
  ({s.volumes[i].secret : i \in DOMAIN s.volumes} \cup EnvSecrets(s.executor)) \cap Secrets

\* The names that rejectServiceAccountTokenSecrets collects.
ReferencedSecrets(s) ==
  ({s.volumes[i].secret : i \in DOMAIN s.volumes} \cup EnvSecrets(s.executor)
     \cup UNION {EnvSecrets(s.inits[i]) : i \in DOMAIN s.inits}) \cap Secrets

\* Mutant: the rows of the init containers do not show their environment.
ViewedButInits(s) ==
  ({s.volumes[i].secret : i \in DOMAIN s.volumes} \cup EnvSecrets(s.executor)) \cap Secrets

\* newSpecExtrasView: the Secrets the curated rows name.
ViewedSecrets(s) ==
  ({s.volumes[i].secret : i \in {j \in DOMAIN s.volumes :
                                  "secret" \in describeVolumeSource(s.volumes[j])}}
     \cup EnvSecrets(s.executor)
     \cup UNION {EnvSecrets(s.inits[i]) : i \in DOMAIN s.inits}) \cap Secrets

\* External: what the apiserver checks of a pod template -- the fields one by one, then
\* volumes, mounts and container names against each other -- and the executor policy of
\* the TTL.
Admitted(pod) ==
  LET names == {pod.volumes[i].name : i \in DOMAIN pod.volumes}
  IN  /\ Cardinality(names) = Len(pod.volumes)
      /\ \A i \in DOMAIN pod.volumes : Cardinality(pod.volumes[i].sources) = 1
      /\ \A c \in Containers(pod) :
           /\ \A i \in DOMAIN c.mounts : c.mounts[i].name \in names
           /\ Cardinality({c.mounts[i].path : i \in DOMAIN c.mounts}) = Len(c.mounts)
      /\ \A i, j \in DOMAIN pod.inits : pod.inits[i].name = pod.inits[j].name => i = j
      /\ \A i \in DOMAIN pod.inits : pod.inits[i].name # "executor"
      /\ pod.formats /\ pod.pulls # "nameless" /\ pod.ttl =< ExecutorJobTTL

-----------------------------------------------------------------------------
(* The request's way through them.                                         *)

NewStatus == [phase |-> "none", by |-> "", image |-> "", reason |-> ""]

StatusType ==
  [phase: {"none", "rejected", "New", "Pending", "Approved", "Denied", "Failed", "running"},
   by: {"", "syntax-check", "spec-validation", "auto-approve", "human"},
   image: STRING \cup {""}, reason: {"", "disallowedSecret", "invalid"}]

TypeOK ==
  /\ config \in Configs /\ status \in StatusType
  /\ secret \in [Secrets -> {"opaque", "token", "missing"}]
  /\ status.phase \in {"Pending", "Approved", "Failed", "running"} => status.image # ""
  /\ (job # NoPod <=> status.phase = "running")
  /\ worker \in [busy: BOOLEAN, left: SUBSET Secrets, swapped: SUBSET Secrets]
  /\ worker.busy => status.phase = "Approved"
  /\ changes \in [restarts: 0..MaxRestarts, swaps: 0..MaxSwaps]

\* The Secrets the spec names anywhere; others make no difference.
NamedSecrets ==
  ({spec.volumes[i].secret : i \in DOMAIN spec.volumes}
     \cup UNION {EnvSecrets(c) : c \in Containers(spec)}) \cap Secrets

Init ==
  /\ config \in Configs /\ spec \in Specs /\ status = NewStatus
  /\ shown = NoPage /\ approved = NoPage /\ job = NoPod
  /\ secret \in [Secrets -> {"opaque", "token", "missing"}]
  /\ \A n \in Secrets \ NamedSecrets : secret[n] = "opaque"
  /\ worker = Idle /\ changes = [restarts |-> 0, swaps |-> 0]

\* createRequestHandler: the spec is checked before anything is created.
SubmitHTTP ==
  /\ status.phase = "none"
  /\ status' = [status EXCEPT !.phase = IF Accepts(spec, config) THEN "New" ELSE "rejected"]
  /\ UNCHANGED <<config, spec, shown, approved, job, secret, worker, changes>>

\* A request created with kubectl meets its first check in handleNew.
CreateDirect ==
  /\ status.phase = "none"
  /\ status' = [status EXCEPT !.phase = "New"]
  /\ UNCHANGED <<config, spec, shown, approved, job, secret, worker, changes>>

Page(st) == [pod |-> buildExecutorJob(spec, st, config), secrets |-> ViewedSecrets(spec),
             config |-> config]

\* handleNew: deny, approve automatically, or hand over to a human.  The resolved
\* image is recorded with the phase.
HandleNew ==
  LET resolved == [status EXCEPT !.image = IF Preflighted(spec, config)
                                           THEN resolveExecutorProfile(spec, config) ELSE ""]
  IN  /\ status.phase = "New"
      /\ status' =
           IF ~spec.command.parses
           THEN [resolved EXCEPT !.phase = "Denied", !.by = "syntax-check"]
           ELSE IF ~Accepts(spec, config)
           THEN [resolved EXCEPT !.phase = "Denied", !.by = "spec-validation"]
           ELSE IF autoApproves(spec, resolved, config)
           THEN [resolved EXCEPT !.phase = "Approved", !.by = "auto-approve"]
           ELSE [resolved EXCEPT !.phase = "Pending"]
      /\ approved' = IF status'.phase = "Approved" THEN Page(resolved) ELSE approved
      /\ UNCHANGED <<config, spec, shown, job, secret, worker, changes>>

\* renderApprovePage with displayPodTemplate, while the form is offered.
ShowPage ==
  /\ status.phase = "Pending"
  /\ shown' = Page(status)
  /\ UNCHANGED <<config, spec, status, approved, job, secret, worker, changes>>

\* The form on the page that was shown is submitted (ApprovalFlow has the details).
Approve ==
  /\ status.phase = "Pending" /\ shown # NoPage
  /\ status' = [status EXCEPT !.phase = "Approved", !.by = "human"]
  /\ approved' = shown
  /\ UNCHANGED <<config, spec, shown, job, secret, worker, changes>>

\* findOrCreateJob finds no Job.  Where the executor has API privileges there is no
\* Secret to look at.
FindJob ==
  /\ status.phase = "Approved" /\ ~worker.busy
  /\ worker' = [Idle EXCEPT !.busy = TRUE,
                            !.left = IF clusterAdminEnabled(spec) THEN {} ELSE ReferencedSecrets(spec)]
  /\ UNCHANGED <<config, spec, status, shown, approved, job, secret, changes>>

\* A call fails otherwise than below; the reconcile is repeated.
CallFails ==
  /\ worker.busy /\ worker' = Idle
  /\ UNCHANGED <<config, spec, status, shown, approved, job, secret, changes>>

\* A refusal is permanent.
Refuse(reason) ==
  worker' = Idle /\ status' = [status EXCEPT !.phase = "Failed", !.reason = reason]

\* rejectServiceAccountTokenSecrets: one uncached Get for each name, in any order.
CheckSecret(n) ==
  /\ worker.busy /\ n \in worker.left
  /\ \/ secret[n] = "opaque" /\ worker' = [worker EXCEPT !.left = @ \ {n}] /\ UNCHANGED status
     \/ secret[n] # "opaque" /\ Refuse("disallowedSecret")
  /\ UNCHANGED <<config, spec, shown, approved, job, secret, changes>>

\* The Job is created once every Secret has been read.
CreateJob ==
  LET pod == buildExecutorJob(spec, status, config)
  IN  /\ worker.busy /\ worker.left = {}
      /\ \/ /\ Admitted(pod) /\ job' = pod /\ worker' = Idle
            /\ status' = [status EXCEPT !.phase = "running"]
         \/ ~Admitted(pod) /\ Refuse("invalid") /\ UNCHANGED job
      /\ UNCHANGED <<config, spec, shown, approved, secret, changes>>

\* The process restarts with another release or another auto-approve file.
Restart(c) ==
  /\ changes.restarts < MaxRestarts /\ c # config
  /\ status.phase \in {"New", "Pending", "Approved"}
  /\ config' = c /\ worker' = Idle /\ changes' = [changes EXCEPT !.restarts = @ + 1]
  /\ UNCHANGED <<spec, status, shown, approved, job, secret>>

\* Somebody deletes or creates a Secret the spec names; its type is immutable.  Nobody
\* reads a Secret before the approval, so what changes until then is left to Init.
SecretChanges(n) ==
  /\ changes.swaps < MaxSwaps /\ status.phase = "Approved"
  /\ \E t \in {"opaque", "token", "missing"} \ {secret[n]} :
       (t = "missing" \/ secret[n] = "missing") /\ secret' = [secret EXCEPT ![n] = t]
  /\ worker' = IF worker.busy THEN [worker EXCEPT !.swapped = @ \cup ({n} \ worker.left)] ELSE worker
  /\ changes' = [changes EXCEPT !.swaps = @ + 1]
  /\ UNCHANGED <<config, spec, status, shown, approved, job>>

Next ==
  \/ SubmitHTTP \/ CreateDirect \/ HandleNew \/ ShowPage \/ Approve
  \/ FindJob \/ CallFails \/ CreateJob
  \/ \E c \in Configs : Restart(c)
  \/ \E n \in NamedSecrets : CheckSecret(n) \/ SecretChanges(n)

Spec == Init /\ [][Next]_vars

-----------------------------------------------------------------------------
(* Properties.                                                             *)

RequesterMounts(c) == {i \in DOMAIN c.mounts : c.mounts[i].name \notin reservedVolumeNames}

ScratchMounts(c) == {i \in DOMAIN c.mounts :
                       c.mounts[i].name \in {"sudo-service-tmp", "sudo-service-home"}}

\* What runs is what was approved: the pod on the page the human decided on, or the
\* one the allowlist matched.  Everything but the form of the command survives a
\* restart with other rules or another catalog -- the image in particular -- and the
\* command does too when rules and catalog are the ones of the approval
\* (displayPodTemplate, imageFor and ResolvedImage).
ApprovedIsExecuted ==
  job # NoPod => /\ job = [approved.pod EXCEPT !.command = job.command]
                 /\ job.command.words = approved.pod.command.words
                 /\ config = approved.config => job = approved.pod

\* An approved pod is not lost to the apiserver over what the controller spliced into
\* it, nor over its mounts: where it is refused, a field of the requester's own is
\* malformed, two of the requester's volumes or init containers clash, or an init
\* container has taken the name of the main one (validateSpecExtras: "Catch it up
\* front").
ValidatedIsAdmitted ==
  status.reason = "invalid" =>
    \/ ~spec.formats
    \/ \E i, j \in DOMAIN spec.volumes : i # j /\ spec.volumes[i].name = spec.volumes[j].name
    \/ \E i \in DOMAIN spec.volumes : Cardinality(spec.volumes[i].sources) > 1
    \/ \E i, j \in DOMAIN spec.inits : i # j /\ spec.inits[i].name = spec.inits[j].name
    \/ \E i \in DOMAIN spec.inits : spec.inits[i].name = "executor"

\* The components of a path that lead somewhere.
Steps(p) == {i \in DOMAIN p : p[i] \notin {"", "."}}

\* Where a container sees the path -- a relative one is taken from the root -- lies at or
\* below dir, a path of the controller: the k-th step of p is the k-th step of dir.  A
\* ".." is left unread, which only paths that are not canonical have.
Under(p, dir) ==
  \A k \in 2..Len(dir) :
    \E i \in Steps(p) : p[i] = dir[k] /\ Cardinality({j \in Steps(p) : j =< i}) = k - 1

\* An absolute path without empty steps, "." and "..".
Canonical(p) ==
  /\ Len(p) > 1 /\ p[1] = ""
  /\ \A i \in 2..Len(p) : p[i] \notin {"", ".", ".."}

\* Scratch steps aside: a controller volume is mounted above a requester's mount only
\* if that one's path was not written canonically, and the environment is the
\* requester's own, or, where it neither sets nor may import a HOME, has the
\* controller's, which is a mounted directory (stampScratch, which compares strings).
ScratchStepsAside ==
  job # NoPod =>
    \A p \in {<<job.executor, spec.executor>>}
              \cup {<<job.inits[i], spec.inits[i]>> : i \in DOMAIN job.inits} :
      LET c == p[1]  asked == p[2]
      IN  /\ \A i \in ScratchMounts(c), j \in RequesterMounts(c) :
               Under(c.mounts[j].path, c.mounts[i].path) => ~Canonical(c.mounts[j].path)
          /\ c.env # asked.env => /\ c.env = asked.env \cup {HomeVar}
                                 /\ ~hasEnv(asked.env, "HOME") /\ asked.from = {}
                                 /\ hasMountAt(c.mounts, Home)

\* What the pod mounts or reads from Secrets, its own stdin apart.
ExposedSecrets(pod) ==
  ({pod.volumes[i].secret : i \in {j \in DOMAIN pod.volumes : "secret" \in pod.volumes[j].sources}}
     \cup UNION {EnvSecrets(c) : c \in Containers(pod)}) \cap Secrets

\* A pod without API privileges is created with ordinary Secrets only, in any of its
\* containers: each one it exposes exists and is no token, or was so when this very
\* reconcile read it and has been deleted since (rejectServiceAccountTokenSecrets,
\* whose comment accepts that race).
NoTokenExposed ==
  [][job = NoPod /\ job' # NoPod /\ job'.sa.name = "default" =>
       \A n \in ExposedSecrets(job') : secret[n] = "opaque" \/ n \in worker.swapped]_vars

\* Every Secret a running pod exposes was named in the rows the human read, also when
\* a volume was given several sources (describeVolumeSource, newSpecExtrasView).
SecretsReviewed ==
  job # NoPod => ExposedSecrets(job) \subseteq approved.secrets

\* Automatic approval covers command and image only: such a pod has nothing spliced
\* in, and under the rules it was approved by it runs as argv, never through a shell
\* (autoApproveTokens).
AutoApprovedIsPlain ==
  job # NoPod /\ status.by = "auto-approve" =>
    /\ RequesterMounts(job.executor) = {} /\ job.inits = << >> /\ ExposedSecrets(job) = {}
    /\ job.pulls = "none" /\ job.namespace = "sudo-service"
    /\ config = approved.config => ~job.command.shell

\* A refusal by preflight is right about the command: some simple command invokes,
\* as the shell reads it, an executable the profile lacks (or sets pipefail).  Exec's
\* combined options are read wrongly and excepted (visibleExecutables).
PreflightSound ==
  LET combined == \E i \in DOMAIN spec.command.calls : Contains(spec.command.calls[i], "-la")
  IN  /\ spec.command.parses /\ validateSpecExtras(spec) /\ ResolvesProfile(spec, config)
      /\ status.phase \in {"rejected", "Denied"} /\ ~combined
      => \/ commandUsesPipefail(spec.command)
         \/ \E i \in DOMAIN spec.command.calls : \E k \in DOMAIN spec.command.calls[i] :
              /\ Invokes(spec.command.calls[i], k)
              /\ catalogExecutableName(spec.command.calls[i][k])
                    \cap ProfileEntry(spec, config).absent # {}
=============================================================================
