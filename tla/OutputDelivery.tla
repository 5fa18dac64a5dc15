-------------------------- MODULE OutputDelivery ---------------------------
(***************************************************************************)
(* From a finished command to its stored output (executor.go, logs.go,     *)
(* reconciler.go): the log stream is copied chunk by chunk into a bounded  *)
(* buffer, the buffer goes to a Secret labelled with its expiry, and the   *)
(* terminal status says what was kept.  The collector (gc.go) sweeps the   *)
(* Secret; the API reads it through the manager's cache.  Bytes are        *)
(* numbers; the digest of a stream is the stream itself.                   *)
(*                                                                         *)
(* The Job has no sidecar here: the two-phase end that one needs is        *)
(* modelled in ExecutorFlow.                                               *)
(***************************************************************************)
EXTENDS ServerProcess, Integers, SequencesExt

CONSTANTS
  Logs,            \* what a command may print: sequences of chunks of bytes
  ExitCodes,       \* what it may return
  Ttls,            \* ttlSecondsAfterApproval, as clamped
  MaxOutputBytes,
  PendingTTL,      \* PendingRequestTTL
  MaxNow,          \* bound: the clock
  MaxFaults        \* bound: failing calls of a reconcile, and stops of the process

ASSUME OutputAssumption ==
  /\ MaxOutputBytes \in Nat /\ PendingTTL \in Nat /\ MaxNow \in Nat /\ MaxFaults \in Nat
  /\ Ttls \subseteq Nat /\ ExitCodes \subseteq 0..255 /\ Logs \subseteq Seq(Seq(Nat))

VARIABLES
  now,      \* time since the request was created
  request,  \* the SudoRequest: phase and recorded result
  command,  \* the executor: where its pod is, what it printed and returned
  secret,   \* the output Secret in the cluster
  cached,   \* the output Secret in the manager's cache
  capture,  \* the reconcile that captures the output
  faults

outVars == <<now, request, command, secret, cached, capture, faults>>

None == 0 - 1

NoSecret == [exists |-> FALSE, expires |-> 0, output |-> << >>]

\* No reconcile is capturing.
Idle == [pc |-> "idle", left |-> << >>, retained |-> << >>, total |-> 0, hashed |-> << >>,
         state |-> "", delivery |-> "", ref |-> FALSE]

NoResult == [exit |-> None, state |-> "", delivery |-> "", ref |-> FALSE,
             total |-> None, retained |-> None, sha |-> << >>]

OutInit ==
  /\ now = 0 /\ faults = 0
  /\ request = [phase |-> "none", result |-> NoResult]
  /\ \E ttl \in Ttls : command = [state |-> "waiting", log |-> << >>, exit |-> 0, ttl |-> ttl, captured |-> None]
  /\ secret = NoSecret /\ cached = NoSecret /\ capture = Idle

Printed == FlattenSeq(command.log)

\* What the output of the command is cut to.
Prefix == SubSeq(Printed, 1, IF Len(Printed) < MaxOutputBytes THEN Len(Printed) ELSE MaxOutputBytes)

Terminal == {"Executed", "Failed", "Denied", "Expired"}

Reconciling == manager = "running"

\* A call on the reconcile's context: it fails for a reason of its own, or because
\* the process is shutting down.
CallFails == (faults + stops < MaxFaults /\ faults' = faults + 1) \/ (cancelled /\ UNCHANGED faults)
CallWorks == ~cancelled /\ UNCHANGED faults

\* The executor's pod runs and ends, or never starts, or is gone before a capture.
CommandEnds ==
  /\ request.phase = "Approved" /\ command.state = "waiting"
  /\ \/ \E log \in Logs, exit \in ExitCodes :
          command' = [command EXCEPT !.state = "ended", !.log = log, !.exit = exit]
     \/ command' = [command EXCEPT !.state = "stuck"]
  /\ UNCHANGED <<now, request, secret, cached, capture, faults>>

PodGone ==
  /\ command.state = "ended"
  /\ command' = [command EXCEPT !.state = "gone"]
  /\ UNCHANGED <<now, request, secret, cached, capture, faults>>

CaptureFailed(c) == [c EXCEPT !.pc = "finalize", !.state = "Failed"]

\* readPodLogs, streamPodLogs: open the stream of the terminated container.
OpenLogs ==
  /\ Reconciling /\ capture.pc = "idle" /\ request.phase = "Approved" /\ command.state = "ended"
  /\ \/ CallWorks /\ capture' = [Idle EXCEPT !.pc = "copy", !.left = command.log]
     \/ CallFails /\ capture' = CaptureFailed(Idle)
  /\ UNCHANGED <<now, request, command, secret, cached>>

\* boundedLogWriter.Write
Write(c, chunk) ==
  LET remaining == MaxOutputBytes - Len(c.retained)
      kept == IF remaining > Len(chunk) THEN Len(chunk) ELSE remaining
  IN  [c EXCEPT !.total = @ + Len(chunk), !.retained = @ \o SubSeq(chunk, 1, kept)]

\* consumePodLogs: one round of io.Copy to the digest and the bounded buffer.
CopyChunk ==
  /\ Reconciling /\ capture.pc = "copy" /\ capture.left # << >>
  /\ \/ CallWorks /\ capture' = [Write(capture, Head(capture.left)) EXCEPT
                                   !.left = Tail(@), !.hashed = @ \o Head(capture.left)]
     \/ CallFails /\ capture' = CaptureFailed(Idle)
  /\ UNCHANGED <<now, request, command, secret, cached>>

\* The stream ended: classify it, and create the Secret, which may be there from
\* an earlier capture whose status write failed.
StoreOutput ==
  /\ Reconciling /\ capture.pc = "copy" /\ capture.left = << >>
  /\ LET c == [capture EXCEPT !.pc = "finalize",
                 !.state = IF capture.total > Len(capture.retained) THEN "Truncated" ELSE "Complete"]
     IN  \/ /\ CallWorks /\ capture' = [c EXCEPT !.delivery = "Available", !.ref = TRUE]
            /\ secret' = IF secret.exists THEN secret
                         ELSE [exists |-> TRUE, expires |-> now + command.ttl, output |-> capture.retained]
            /\ command' = IF secret.exists THEN command ELSE [command EXCEPT !.captured = now]
         \/ CallFails /\ capture' = [c EXCEPT !.delivery = "Failed"] /\ UNCHANGED <<secret, command>>
  /\ UNCHANGED <<now, request, cached>>

\* applyCapturedOutputStatus
applyCapturedOutputStatus(c) ==
  LET counted == c.state # "Failed"
  IN  [exit |-> command.exit, state |-> c.state, delivery |-> c.delivery, ref |-> c.ref,
       total |-> IF counted THEN c.total ELSE None,
       retained |-> IF counted THEN Len(c.retained) ELSE None, sha |-> c.hashed]

\* Mutant: the terminal write is given a context of its own.
FinalizeDetached ==
  /\ Reconciling /\ capture.pc = "finalize"
  /\ capture' = Idle
  /\ request' = [request EXCEPT !.phase = IF command.exit = 0 THEN "Executed" ELSE "Failed",
                                !.result = applyCapturedOutputStatus(capture)]
  /\ UNCHANGED <<now, command, secret, cached, faults>>

\* finalizeFromRecordedResult: one status write; when it fails the next reconcile
\* captures again.
Finalize ==
  /\ Reconciling /\ capture.pc = "finalize"
  /\ capture' = Idle
  /\ \/ CallWorks /\ request' = [request EXCEPT
                        !.phase = IF command.exit = 0 THEN "Executed" ELSE "Failed",
                        !.result = applyCapturedOutputStatus(capture)]
     \/ CallFails /\ UNCHANGED request
  /\ UNCHANGED <<now, command, secret, cached>>

\* markFailed: the pod did not start in time, or is gone with its exit code.
MarkFailed ==
  /\ Reconciling /\ CallWorks
  /\ capture.pc = "idle" /\ request.phase = "Approved" /\ command.state \in {"stuck", "gone"}
  /\ request' = [request EXCEPT !.phase = "Failed"]
  /\ UNCHANGED <<now, command, secret, cached, capture>>

\* handlePending and expirePending: a Pending request of age PendingTTL expires.
Expire ==
  /\ Reconciling /\ ~cancelled
  /\ request.phase = "Pending" /\ now >= PendingTTL
  /\ request' = [request EXCEPT !.phase = "Expired"]
  /\ UNCHANGED <<now, command, secret, cached, capture, faults>>

\* Mutant: the collector runs ahead of the clock.
ExpiredEarly(s) == now + 1 >= s.expires

\* The label expires-at, in seconds, has been reached.
Expired(s) == now >= s.expires

\* sweepSecrets lists the Secrets in the cache, every five minutes: by then the
\* cache has caught up with what the sweep before deleted.
SweepOutput ==
  /\ Reconciling /\ ~cancelled
  /\ cached = secret /\ cached.exists /\ Expired(cached)
  /\ secret' = NoSecret
  /\ UNCHANGED <<now, request, command, cached, capture, faults>>

\* The manager's informer catches up.
CacheSync ==
  /\ Reconciling /\ cached # secret
  /\ cached' = secret
  /\ UNCHANGED <<now, request, command, secret, capture, faults>>

Tick ==
  /\ request.phase # "none" /\ now < MaxNow
  /\ now' = now + 1
  /\ UNCHANGED <<request, command, secret, cached, capture, faults>>

\* A step of the process: a stopped manager takes its workers along, and the next
\* one fills its cache from the cluster.
ProcessStep ==
  /\ ProcNext /\ faults + stops' <= MaxFaults
  /\ capture' = IF manager' = "stopped" THEN Idle ELSE capture
  /\ cached' = IF manager = "syncing" /\ manager' = "running" THEN secret ELSE cached
  /\ UNCHANGED <<now, request, command, secret, faults>>

OutNext ==
  \/ OpenLogs \/ CopyChunk \/ StoreOutput \/ Finalize \/ MarkFailed
  \/ SweepOutput \/ CacheSync \/ Tick \/ CommandEnds \/ PodGone

-----------------------------------------------------------------------------
(* Properties.                                                             *)

RequestType ==
  [phase: Terminal \cup {"none", "Pending", "Approved"},
   result: [exit: Int, state: {"", "Complete", "Truncated", "Failed"},
            delivery: {"", "Available", "Failed"}, ref: BOOLEAN,
            total: Int, retained: Int, sha: Seq(Nat)]]

CommandType ==
  [state: {"waiting", "ended", "stuck", "gone"}, log: Seq(Seq(Nat)), exit: 0..255,
   ttl: Nat, captured: Nat \cup {None}]

SecretType == [exists: BOOLEAN, expires: Nat, output: Seq(Nat)]

CaptureType ==
  [pc: {"idle", "copy", "finalize"}, left: Seq(Seq(Nat)), retained: Seq(Nat),
   total: Nat, hashed: Seq(Nat), state: {"", "Complete", "Truncated", "Failed"},
   delivery: {"", "Available", "Failed"}, ref: BOOLEAN]

OutTypeOK ==
  /\ now \in 0..MaxNow /\ faults \in 0..MaxFaults
  /\ request \in RequestType /\ command \in CommandType
  /\ secret \in SecretType /\ cached \in SecretType /\ capture \in CaptureType
  /\ capture.pc # "idle" => manager # "stopped"

\* The status tells the truth about the output whatever was retried on the way:
\* a counted stream was counted and hashed to its end, Truncated says exactly
\* that bytes are missing, Failed that a call really failed (a shutdown in the
\* middle of a capture is not recorded as a loss), and as long as the Secret is
\* there it holds the prefix the status speaks of (consumePodLogs, types.go
\* MaxOutputBytes).
OutputAccounted ==
  LET r == request.result
  IN  /\ r.state \in {"Complete", "Truncated"} =>
           /\ r.sha = Printed /\ r.total = Len(Printed) /\ r.retained = Len(Prefix)
           /\ r.state = "Truncated" <=> Len(Printed) > MaxOutputBytes
           /\ r.ref /\ secret.exists => secret.output = Prefix
      /\ "Failed" \in {r.state, r.delivery} => faults > 0

\* Output that the status calls Available can be read for as long as the caller
\* asked, counted from the capture: it is missing only after that (captureJobOutput,
\* sweepSecrets, restarts and repeated captures included).
OutputKept ==
  request.result.delivery = "Available" /\ ~secret.exists => now >= command.captured + command.ttl
=============================================================================
