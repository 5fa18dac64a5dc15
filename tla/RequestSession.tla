--------------------------- MODULE RequestSession ---------------------------
(***************************************************************************)
(* One request from its submission on the command line to the exit code    *)
(* the caller sees: the client (client/cli/sudo-service), the endpoints it *)
(* calls (api.go, auth.go), the reviewer's browser, the capture of the     *)
(* output and the process they all depend on.                              *)
(***************************************************************************)
EXTENDS ReviewPage

CONSTANTS
  Timeouts,     \* --timeout, None for a client that waits indefinitely
  TokenReviews, \* answers of the TokenReview API
  AccessReviews \* answers of the SubjectAccessReview API

ASSUME TimeoutsAssumption == Timeouts \subseteq 0..MaxNow \cup {None}

VARIABLES
  cli    \* the client: where it is, its options, the status it last read, what it
         \* wrote to stdout and stderr, its exit code, whether Ctrl-C ended it

vars == <<procVars, outVars, reviewVars, cli>>

Init ==
  /\ ProcInit /\ OutInit /\ ReviewInit
  /\ \E timeout \in Timeouts, detach \in BOOLEAN :
       cli = [pc |-> "submit", timeout |-> timeout, detach |-> detach, seen |-> request,
              stdout |-> << >>, warned |-> {}, exit |-> None, interrupted |-> FALSE]

-----------------------------------------------------------------------------
(* The requester's endpoints.                                              *)

\* TokenReviewer.Review, authenticateBearer: an identity with our audience.
Review(tr) == ~tr.error /\ tr.authenticated /\ tr.audience /\ tr.username

\* AuthorizeSubmit, as createRequestHandler answers it.
AuthorizeSubmit(sar) ==
  IF sar.error \/ (~sar.allowed /\ sar.evaluationError) THEN 503 ELSE IF sar.allowed THEN 200 ELSE 403

\* A submission is let in; any other combination of answers is an error to the client.
MaySubmit ==
  \E tr \in TokenReviews, sar \in AccessReviews : Review(tr) /\ AuthorizeSubmit(sar) = 200
Refuses ==
  \E tr \in TokenReviews, sar \in AccessReviews : ~Review(tr) \/ AuthorizeSubmit(sar) # 200

\* requestSubpathHandler: the caller is the requester and the List of findByUID works.
MayRead == \E tr \in TokenReviews : Review(tr)

Done(c, code) == [c EXCEPT !.pc = "done", !.exit = code, !.seen = [phase |-> "none", result |-> NoResult]]

Rest == UNCHANGED <<procVars, reviewVars, now, command, secret, cached, capture, faults>>

-----------------------------------------------------------------------------
(* The client.                                                             *)

\* create_request is refused, or nobody listens: SudoServiceError, exit 1.
SubmitFails ==
  /\ cli.pc = "submit" /\ (http # "serving" \/ Refuses)
  /\ cli' = Done(cli, 1) /\ Rest /\ UNCHANGED request

\* createRequestHandler creates the request.  Its answer may be lost.
Submit ==
  /\ cli.pc = "submit" /\ http = "serving" /\ MaySubmit
  /\ request' = [request EXCEPT !.phase = "Pending"]
  /\ cli' \in {Done(cli, 1),
               IF cli.detach THEN Done(cli, 0)
               ELSE [cli EXCEPT !.pc = "poll"]}
  /\ Rest

\* Any answer to a poll but a status ends the client: connection refused, a token
\* review that fails, an error of the List.
PollFails ==
  /\ cli.pc = "poll"
  /\ cli' = Done(cli, 1) /\ Rest /\ UNCHANGED request

\* Mutant: a failed capture goes unmentioned.
report_output_state_delivery(r) ==
  {w \in {"truncated", "unavailable"} : \/ w = "truncated" /\ r.state = "Truncated"
                                        \/ w = "unavailable" /\ r.delivery = "Failed"}

report_output_state(r) ==
  {w \in {"truncated", "unavailable"} : \/ w = "truncated" /\ r.state = "Truncated"
                                        \/ w = "unavailable" /\ "Failed" \in {r.state, r.delivery}}

\* exit_code: a failure is never reported as 0.
exit_code(r) == IF r.exit \in 1..255 THEN r.exit ELSE 1

Result(c) == Done(c, IF c.seen.phase = "Executed" THEN 0 ELSE exit_code(c.seen.result))

\* Mutant: the deadline is looked at only before the first poll.
PastDeadlineNever(c) == FALSE

PastDeadline(c) == c.timeout # None /\ now >= c.timeout

\* One round of the polling loop: serveStatus answers from the apiserver.  Only a
\* terminal status is kept.
Poll ==
  /\ cli.pc = "poll" /\ http = "serving" /\ MayRead
  /\ LET c == [cli EXCEPT !.seen = request]
         told == [c EXCEPT !.warned = report_output_state(request.result)]
     IN  cli' = IF request.phase \in {"Denied", "Expired"} THEN Done(c, 1)
                ELSE IF request.phase \in Terminal
                     THEN IF request.result.ref THEN [told EXCEPT !.pc = "fetch"] ELSE Result(told)
                ELSE IF PastDeadline(c) THEN Done(c, 1) ELSE cli
  /\ Rest /\ UNCHANGED request

\* serveOutput: the Secret, read through the cache, goes to stdout; then the client
\* exits with the command's code.
Fetch ==
  /\ cli.pc = "fetch" /\ http = "serving" /\ MayRead
  /\ manager # "syncing" /\ cached.exists
  /\ cli' = Result([cli EXCEPT !.stdout = cached.output]) /\ Rest /\ UNCHANGED request

\* The Secret is not in the cache yet, not in it any more, or the caches are not
\* filled (500); or the call fails as a poll may.
FetchFails ==
  /\ cli.pc = "fetch"
  /\ cli' = Done(cli, 1) /\ Rest /\ UNCHANGED request

\* KeyboardInterrupt at any point: exit 130.  A submission may have reached the service.
Interrupt ==
  /\ cli.pc # "done"
  /\ cli' = [Done(cli, 130) EXCEPT !.interrupted = TRUE]
  /\ \/ UNCHANGED request
     \/ /\ cli.pc = "submit" /\ http = "serving" /\ MaySubmit
        /\ request' = [request EXCEPT !.phase = "Pending"]
  /\ Rest

-----------------------------------------------------------------------------
Decide ==
  /\ \E t \in Tabs, phase \in {"Approved", "Denied"} : Post(t, phase)
  /\ UNCHANGED <<procVars, now, command, secret, cached, capture, faults, cli>>

Next ==
  \/ SubmitFails \/ Submit \/ PollFails \/ Poll \/ Fetch \/ FetchFails \/ Interrupt \/ Decide
  \/ Expire /\ Forget /\ UNCHANGED <<procVars, cli>>
  \/ OutNext /\ UNCHANGED <<procVars, reviewVars, cli>>
  \/ ProcessStep /\ UNCHANGED <<reviewVars, cli>>
  \/ ReviewOnly /\ UNCHANGED <<procVars, outVars, cli>>

\* The service's process, the reconciler and the informer get on with their work,
\* time passes, and a client that nobody kills goes on.  No human and no command
\* owes anybody anything.
Fairness ==
  /\ ProcFairness
  /\ WF_outVars(OpenLogs \/ CopyChunk \/ StoreOutput \/ Finalize \/ MarkFailed \/ Expire)
  /\ WF_outVars(CacheSync) /\ WF_outVars(Tick)
  /\ WF_vars(Submit \/ SubmitFails) /\ WF_vars(Poll) /\ WF_vars(Fetch \/ FetchFails)

Spec == Init /\ [][Next]_vars

FairSpec == Spec /\ Fairness

-----------------------------------------------------------------------------
(* Properties.                                                             *)

CliType ==
  [pc: {"submit", "poll", "fetch", "done"}, timeout: Int, detach: BOOLEAN, seen: RequestType,
   stdout: Seq(Nat), warned: SUBSET {"truncated", "unavailable"}, exit: Int,
   interrupted: BOOLEAN]

CliTypeOK == cli \in CliType /\ (cli.pc = "done" <=> cli.exit # None)

TypeOK == ProcTypeOK /\ OutTypeOK /\ ReviewTypeOK /\ CliTypeOK

\* What the caller is told is what happened: exit 0 of a client that waited means
\* that the command ended with 0, and stdout is all it printed, or the bytes kept
\* of it with a warning, or nothing with a warning; an exit code above 1 is the
\* command's own, or the 130 of an interrupted client (main, exit_code,
\* report_output_state against captureJobOutput).
CallerToldTruth ==
  cli.pc = "done" /\ ~cli.detach =>
    /\ cli.exit = 0 =>
         /\ request.phase = "Executed" /\ command.exit = 0
         /\ \/ cli.stdout = Printed
            \/ cli.stdout = Prefix /\ "truncated" \in cli.warned
            \/ cli.stdout = << >> /\ "unavailable" \in cli.warned
    /\ cli.exit > 1 => \/ command.exit = cli.exit /\ request.phase = "Failed"
                       \/ cli.interrupted /\ cli.exit = 130

\* A waiting client comes back: one with a timeout whatever becomes of the request,
\* one without it once the request has ended (the polling loop of main).
ClientReturns ==
  cli.pc # "submit" /\ (cli.timeout # None \/ request.phase \in Terminal) ~> cli.pc = "done"
=============================================================================
