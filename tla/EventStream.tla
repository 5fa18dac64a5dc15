---------------------------- MODULE EventStream ----------------------------
(***************************************************************************)
(* How the phase transitions of one request reach its SSE clients:         *)
(* Broadcaster (broadcaster.go), serveEvents and globalEventsHandler       *)
(* (api.go).  A writer commits a phase, then publishes it: it copies the   *)
(* channels under the lock and sends to them, one by one, after the unlock,*)
(* without ever blocking.  Writers are different goroutines (reconciler,   *)
(* approve/deny handlers, garbage collector), so publishes overlap and     *)
(* overtake each other; handlers read the request uncached (findByUID).    *)
(* A phase may be committed more than once: a reconcile routed by a lagging*)
(* cache re-applies a playbook's approval to the current object            *)
(* (updateStatus).  So events are the numbers of the commits they announce.*)
(***************************************************************************)
EXTENDS Naturals, Sequences

CONSTANTS
  Streams,        \* clients of /requests/{uid}/events
  Watchers,       \* clients of /events
  Slow,           \* clients that may stop reading with the connection open
  StreamCapacity, \* buffer of a Subscribe channel (8 in the code)
  GlobalCapacity, \* buffer of a SubscribeAll channel (32 in the code)
  Explored,       \* the phases the request may move to
  Playbook,       \* whether it names a valid playbook, which may be auto-approved
  MaxFaults,      \* bound: crashes, failed re-reads and committed writes that report an error
  MaxStale        \* bound: approvals re-applied by a reconcile of a lagging cache

Clients == Streams \cup Watchers

ASSUME ClientsAssumption == Streams \cap Watchers = {} /\ Slow \subseteq Clients
ASSUME ExploredAssumption == Explored \subseteq
  {"New", "Pending", "Approved", "Denied", "Executed", "Failed", "Expired"}
ASSUME BoundsAssumption ==
  /\ StreamCapacity \in Nat \ {0} /\ GlobalCapacity \in Nat \ {0}
  /\ Playbook \in BOOLEAN /\ MaxFaults \in Nat /\ MaxStale \in Nat

VARIABLES
  commits,    \* the phases written to the apiserver, and how far their publishes have got
  registered, \* Broadcaster.subs and Broadcaster.all
  ch,         \* the buffered channels, of commit numbers
  pc,         \* the HTTP handlers
  snap,       \* the last commit when requestSubpathHandler read the request
  behind,     \* the stream's own re-read failed (history)
  seen,       \* commits written to the client
  dropped,    \* commits a full channel swallowed
  faults,
  stale       \* approvals re-applied by a reconcile of a lagging cache

vars == <<commits, registered, ch, pc, snap, behind, seen, dropped, faults, stale>>

Phases == {"New", "Pending", "Approved", "Denied", "Executed", "Failed", "Expired"}

\* A committed phase: whether the reconcile worker wrote it, and from a lagging cache;
\* its Publish, and the channels that has still to send to.
Commits == [phase: Phases, worker: BOOLEAN, lagged: BOOLEAN,
            publish: {"committed", "sending", "never"}, left: SUBSET Clients]

\* An event of some other request; every SubscribeAll channel gets those too.
Other == 0

\* The commit that is current, and the phase a commit wrote; a request starts New.
Last == Len(commits)
PhaseOf(n) == IF n = 0 THEN "New" ELSE commits[n].phase
phase == PhaseOf(Last)

\* The transitions the writers make from the current object (SudoLifecycle).  A valid
\* spec is not denied before review.
Successors(p) ==
  CASE p = "New"      -> {"Pending", "Approved"} \cup (IF Playbook THEN {} ELSE {"Denied"})
    [] p = "Pending"  -> {"Approved", "Denied", "Expired"}
    [] p = "Approved" -> {"Executed", "Failed"}
    [] OTHER          -> {}

\* Mutant: Approved counts as terminal.
AnyDecision(p) == p \in {"Approved", "Executed", "Failed", "Denied", "Expired"}

isTerminalPhase(p) == p \in {"Executed", "Failed", "Denied", "Expired"}

\* Mutant: a stream's channel is one slot short.
OneSlotLess(c) == IF c \in Streams THEN StreamCapacity - 1 ELSE GlobalCapacity

\* make(chan Event, n) in Subscribe and SubscribeAll.
Capacity(c) == IF c \in Streams THEN StreamCapacity ELSE GlobalCapacity

TypeOK ==
  /\ commits \in Seq(Commits)
  /\ registered \subseteq Clients
  /\ ch \in [Clients -> Seq(Nat)]
  /\ \A c \in Clients : Len(ch[c]) =< Capacity(c)
  /\ pc \in [Clients -> {"idle", "found", "subscribed", "stream", "closed", "gone"}]
  /\ snap \in [Clients -> Nat] /\ behind \in [Clients -> BOOLEAN]
  /\ seen \in [Clients -> SUBSET Nat] /\ dropped \in [Clients -> SUBSET Nat]
  /\ faults \in 0..MaxFaults /\ stale \in 0..MaxStale

Init ==
  /\ commits = << >>
  /\ registered = {}
  /\ ch = [c \in Clients |-> << >>] /\ pc = [c \in Clients |-> "idle"]
  /\ snap = [c \in Clients |-> 0] /\ behind = [c \in Clients |-> FALSE]
  /\ seen = [c \in Clients |-> {}] /\ dropped = [c \in Clients |-> {}]
  /\ faults = 0 /\ stale = 0

-----------------------------------------------------------------------------
(* The writers.                                                            *)

\* Publish has returned.
Published(n) == commits[n].publish = "sending" /\ commits[n].left = {}

\* The workqueue runs one reconcile of a request at a time, publish included.
WorkerFree == \A n \in 1..Last : commits[n].worker => Published(n) \/ commits[n].publish = "never"

\* A status write commits.  When its answer is an error, the writer returns
\* without publishing and nobody publishes that phase later.
Commit(p, worker, lagged) ==
  /\ worker => WorkerFree
  /\ \E publish \in {"committed", "never"} :
       /\ commits' = Append(commits, [phase |-> p, worker |-> worker, lagged |-> lagged,
                                      publish |-> publish, left |-> {}])
       /\ \/ publish = "committed" /\ UNCHANGED faults
          \/ publish = "never" /\ faults < MaxFaults /\ faults' = faults + 1
  /\ UNCHANGED <<registered, ch, pc, snap, behind, seen, dropped>>

\* A decision is the HTTP handlers' or the collector's, all else the worker's.
CommitPhase(p) ==
  /\ p \in Successors(phase) \cap Explored
  /\ Commit(p, phase # "Pending", FALSE)
  /\ UNCHANGED stale

\* A lagging cache still shows a playbook request as New: handleNew approves it, and
\* updateStatus, refetching after the conflict, re-applies the approval to whatever the
\* object has become -- Approved a second time, or terminal before.  The other writers'
\* updates conflict, or decide on an uncached read.
ReapproveStale ==
  /\ Playbook /\ phase # "New" /\ "Approved" \in Explored
  /\ stale < MaxStale /\ stale' = stale + 1
  /\ Commit("Approved", TRUE, TRUE)

\* Mutant: SubscribeAll channels are forgotten.
PublishToStreams(n) ==
  /\ commits[n].publish = "committed"
  /\ commits' = [commits EXCEPT ![n] = [@ EXCEPT !.publish = "sending", !.left = registered \cap Streams]]
  /\ UNCHANGED <<registered, ch, pc, snap, behind, seen, dropped, faults, stale>>

\* Publish, under the lock: the channels that will get this event.
PublishSnapshot(n) ==
  /\ commits[n].publish = "committed"
  /\ commits' = [commits EXCEPT ![n] = [@ EXCEPT !.publish = "sending", !.left = registered]]
  /\ UNCHANGED <<registered, ch, pc, snap, behind, seen, dropped, faults, stale>>

\* Mutant: ch <- e without a default case.
SendBlocking(n, c) ==
  /\ c \in commits[n].left
  /\ Len(ch[c]) < Capacity(c)
  /\ commits' = [commits EXCEPT ![n] = [@ EXCEPT !.left = commits[n].left \ {c}]]
  /\ ch' = [ch EXCEPT ![c] = Append(@, n)]
  /\ UNCHANGED <<registered, pc, snap, behind, seen, dropped, faults, stale>>

\* Publish, after the unlock: send to one channel, or drop when it is full.  The
\* channel may belong to a client that has left meanwhile; then it is garbage.
PublishSend(n, c) ==
  /\ c \in commits[n].left
  /\ commits' = [commits EXCEPT ![n] = [@ EXCEPT !.left = commits[n].left \ {c}]]
  /\ \/ c \notin registered /\ UNCHANGED <<ch, dropped>>
     \/ /\ c \in registered /\ Len(ch[c]) < Capacity(c)
        /\ ch' = [ch EXCEPT ![c] = Append(@, n)] /\ UNCHANGED dropped
     \/ /\ c \in registered /\ Len(ch[c]) >= Capacity(c)
        /\ dropped' = [dropped EXCEPT ![c] = @ \cup {n}] /\ UNCHANGED ch
  /\ UNCHANGED <<registered, pc, snap, behind, seen, faults, stale>>

\* Another request's event fills a slot of a SubscribeAll channel.
OtherRequest(w) ==
  /\ w \in registered /\ Len(ch[w]) < Capacity(w)
  /\ ch' = [ch EXCEPT ![w] = Append(@, Other)]
  /\ UNCHANGED <<commits, registered, pc, snap, behind, seen, dropped, faults, stale>>

\* The process dies with its publishes, channels and connections.
Crash ==
  /\ faults < MaxFaults /\ faults' = faults + 1
  /\ commits' = [n \in 1..Last |->
       [commits[n] EXCEPT !.publish = IF Published(n) THEN @ ELSE "never", !.left = {}]]
  /\ registered' = {}
  /\ ch' = [c \in Clients |-> << >>]
  /\ pc' = [c \in Clients |-> IF pc[c] = "closed" THEN "closed" ELSE "gone"]
  /\ snap' = [c \in Clients |-> 0] /\ behind' = [c \in Clients |-> FALSE]
  /\ seen' = [c \in Clients |-> IF pc[c] = "closed" THEN seen[c] ELSE {}]
  /\ dropped' = [c \in Clients |-> {}]
  /\ UNCHANGED stale

-----------------------------------------------------------------------------
(* The clients' handlers.                                                  *)

\* requestSubpathHandler finds the request.
FindRequest(s) ==
  /\ pc[s] = "idle"
  /\ pc' = [pc EXCEPT ![s] = "found"]
  /\ snap' = [snap EXCEPT ![s] = Last]
  /\ UNCHANGED <<commits, registered, ch, behind, seen, dropped, faults, stale>>

Subscribe(s) ==
  /\ pc[s] = "found"
  /\ pc' = [pc EXCEPT ![s] = "subscribed"]
  /\ registered' = registered \cup {s}
  /\ UNCHANGED <<commits, ch, snap, behind, seen, dropped, faults, stale>>

\* serveEvents writes a phase to the client, and returns -- unsubscribing -- when
\* it is terminal.
Emit(s, n) ==
  /\ seen' = [seen EXCEPT ![s] = @ \cup ({n} \ {Other})]
  /\ IF s \in Streams /\ isTerminalPhase(PhaseOf(n))
     THEN pc' = [pc EXCEPT ![s] = "closed"] /\ registered' = registered \ {s}
     ELSE pc' = [pc EXCEPT ![s] = "stream"] /\ UNCHANGED registered

\* Mutant: the snapshot is what was read before subscribing.
SnapshotUnrefreshed(s) ==
  /\ pc[s] = "subscribed"
  /\ Emit(s, snap[s])
  /\ UNCHANGED <<commits, ch, snap, behind, dropped, faults, stale>>

\* serveEvents: re-read under the subscription and emit the snapshot; when the
\* re-read fails, the phase read before serves.
Snapshot(s) ==
  /\ pc[s] = "subscribed"
  /\ \/ Emit(s, Last) /\ UNCHANGED <<behind, faults>>
     \/ /\ Emit(s, snap[s]) /\ behind' = [behind EXCEPT ![s] = TRUE]
        /\ faults < MaxFaults /\ faults' = faults + 1
  /\ snap' = [snap EXCEPT ![s] = 0]
  /\ UNCHANGED <<commits, ch, dropped, stale>>

\* globalEventsHandler: no snapshot.
SubscribeAll(w) ==
  /\ pc[w] = "idle"
  /\ pc' = [pc EXCEPT ![w] = "stream"]
  /\ registered' = registered \cup {w}
  /\ UNCHANGED <<commits, ch, snap, behind, seen, dropped, faults, stale>>

\* The receive loop of both handlers.
Receive(c) ==
  /\ pc[c] = "stream" /\ ch[c] # << >>
  /\ Emit(c, Head(ch[c]))
  /\ ch' = [ch EXCEPT ![c] = IF c \in registered' THEN Tail(@) ELSE << >>]
  /\ UNCHANGED <<commits, snap, behind, dropped, faults, stale>>

\* The request context ends: the deferred cancel unsubscribes.
Disconnect(c) ==
  /\ pc[c] \in {"found", "subscribed", "stream"}
  /\ pc' = [pc EXCEPT ![c] = "gone"]
  /\ registered' = registered \ {c} /\ ch' = [ch EXCEPT ![c] = << >>]
  /\ snap' = [snap EXCEPT ![c] = 0] /\ behind' = [behind EXCEPT ![c] = FALSE]
  /\ seen' = [seen EXCEPT ![c] = {}] /\ dropped' = [dropped EXCEPT ![c] = {}]
  /\ UNCHANGED <<commits, faults, stale>>

Publisher == \E n \in 1..Last : \/ PublishSnapshot(n)
                                \/ \E c \in Clients : PublishSend(n, c)

Next ==
  \/ \E p \in Phases : CommitPhase(p)
  \/ ReapproveStale \/ Publisher \/ Crash
  \/ \E w \in Watchers : OtherRequest(w) \/ SubscribeAll(w)
  \/ \E s \in Streams : FindRequest(s) \/ Subscribe(s) \/ Snapshot(s)
  \/ \E c \in Clients : Receive(c) \/ Disconnect(c)

\* The publishing goroutines run.
WriterFairness == WF_vars(Publisher)

\* A connected client that is not slow reads, so its handler's loop turns.
ReaderFairness == \A c \in Clients \ Slow : /\ WF_vars(c \in Streams /\ Snapshot(c))
                                     /\ WF_vars(Receive(c))

Spec == Init /\ [][Next]_vars

FairSpec == Spec /\ WriterFairness /\ ReaderFairness

-----------------------------------------------------------------------------
(* Properties.                                                             *)

\* The phases a request ends in.
Outcomes == {"Executed", "Failed", "Denied", "Expired"}

\* What the request can commit: three phases going up and, per re-applied approval,
\* that and another outcome.
Most(k) == 3 + 2 * k

\* How far the publish of a commit, if there is one, has got.
PublishOf(n) == IF n \in 1..Last THEN commits[n].publish ELSE "none"

\* A stream the server closed has told its client a terminal phase that the request is
\* in, or left only by a re-applied playbook approval, whatever the order in which
\* publishes overtook each other (serveEvents; handleNew's updateStatus).
ClosesWithOutcome ==
  \A s \in Streams : pc[s] = "closed" =>
    \E n \in seen[s] \cap (1..Last) :
      commits[n].phase \in Outcomes /\ (n < Last => commits[n + 1].lagged)

\* The per-request buffer loses an event only once the request has committed more phases
\* than it has slots, which takes re-applied approvals: the eight of Subscribe suffice
\* until a third one, whoever stops reading (Publish's "drop on full").
StreamsDropOnlyRepeats ==
  \A s \in Streams : dropped[s] # {} => StreamCapacity < Last /\ Last =< Most(stale)

\* Publishing never waits for a client: each committed transition is fully
\* published even when clients stop reading (Publish, "drop ... rather than block").
PublishCompletes ==
  \A n \in 1..Most(MaxStale) :
    PublishOf(n) = "committed" ~> PublishOf(n) = "never" \/ (n =< Last /\ Published(n))

\* Subscribe-before-read loses nothing: a stream whose re-read succeeded is closed with
\* the terminal phase once that has been published, unless its full buffer swallowed it
\* (serveEvents' two cases: "see it now ... or pick it up off the channel").
FreshStreamEnds ==
  \A s \in Streams \ Slow :
    (pc[s] = "stream" /\ ~behind[s] /\ phase \in Outcomes /\ Published(Last)
       /\ Last \notin dropped[s]) ~> pc[s] \in {"closed", "gone"}

\* A watcher subscribed when a transition is published is told, or has it waiting in
\* its channel if it is slow, unless the buffer was full or it left (Publish sends to
\* b.all, and a stalled client costs the others nothing).
WatchersTold ==
  \A w \in Watchers, n \in 1..Most(MaxStale) :
    PublishOf(n) = "committed" /\ w \in registered
      ~> \/ n \in seen[w] \cup dropped[w] \/ pc[w] = "gone" \/ PublishOf(n) = "never"
         \/ w \in Slow /\ \E i \in 1..Len(ch[w]) : ch[w][i] = n

\* "Any phase change after this point is guaranteed to land in our channel", and the
\* stream "closes on terminal phase": a terminal request has no open stream.
StreamEnds ==
  \A s \in Streams \ Slow : pc[s] = "stream" /\ phase \in Outcomes ~> pc[s] \in {"closed", "gone"}
=============================================================================
