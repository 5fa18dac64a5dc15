------------------------- MODULE EventStream_proofs -------------------------
(***************************************************************************)
(* Proofs about EventStream, for any number of streams, watchers, faults   *)
(* and re-applied approvals: a stream the server closes has told its       *)
(* client an outcome, which only a re-applied approval can undo, and the   *)
(* buffer of a stream is not what loses an event before there are more     *)
(* such approvals than it has room for.                                    *)
(***************************************************************************)
EXTENDS EventStream, SequenceTheorems, FiniteSetTheorems, TLAPS

-----------------------------------------------------------------------------
(* The inductive invariant.                                                *)

\* How far a phase is from New: every transition from the current object goes up.
Rank(p) == CASE p = "New" -> 0 [] p = "Pending" -> 1 [] p = "Approved" -> 2 [] OTHER -> 3

Slots(c) == 1..Len(ch[c])

Waiting(c, n) == \E i \in Slots(c) : ch[c][i] = n

\* Only a re-applied approval takes the request down, from an outcome to Approved.
Counted == Last =< Rank(phase) + 2 * stale

\* Only a re-applied approval follows an outcome.
OutcomeHeld == \A n \in 1..Last : commits[n].phase \in Outcomes /\ n < Last => commits[n + 1].lagged

\* A closed stream was told an outcome.
OutcomeTold ==
  \A s \in Streams : pc[s] = "closed" => \E n \in seen[s] \cap (1..Last) : commits[n].phase \in Outcomes

\* Only a publish in progress has channels left, and it has sent nothing to those.
Sending ==
  \A n \in 1..Last : \A c \in commits[n].left :
    commits[n].publish = "sending" /\ (c \in Streams => ~Waiting(c, n))

\* What waits in a channel is another request's event or a published commit.
Sent ==
  \A c \in Clients : \A i \in Slots(c) :
    ch[c][i] # Other => ch[c][i] \in 1..Last /\ commits[ch[c][i]].publish = "sending"

\* A stream's channel holds commits of its own request, each at most once.
Once ==
  \A s \in Streams : \A i \in Slots(s) :
    ch[s][i] # Other /\ \A j \in Slots(s) : ch[s][i] = ch[s][j] => i = j

\* What was read before has been committed.
ReadBefore == \A c \in Clients : snap[c] =< Last

\* A stream's buffer overflowed only under more commits than it has slots.
Overflow == \A s \in Streams : dropped[s] # {} => StreamCapacity < Last

IInv == /\ TypeOK /\ Counted /\ OutcomeHeld /\ OutcomeTold
        /\ Sending /\ Sent /\ Once /\ ReadBefore /\ Overflow

-----------------------------------------------------------------------------
(* Phases, channels and the size of a stream's buffer.                     *)

\* Ranks, and what the code calls terminal.
LEMMA Ranks ==
  ASSUME NEW p
  PROVE  /\ Rank(p) \in Nat /\ Rank(p) =< 3
         /\ isTerminalPhase(p) <=> p \in Outcomes
  BY DEF Rank, isTerminalPhase, Outcomes

\* Every transition goes up, from a phase that is no outcome.
LEMMA TransitionsGoUp ==
  ASSUME NEW p, NEW q \in Successors(p)
  PROVE  Rank(p) + 1 =< Rank(q) /\ p \notin Outcomes /\ q \in Phases
  BY DEF Phases, Rank, Successors, Outcomes

\* What the types say of the commits and the channels.
LEMMA Types ==
  ASSUME TypeOK
  PROVE  /\ Last \in Nat /\ stale \in Nat
         /\ \A n \in 1..Last : /\ commits[n] \in Commits
                               /\ commits[n].phase \in Phases /\ commits[n].left \subseteq Clients
         /\ phase \in Phases
         /\ \A c \in Clients : /\ ch[c] \in Seq(Nat) /\ Len(ch[c]) \in Nat /\ Capacity(c) \in Nat
                               /\ Slots(c) \subseteq Nat /\ \A i \in Slots(c) : ch[c][i] \in Nat
  <1>1. Last \in Nat /\ stale \in Nat
    BY BoundsAssumption DEF TypeOK, Last
  <1>2. \A n \in 1..Last : commits[n] \in Commits
    BY ElementOfSeq DEF TypeOK, Last
  <1>3. \A n \in 1..Last : commits[n].phase \in Phases /\ commits[n].left \subseteq Clients
    BY <1>2 DEF Commits
  <1>4. phase \in Phases
    BY <1>1, <1>3 DEF phase, PhaseOf, Phases
  <1>5. \A c \in Clients : ch[c] \in Seq(Nat) /\ Len(ch[c]) \in Nat /\ Capacity(c) \in Nat
    BY BoundsAssumption DEF TypeOK, Capacity
  <1>6. \A c \in Clients : Slots(c) \subseteq Nat /\ \A i \in Slots(c) : ch[c][i] \in Nat
    BY <1>5, ElementOfSeq DEF Slots
  <1> QED BY <1>1, <1>2, <1>3, <1>4, <1>5, <1>6

\* The numbers from one to k are k.
LEMMA Numbers ==
  ASSUME NEW k \in Nat
  PROVE  IsFiniteSet(1..k) /\ Cardinality(1..k) = k
  BY FS_Interval

\* A stream's channel holds fewer events than there are commits, if one is not in it.
LEMMA RoomInStream ==
  ASSUME TypeOK, Sent, Once, NEW s \in Streams, NEW n \in 1..Last, ~Waiting(s, n)
  PROVE  Len(ch[s]) < Last
  <1> DEFINE k == Len(ch[s])
             T == 1..Last \ {n}
             f == [i \in 1..k |-> ch[s][i]]
  <1>1. s \in Clients /\ k \in Nat /\ Last \in Nat
    BY Types DEF Clients
  <1>2. f \in [1..k -> T] /\ \A i, j \in 1..k : f[i] = f[j] => i = j
    <2>1. \A i \in 1..k : ch[s][i] \in 1..Last /\ ch[s][i] # n
      BY <1>1 DEF Once, Sent, Waiting, Slots
    <2>2. \A i, j \in 1..k : ch[s][i] = ch[s][j] => i = j
      BY DEF Once, Slots
    <2> QED BY <2>1, <2>2
  <1>3. IsFiniteSet(1..k) /\ Cardinality(1..k) = k
    BY <1>1, Numbers
  <1>4. IsFiniteSet(T) /\ Cardinality(T) = Last - 1
    <2>1. IsFiniteSet(1..Last) /\ Cardinality(1..Last) = Last
      BY <1>1, Numbers
    <2> QED BY <2>1, FS_RemoveElement
  <1> HIDE DEF f, T
  <1>5. ~(Last - 1 < k)
    <2> SUFFICES ASSUME Last - 1 < k PROVE FALSE
      OBVIOUS
    <2>1. Cardinality(T) < Cardinality(1..k)
      BY <1>3, <1>4
    <2> HIDE DEF k
    <2>2. \E i, j \in 1..k : i # j /\ f[i] = f[j]
      BY <1>2, <1>3, <1>4, <2>1, FS_PigeonHole
    <2> QED BY <1>2, <2>2
  <1> QED BY <1>1, <1>5

\* No channel got anything new: each holds a stretch of what it held.
Shrinks ==
  \A c \in Clients : \E k \in Nat : \A i \in Slots(c)' : i + k \in Slots(c) /\ ch'[c][i] = ch[c][i + k]

\* What the channels are known to hold stays true when they only lose events.
LEMMA ShrinkKeeps ==
  ASSUME TypeOK, TypeOK', Sending, Sent, Once, Shrinks, UNCHANGED commits
  PROVE  Sending' /\ Sent' /\ Once'
  <1>0. /\ \A c \in Clients : Slots(c)' \subseteq Nat
        /\ Last' = Last /\ \A n \in 1..Last : commits[n].left \subseteq Clients
    <2>1. \A c \in Clients : Len(ch'[c]) \in Nat
      BY DEF TypeOK
    <2> QED BY <2>1, Types DEF Slots, Last
  <1>1. Sending'
    <2>1. \A c \in Clients, n \in 1..Last : Waiting(c, n)' => Waiting(c, n)
      BY DEF Shrinks, Waiting
    <2> QED BY <1>0, <2>1 DEF Sending
  <1>2. Sent'
    BY <1>0 DEF Sent, Shrinks
  <1>3. Once'
    <2> SUFFICES ASSUME NEW s \in Streams, NEW i \in Slots(s)'
                 PROVE  ch'[s][i] # Other /\ \A j \in Slots(s)' : ch'[s][i] = ch'[s][j] => i = j
      BY DEF Once
    <2>1. PICK k \in Nat : \A j \in Slots(s)' : j + k \in Slots(s) /\ ch'[s][j] = ch[s][j + k]
      BY DEF Shrinks, Clients
    <2>2. \A j \in Slots(s)' : j \in Nat
      BY <1>0 DEF Clients
    <2> QED BY <2>1, <2>2 DEF Once
  <1> QED BY <1>1, <1>2, <1>3

\* Channels that are left alone, emptied or read from have lost events only.
LEMMA ChannelsShrink ==
  ASSUME TypeOK,
         \A c \in Clients : \/ ch'[c] = ch[c] \/ ch'[c] = << >>
                            \/ ch[c] # << >> /\ ch'[c] = Tail(ch[c])
  PROVE  /\ Shrinks
         /\ \A c \in Clients : ch'[c] \in Seq(Nat) /\ Len(ch'[c]) =< Capacity(c)
  <1> SUFFICES ASSUME NEW c \in Clients
               PROVE  /\ \E k \in Nat : \A i \in 1..Len(ch'[c]) :
                           i + k \in Slots(c) /\ ch'[c][i] = ch[c][i + k]
                      /\ ch'[c] \in Seq(Nat) /\ Len(ch'[c]) =< Capacity(c)
    BY DEF Shrinks, Slots
  <1>0. /\ ch[c] \in Seq(Nat) /\ Len(ch[c]) \in Nat /\ Len(ch[c]) =< Capacity(c)
        /\ Capacity(c) \in Nat
    BY BoundsAssumption DEF TypeOK, Capacity
  <1>1. CASE ch'[c] = ch[c]
    BY <1>0, <1>1 DEF Slots
  <1>2. CASE ch'[c] = << >>
    BY <1>0, <1>2
  <1>3. CASE ch[c] # << >> /\ ch'[c] = Tail(ch[c])
    <2>1. /\ ch'[c] \in Seq(Nat) /\ Len(ch'[c]) = Len(ch[c]) - 1
          /\ \A i \in 1..Len(ch'[c]) : ch'[c][i] = ch[c][i + 1]
      BY <1>0, <1>3, HeadTailProperties
    <2>2. \A i \in 1..Len(ch'[c]) : i + 1 \in Slots(c) /\ ch'[c][i] = ch[c][i + 1]
      BY <1>0, <2>1 DEF Slots
    <2>3. Len(ch'[c]) =< Capacity(c)
      BY <1>0, <2>1
    <2> QED BY <2>1, <2>2, <2>3
  <1> QED BY <1>1, <1>2, <1>3

-----------------------------------------------------------------------------
(* The writers.                                                            *)

\* One commit more, published by nobody yet.
LEMMA CommitEffect ==
  ASSUME TypeOK, NEW p \in Phases, NEW worker \in BOOLEAN, NEW lagged \in BOOLEAN,
         Commit(p, worker, lagged)
  PROVE  /\ commits' \in Seq(Commits) /\ Last' = Last + 1 /\ phase' = p
         /\ \A n \in 1..Last : commits'[n] = commits[n]
         /\ commits'[Last + 1].phase = p /\ commits'[Last + 1].lagged = lagged
         /\ commits'[Last + 1].left = {}
         /\ faults' \in 0..MaxFaults
         /\ UNCHANGED <<registered, ch, pc, snap, behind, seen, dropped>>
  <1>1. PICK publish \in {"committed", "never"} :
          commits' = Append(commits, [phase |-> p, worker |-> worker, lagged |-> lagged,
                                      publish |-> publish, left |-> {}])
    BY DEF Commit
  <1> DEFINE e == [phase |-> p, worker |-> worker, lagged |-> lagged, publish |-> publish, left |-> {}]
  <1>2. e \in Commits /\ e.phase = p /\ e.lagged = lagged /\ e.left = {}
    BY DEF Commits
  <1> HIDE DEF e
  <1>3. commits' = Append(commits, e) /\ commits \in Seq(Commits) /\ Last \in Nat
    BY <1>1, Types DEF e, TypeOK
  <1>4. /\ commits' \in Seq(Commits) /\ Last' = Last + 1
        /\ \A n \in 1..Last : commits'[n] = commits[n]
        /\ commits'[Last + 1] = e
    BY <1>2, <1>3, AppendProperties DEF Last
  <1>5. phase' = p
    BY <1>2, <1>3, <1>4 DEF phase, PhaseOf
  <1>6. faults' \in 0..MaxFaults
    BY BoundsAssumption DEF Commit, TypeOK
  <1>7. UNCHANGED <<registered, ch, pc, snap, behind, seen, dropped>>
    BY DEF Commit
  <1> QED BY <1>2, <1>4, <1>5, <1>6, <1>7

\* A commit from the current object goes up and follows no outcome; a re-applied approval
\* is counted.
LEMMA CommitKeeps ==
  ASSUME IInv, NEW p \in Phases, NEW worker \in BOOLEAN, NEW lagged \in BOOLEAN,
         Commit(p, worker, lagged), stale' \in 0..MaxStale,
         Last + 1 =< Rank(p) + 2 * stale', phase \in Outcomes => lagged
  PROVE  IInv'
  <1>1. /\ commits' \in Seq(Commits) /\ Last' = Last + 1 /\ phase' = p
        /\ \A n \in 1..Last : commits'[n] = commits[n]
        /\ commits'[Last + 1].phase = p /\ commits'[Last + 1].lagged = lagged
        /\ commits'[Last + 1].left = {}
        /\ faults' \in 0..MaxFaults
        /\ UNCHANGED <<registered, ch, pc, snap, behind, seen, dropped>>
    BY CommitEffect DEF IInv
  <1>2. Last \in Nat /\ 1..Last' = 1..Last \cup {Last + 1} /\ Last + 1 \notin 1..Last
    BY <1>1, Types DEF IInv
  <1>3. TypeOK'
    BY <1>1 DEF IInv, TypeOK, Capacity
  <1>4. Counted'
    BY <1>1 DEF Counted
  <1>5. OutcomeHeld'
    <2> SUFFICES ASSUME NEW n \in 1..Last', commits'[n].phase \in Outcomes, n < Last'
                 PROVE  commits'[n + 1].lagged
      BY DEF OutcomeHeld, Outcomes
    <2>1. n \in 1..Last /\ commits'[n] = commits[n] /\ n \in Nat
      BY <1>1, <1>2
    <2>2. CASE n < Last
      <3>1. n + 1 \in 1..Last /\ commits[n + 1].lagged
        BY <1>2, <2>1, <2>2 DEF IInv, OutcomeHeld
      <3> QED BY <1>1, <3>1
    <2>3. CASE n = Last
      <3>1. phase \in Outcomes
        BY <1>2, <2>1, <2>3 DEF phase, PhaseOf
      <3> QED BY <1>1, <2>3, <3>1
    <2> QED BY <1>2, <2>1, <2>2, <2>3
  <1>6. OutcomeTold'
    <2> SUFFICES ASSUME NEW s \in Streams, pc[s] = "closed"
                 PROVE  \E n \in seen[s] \cap (1..Last') : commits'[n].phase \in Outcomes
      BY <1>1 DEF OutcomeTold, Outcomes
    <2>1. PICK n \in seen[s] \cap (1..Last) : commits[n].phase \in Outcomes
      BY DEF IInv, OutcomeTold
    <2> QED BY <1>1, <1>2, <2>1
  <1>7. Sending'
    <2> SUFFICES ASSUME NEW n \in 1..Last', NEW c \in commits'[n].left
                 PROVE  commits'[n].publish = "sending" /\ (c \in Streams => ~Waiting(c, n)')
      BY DEF Sending
    <2>1. n \in 1..Last /\ commits'[n] = commits[n]
      BY <1>1, <1>2
    <2> QED BY <1>1, <2>1 DEF IInv, Sending, Waiting, Slots
  <1>8. Sent'
    BY <1>1, <1>2 DEF IInv, Sent, Slots
  <1>9. Once' /\ ReadBefore' /\ Overflow'
    <2>1. \A c \in Clients : snap[c] \in Nat
      BY DEF IInv, TypeOK
    <2>2. Once'
      BY <1>1 DEF IInv, Once, Slots
    <2>3. ReadBefore'
      BY <1>1, <1>2, <2>1 DEF IInv, ReadBefore
    <2>4. Overflow'
      BY <1>1, <1>2, BoundsAssumption DEF IInv, Overflow
    <2> QED BY <2>2, <2>3, <2>4
  <1> QED BY <1>3, <1>4, <1>5, <1>6, <1>7, <1>8, <1>9 DEF IInv

\* A transition from the current object.
LEMMA CommitPhaseKeeps ==
  ASSUME IInv, NEW p \in Phases, CommitPhase(p)
  PROVE  IInv'
  <1>1. Rank(phase) + 1 =< Rank(p) /\ phase \notin Outcomes
    BY TransitionsGoUp DEF CommitPhase
  <1>2. Commit(p, phase # "Pending", FALSE) /\ UNCHANGED stale /\ stale \in 0..MaxStale
    BY DEF CommitPhase, IInv, TypeOK
  <1>3. Last \in Nat /\ stale \in Nat /\ Rank(phase) \in Nat /\ Rank(p) \in Nat
    BY Types, Ranks DEF IInv
  <1>4. Last + 1 =< Rank(p) + 2 * stale'
    BY <1>1, <1>2, <1>3 DEF IInv, Counted
  <1> QED BY <1>1, <1>2, <1>4, CommitKeeps

\* A re-applied approval: the request may come down one rank, from an outcome.
LEMMA ReapproveStaleKeeps ==
  ASSUME IInv, ReapproveStale
  PROVE  IInv'
  <1>1. Commit("Approved", TRUE, TRUE) /\ stale' = stale + 1 /\ stale < MaxStale
    BY DEF ReapproveStale
  <1>2. Last \in Nat /\ stale \in Nat /\ Rank(phase) \in Nat /\ Rank(phase) =< 3
    BY Types, Ranks DEF IInv
  <1>3. Rank("Approved") = 2 /\ "Approved" \in Phases
    BY DEF Rank, Phases
  <1>4. Last + 1 =< Rank("Approved") + 2 * stale'
    BY <1>1, <1>2, <1>3 DEF IInv, Counted
  <1>5. stale' \in 0..MaxStale
    BY <1>1, <1>2, BoundsAssumption
  <1> QED BY <1>1, <1>3, <1>4, <1>5, CommitKeeps

\* A commit keeps its phase while it is published; nothing else is known to change.
SamePhases ==
  /\ commits' \in Seq(Commits) /\ Last' = Last
  /\ \A n \in 1..Last : commits'[n].phase = commits[n].phase /\ commits'[n].lagged = commits[n].lagged

\* What is known of the phases survives a publish.
LEMMA PublishKeeps ==
  ASSUME IInv, SamePhases, UNCHANGED stale
  PROVE  Counted' /\ OutcomeHeld'
  <1>1. Last \in Nat /\ phase' = phase
    BY Types DEF IInv, SamePhases, phase, PhaseOf
  <1>2. Counted'
    BY <1>1 DEF SamePhases, IInv, Counted
  <1>3. OutcomeHeld'
    BY <1>1 DEF SamePhases, IInv, OutcomeHeld
  <1> QED BY <1>2, <1>3

\* One commit's publish moves on.
LEMMA ReplaceEffect ==
  ASSUME TypeOK, NEW n \in 1..Last, NEW e \in Commits,
         e.phase = commits[n].phase, e.lagged = commits[n].lagged,
         commits' = [commits EXCEPT ![n] = e]
  PROVE  /\ SamePhases /\ commits'[n] = e
         /\ \A k \in 1..Last : k # n => commits'[k] = commits[k]
  <1>1. commits \in Seq(Commits) /\ Last \in Nat
    BY Types DEF TypeOK
  <1>2. /\ commits' \in Seq(Commits) /\ Len(commits') = Len(commits)
        /\ \A k \in 1..Len(commits) : commits'[k] = IF k = n THEN e ELSE commits[k]
    BY <1>1, ExceptSeq DEF Last
  <1> QED BY <1>2 DEF SamePhases, Last

\* A publish starts: nothing of it is in any channel yet.
LEMMA PublishSnapshotKeeps ==
  ASSUME IInv, NEW n \in 1..Last, PublishSnapshot(n)
  PROVE  IInv'
  <1>0. /\ commits[n].publish = "committed" /\ registered \subseteq Clients
        /\ commits' = [commits EXCEPT ![n] = [@ EXCEPT !.publish = "sending", !.left = registered]]
        /\ UNCHANGED <<registered, ch, pc, snap, behind, seen, dropped, faults, stale>>
    BY DEF PublishSnapshot, IInv, TypeOK
  <1>1. /\ SamePhases /\ commits'[n].publish = "sending" /\ commits'[n].left = registered
        /\ \A k \in 1..Last : k # n => commits'[k] = commits[k]
    <2> DEFINE e == [commits[n] EXCEPT !.publish = "sending", !.left = registered]
    <2>1. /\ e \in Commits /\ e.publish = "sending" /\ e.left = registered
          /\ e.phase = commits[n].phase /\ e.lagged = commits[n].lagged
      BY <1>0, Types DEF IInv, Commits
    <2>2. commits' = [commits EXCEPT ![n] = e]
      BY <1>0
    <2> HIDE DEF e
    <2> QED BY <2>1, <2>2, ReplaceEffect DEF IInv
  <1>2. Last' = Last /\ commits' \in Seq(Commits)
    BY <1>1 DEF SamePhases
  <1>3. TypeOK'
    BY <1>0, <1>2 DEF IInv, TypeOK, Capacity
  <1>4. \A c \in Clients : ~Waiting(c, n)
    <2>1. n # Other
      BY Types DEF IInv, Other
    <2> QED BY <1>0, <2>1 DEF IInv, Sent, Waiting
  <1>5. Counted' /\ OutcomeHeld'
    BY <1>0, <1>1, PublishKeeps
  <1>6. OutcomeTold'
    BY <1>0, <1>1, <1>2 DEF SamePhases, IInv, OutcomeTold
  <1>7. Sending'
    BY <1>0, <1>1, <1>2, <1>4 DEF IInv, Sending, Waiting, Slots
  <1>8. Sent'
    BY <1>0, <1>1, <1>2 DEF IInv, Sent, Slots
  <1>9. Once' /\ ReadBefore' /\ Overflow'
    BY <1>0, <1>2 DEF IInv, Once, Slots, ReadBefore, Overflow
  <1> QED BY <1>3, <1>5, <1>6, <1>7, <1>8, <1>9 DEF IInv

\* One event more in one channel.
LEMMA AppendEffect ==
  ASSUME TypeOK, NEW c \in Clients, NEW e \in Nat, Len(ch[c]) < Capacity(c),
         ch' = [ch EXCEPT ![c] = Append(@, e)]
  PROVE  /\ ch' \in [Clients -> Seq(Nat)]
         /\ \A d \in Clients : Len(ch'[d]) =< Capacity(d)
         /\ Len(ch[c]) \in Nat /\ Len(ch'[c]) = Len(ch[c]) + 1
         /\ ch'[c][Len(ch[c]) + 1] = e /\ \A i \in Slots(c) : ch'[c][i] = ch[c][i]
         /\ \A d \in Clients : d # c => ch'[d] = ch[d]
  <1>0. /\ ch \in [Clients -> Seq(Nat)] /\ ch[c] \in Seq(Nat)
        /\ Len(ch[c]) \in Nat /\ Capacity(c) \in Nat
        /\ \A d \in Clients : Len(ch[d]) =< Capacity(d)
    BY BoundsAssumption DEF TypeOK, Capacity
  <1> DEFINE q == Append(ch[c], e)
  <1>1. /\ q \in Seq(Nat) /\ Len(q) = Len(ch[c]) + 1
        /\ q[Len(ch[c]) + 1] = e /\ \A i \in 1..Len(ch[c]) : q[i] = ch[c][i]
    BY <1>0, AppendProperties
  <1>2. ch' = [ch EXCEPT ![c] = q]
    OBVIOUS
  <1> HIDE DEF q
  <1>3. /\ ch' \in [Clients -> Seq(Nat)] /\ ch'[c] = q
        /\ \A d \in Clients : d # c => ch'[d] = ch[d]
    BY <1>0, <1>1, <1>2
  <1>4. \A d \in Clients : Len(ch'[d]) =< Capacity(d)
    BY <1>0, <1>1, <1>3
  <1> QED BY <1>0, <1>1, <1>3, <1>4 DEF Slots

\* A send goes to a stream at most once per commit: when it finds the buffer full, there
\* are more commits than slots.
LEMMA PublishSendKeeps ==
  ASSUME IInv, NEW n \in 1..Last, NEW c \in Clients, PublishSend(n, c)
  PROVE  IInv'
  <1>0. /\ c \in commits[n].left /\ commits[n].publish = "sending"
        /\ commits' = [commits EXCEPT ![n] = [@ EXCEPT !.left = commits[n].left \ {c}]]
        /\ UNCHANGED <<registered, pc, snap, behind, seen, faults, stale>>
    BY DEF PublishSend, IInv, Sending
  <1>1. /\ SamePhases /\ commits'[n].publish = "sending" /\ commits'[n].left = commits[n].left \ {c}
        /\ \A k \in 1..Last : k # n => commits'[k] = commits[k]
    <2> DEFINE e == [commits[n] EXCEPT !.left = commits[n].left \ {c}]
    <2>1. /\ e \in Commits /\ e.publish = "sending" /\ e.left = commits[n].left \ {c}
          /\ e.phase = commits[n].phase /\ e.lagged = commits[n].lagged
      BY <1>0, Types DEF IInv, Commits
    <2>2. commits' = [commits EXCEPT ![n] = e]
      BY <1>0
    <2> HIDE DEF e
    <2> QED BY <2>1, <2>2, ReplaceEffect DEF IInv
  <1>2. Last' = Last /\ commits' \in Seq(Commits) /\ Last \in Nat /\ n \in Nat /\ n # Other
    BY <1>1, Types DEF SamePhases, IInv, Other
  <1>3. Counted' /\ OutcomeHeld' /\ OutcomeTold' /\ ReadBefore'
    <2>1. Counted' /\ OutcomeHeld'
      BY <1>0, <1>1, PublishKeeps
    <2>2. OutcomeTold' /\ ReadBefore'
      BY <1>0, <1>1, <1>2 DEF SamePhases, IInv, OutcomeTold, ReadBefore
    <2> QED BY <2>1, <2>2
  <1>4. \A k \in 1..Last : /\ commits'[k].publish = commits[k].publish
                           /\ commits'[k].left \subseteq commits[k].left
    BY <1>0, <1>1
  <1>5. CASE /\ UNCHANGED ch
             /\ \/ UNCHANGED dropped
                \/ Len(ch[c]) >= Capacity(c) /\ dropped' = [dropped EXCEPT ![c] = @ \cup {n}]
    <2>1. dropped' \in [Clients -> SUBSET Nat]
      <3>1. dropped \in [Clients -> SUBSET Nat]
        BY DEF IInv, TypeOK
      <3>2. dropped[c] \cup {n} \in SUBSET Nat
        BY <1>2, <3>1
      <3> QED BY <1>5, <3>1, <3>2
    <2>2. TypeOK'
      BY <1>0, <1>2, <1>5, <2>1 DEF IInv, TypeOK, Capacity
    <2>3. Overflow'
      <3> SUFFICES ASSUME NEW s \in Streams, dropped'[s] # {} PROVE StreamCapacity < Last
        BY <1>2 DEF Overflow
      <3>1. CASE dropped'[s] = dropped[s]
        BY <3>1 DEF IInv, Overflow
      <3>2. CASE s = c /\ Len(ch[c]) >= Capacity(c)
        <4>1. Len(ch[s]) < Last /\ Len(ch[s]) \in Nat
          <5>1. ~Waiting(s, n)
            BY <1>0, <3>2 DEF IInv, Sending
          <5> QED BY <3>2, <5>1, RoomInStream, Types DEF IInv
        <4> QED BY <1>2, <3>2, <4>1, BoundsAssumption DEF Capacity
      <3>3. \/ dropped'[s] = dropped[s]
            \/ s = c /\ Len(ch[c]) >= Capacity(c)
        BY <1>5 DEF IInv, TypeOK, Clients
      <3> QED BY <3>1, <3>2, <3>3
    <2>4. Sending'
      BY <1>2, <1>4, <1>5 DEF IInv, Sending, Waiting, Slots
    <2>5. Sent'
      BY <1>2, <1>4, <1>5 DEF IInv, Sent, Slots
    <2>6. Once'
      BY <1>5 DEF IInv, Once, Slots
    <2> QED BY <1>3, <2>2, <2>3, <2>4, <2>5, <2>6 DEF IInv
  <1>6. CASE /\ Len(ch[c]) < Capacity(c)
             /\ ch' = [ch EXCEPT ![c] = Append(@, n)] /\ UNCHANGED dropped
    <2>1. /\ ch' \in [Clients -> Seq(Nat)]
          /\ \A d \in Clients : Len(ch'[d]) =< Capacity(d)
          /\ Len(ch[c]) \in Nat /\ Len(ch'[c]) = Len(ch[c]) + 1
          /\ ch'[c][Len(ch[c]) + 1] = n /\ \A i \in Slots(c) : ch'[c][i] = ch[c][i]
          /\ \A d \in Clients : d # c => ch'[d] = ch[d]
      BY <1>2, <1>6, AppendEffect DEF IInv
    <2>2. TypeOK'
      BY <1>0, <1>2, <1>6, <2>1 DEF IInv, TypeOK, Capacity
    <2>3. Slots(c)' = Slots(c) \cup {Len(ch[c]) + 1} /\ \A d \in Clients : d # c => Slots(d)' = Slots(d)
      BY <2>1 DEF Slots
    <2>4. Sending'
      <3> SUFFICES ASSUME NEW k \in 1..Last, NEW d \in commits'[k].left
                   PROVE  commits'[k].publish = "sending" /\ (d \in Streams => ~Waiting(d, k)')
        BY <1>2 DEF Sending
      <3>1. d \in commits[k].left /\ d \in Clients
        BY <1>4, Types DEF IInv
      <3>2. commits'[k].publish = "sending" /\ (d \in Streams => ~Waiting(d, k))
        BY <1>4, <3>1 DEF IInv, Sending
      <3>3. d # c \/ k # n
        BY <1>1
      <3>4. Waiting(d, k)' => Waiting(d, k)
        BY <2>1, <2>3, <3>1, <3>3 DEF Waiting
      <3> QED BY <3>2, <3>4
    <2>5. Sent'
      <3> SUFFICES ASSUME NEW d \in Clients, NEW i \in Slots(d)', ch'[d][i] # Other
                   PROVE  ch'[d][i] \in 1..Last /\ commits'[ch'[d][i]].publish = "sending"
        BY <1>2 DEF Sent
      <3>1. CASE d = c /\ i = Len(ch[c]) + 1
        BY <1>1, <2>1, <3>1
      <3>2. CASE i \in Slots(d)
        <4>1. ch'[d][i] = ch[d][i]
          BY <2>1, <3>2
        <4> QED BY <1>4, <3>2, <4>1 DEF IInv, Sent
      <3> QED BY <2>3, <3>1, <3>2
    <2>6. Once'
      <3>1. c \in Streams => ~Waiting(c, n)
        BY <1>0 DEF IInv, Sending
      <3> SUFFICES ASSUME NEW s \in Streams, NEW i \in Slots(s)'
                   PROVE  /\ ch'[s][i] # Other
                          /\ \A j \in Slots(s)' : ch'[s][i] = ch'[s][j] => i = j
        BY DEF Once
      <3>2. CASE s # c
        <4>1. s \in Clients /\ Slots(s)' = Slots(s) /\ ch'[s] = ch[s]
          BY <2>1, <2>3, <3>2 DEF Clients
        <4> QED BY <4>1 DEF IInv, Once
      <3>3. CASE s = c
        <4>1. \A j \in Slots(c) : ch'[c][j] = ch[c][j] /\ ch[c][j] # n
          BY <2>1, <3>1, <3>3 DEF Waiting
        <4>2. CASE i \in Slots(c)
          BY <1>2, <2>1, <2>3, <3>3, <4>1, <4>2 DEF IInv, Once
        <4>3. CASE i = Len(ch[c]) + 1
          BY <1>2, <2>1, <2>3, <3>3, <4>1, <4>3
        <4> QED BY <2>3, <3>3, <4>2, <4>3
      <3> QED BY <3>2, <3>3
    <2>7. Overflow'
      BY <1>2, <1>6 DEF IInv, Overflow
    <2> QED BY <1>3, <2>2, <2>4, <2>5, <2>6, <2>7 DEF IInv
  <1> QED BY <1>5, <1>6 DEF PublishSend

\* Another request's event is no commit of this one, and reaches no stream of it.
LEMMA OtherRequestKeeps ==
  ASSUME IInv, NEW w \in Watchers, OtherRequest(w)
  PROVE  IInv'
  <1>0. /\ w \in Clients /\ Len(ch[w]) < Capacity(w) /\ ch' = [ch EXCEPT ![w] = Append(@, Other)]
        /\ UNCHANGED <<commits, registered, pc, snap, behind, seen, dropped, faults, stale>>
    BY DEF OtherRequest, Clients
  <1>1. /\ ch' \in [Clients -> Seq(Nat)]
        /\ \A d \in Clients : Len(ch'[d]) =< Capacity(d)
        /\ Len(ch[w]) \in Nat /\ Len(ch'[w]) = Len(ch[w]) + 1
        /\ ch'[w][Len(ch[w]) + 1] = Other /\ \A i \in Slots(w) : ch'[w][i] = ch[w][i]
        /\ \A d \in Clients : d # w => ch'[d] = ch[d]
    <2>1. Other \in Nat
      BY DEF Other
    <2> QED BY <1>0, <2>1, AppendEffect DEF IInv
  <1>2. w \notin Streams /\ Last' = Last /\ phase' = phase
    BY <1>0, ClientsAssumption DEF Last, phase, PhaseOf
  <1>3. TypeOK'
    BY <1>0, <1>1 DEF IInv, TypeOK, Capacity
  <1>4. Slots(w)' = Slots(w) \cup {Len(ch[w]) + 1} /\ \A d \in Clients : d # w => Slots(d)' = Slots(d)
    BY <1>1 DEF Slots
  <1>5. Sending' /\ Once'
    BY <1>0, <1>1, <1>2, <1>4 DEF IInv, Sending, Once, Waiting, Clients
  <1>6. Sent'
    <2> SUFFICES ASSUME NEW d \in Clients, NEW i \in Slots(d)', ch'[d][i] # Other
                 PROVE  ch'[d][i] \in 1..Last /\ commits[ch'[d][i]].publish = "sending"
      BY <1>0, <1>2 DEF Sent
    <2>1. i \in Slots(d) /\ ch'[d][i] = ch[d][i]
      BY <1>1, <1>4
    <2> QED BY <2>1 DEF IInv, Sent
  <1>7. Counted' /\ OutcomeHeld' /\ OutcomeTold' /\ ReadBefore' /\ Overflow'
    BY <1>0, <1>2 DEF IInv, Counted, OutcomeHeld, OutcomeTold, ReadBefore, Overflow
  <1> QED BY <1>3, <1>5, <1>6, <1>7 DEF IInv

\* A crash empties the channels and ends the publishes.
LEMMA CrashKeeps ==
  ASSUME IInv, Crash
  PROVE  IInv'
  <1>0. /\ commits' = [n \in 1..Last |->
             [commits[n] EXCEPT !.publish = IF Published(n) THEN @ ELSE "never", !.left = {}]]
        /\ registered' = {}
        /\ ch' = [c \in Clients |-> << >>]
        /\ pc' = [c \in Clients |-> IF pc[c] = "closed" THEN "closed" ELSE "gone"]
        /\ snap' = [c \in Clients |-> 0] /\ behind' = [c \in Clients |-> FALSE]
        /\ seen' = [c \in Clients |-> IF pc[c] = "closed" THEN seen[c] ELSE {}]
        /\ dropped' = [c \in Clients |-> {}]
        /\ UNCHANGED stale
    BY DEF Crash
  <1>1. faults' \in 0..MaxFaults
    <2>1. faults < MaxFaults /\ faults' = faults + 1 /\ faults \in 0..MaxFaults
      BY DEF Crash, IInv, TypeOK
    <2> QED BY <2>1, BoundsAssumption
  <1>2. \A c \in Clients : ch'[c] = << >> /\ Len(ch'[c]) = 0 /\ Capacity(c) \in Nat
    BY <1>0, BoundsAssumption DEF Capacity
  <1>3. SamePhases /\ \A n \in 1..Last : commits'[n].left = {}
    <2> DEFINE e(n) == [commits[n] EXCEPT !.publish = IF Published(n) THEN @ ELSE "never", !.left = {}]
    <2>1. \A n \in 1..Last : /\ e(n) \in Commits /\ e(n).left = {}
                             /\ e(n).phase = commits[n].phase /\ e(n).lagged = commits[n].lagged
      BY Types DEF IInv, Commits
    <2>2. commits' = [n \in 1..Last |-> e(n)]
      BY <1>0
    <2> HIDE DEF e
    <2>3. Last \in Nat
      BY Types DEF IInv
    <2>4. commits' \in Seq(Commits) /\ Len(commits') = Last /\ \A n \in 1..Last : commits'[n] = e(n)
      BY <2>1, <2>2, <2>3
    <2> QED BY <2>1, <2>4 DEF SamePhases, Last
  <1>4. commits' \in Seq(Commits) /\ Last' = Last /\ Last \in Nat
    BY <1>3, Types DEF SamePhases, IInv
  <1>5. TypeOK'
    <2>1. ch' \in [Clients -> Seq(Nat)] /\ \A c \in Clients : Len(ch'[c]) =< Capacity(c)
      <3>1. << >> \in Seq(Nat)
        OBVIOUS
      <3>2. ch' \in [Clients -> Seq(Nat)]
        BY <1>0, <3>1
      <3> QED BY <1>2, <3>2
    <2>2. pc' \in [Clients -> {"idle", "found", "subscribed", "stream", "closed", "gone"}]
      BY <1>0
    <2>3. seen' \in [Clients -> SUBSET Nat]
      BY <1>0 DEF IInv, TypeOK
    <2> QED BY <1>0, <1>1, <1>4, <2>1, <2>2, <2>3 DEF IInv, TypeOK, Capacity
  <1>6. Counted' /\ OutcomeHeld'
    BY <1>0, <1>3, PublishKeeps
  <1>7. OutcomeTold'
    <2> SUFFICES ASSUME NEW s \in Streams, pc'[s] = "closed"
                 PROVE  \E n \in seen'[s] \cap (1..Last) : commits'[n].phase \in Outcomes
      BY <1>4 DEF OutcomeTold, Outcomes
    <2>1. pc[s] = "closed" /\ seen'[s] = seen[s]
      BY <1>0 DEF Clients
    <2> QED BY <1>3, <2>1 DEF SamePhases, IInv, OutcomeTold
  <1>8. Sending' /\ Sent' /\ Once'
    <2>1. \A c \in Clients : Slots(c)' = {}
      BY <1>2 DEF Slots
    <2> QED BY <1>3, <1>4, <2>1 DEF Sending, Sent, Once, Clients
  <1>9. ReadBefore' /\ Overflow'
    <2>1. \A c \in Clients : snap'[c] = 0 /\ dropped'[c] = {}
      BY <1>0
    <2> QED BY <1>4, <2>1 DEF ReadBefore, Overflow, Clients
  <1> QED BY <1>5, <1>6, <1>7, <1>8, <1>9 DEF IInv

-----------------------------------------------------------------------------
(* The clients' handlers.                                                  *)

\* A handler moves on: it takes events out of its channel, or leaves them there.
LEMMA ReaderKeeps ==
  ASSUME IInv, UNCHANGED <<commits, stale>>,
         ch' \in [Clients -> Seq(Nat)],
         \A c \in Clients : \/ ch'[c] = ch[c] \/ ch'[c] = << >>
                            \/ ch[c] # << >> /\ ch'[c] = Tail(ch[c]),
         pc' \in [Clients -> {"idle", "found", "subscribed", "stream", "closed", "gone"}],
         registered' \subseteq Clients, snap' \in [Clients -> Nat],
         behind' \in [Clients -> BOOLEAN], seen' \in [Clients -> SUBSET Nat],
         dropped' \in [Clients -> SUBSET Nat], \A c \in Clients : dropped'[c] \in {dropped[c], {}},
         faults' \in 0..MaxFaults, ReadBefore', OutcomeTold'
  PROVE  IInv'
  <1>1. /\ Shrinks
        /\ \A c \in Clients : Len(ch'[c]) =< Capacity(c)
    BY ChannelsShrink DEF IInv
  <1>2. TypeOK'
    BY <1>1 DEF IInv, TypeOK, Capacity
  <1>3. Sending' /\ Sent' /\ Once'
    BY <1>1, <1>2, ShrinkKeeps DEF IInv
  <1>4. Last' = Last /\ phase' = phase
    BY DEF Last, phase, PhaseOf
  <1>5. Counted' /\ OutcomeHeld' /\ Overflow'
    BY <1>4 DEF IInv, Counted, OutcomeHeld, Overflow, Clients
  <1> QED BY <1>2, <1>3, <1>5 DEF IInv

\* The types a handler starts from.
LEMMA ReaderTypes ==
  ASSUME IInv
  PROVE  /\ ch \in [Clients -> Seq(Nat)]
         /\ pc \in [Clients -> {"idle", "found", "subscribed", "stream", "closed", "gone"}]
         /\ registered \subseteq Clients /\ snap \in [Clients -> Nat] /\ Last \in Nat
         /\ behind \in [Clients -> BOOLEAN] /\ seen \in [Clients -> SUBSET Nat]
         /\ dropped \in [Clients -> SUBSET Nat] /\ faults \in 0..MaxFaults
  BY Types DEF IInv, TypeOK

\* Handlers that find the request, subscribe or leave tell their client nothing.
LEMMA QuietReaderKeeps ==
  ASSUME IInv, NEW c \in Clients,
         \/ c \in Streams /\ (FindRequest(c) \/ Subscribe(c))
         \/ c \in Watchers /\ SubscribeAll(c)
         \/ Disconnect(c)
  PROVE  IInv'
  <1>0. /\ UNCHANGED <<commits, faults, stale>>
        /\ UNCHANGED ch \/ ch' = [ch EXCEPT ![c] = << >>]
        /\ UNCHANGED snap \/ (\E n \in {Last, 0} : snap' = [snap EXCEPT ![c] = n])
        /\ UNCHANGED behind \/ behind' = [behind EXCEPT ![c] = FALSE]
        /\ UNCHANGED seen \/ (seen' = [seen EXCEPT ![c] = {}] /\ pc' = [pc EXCEPT ![c] = "gone"])
        /\ UNCHANGED dropped \/ dropped' = [dropped EXCEPT ![c] = {}]
        /\ \E v \in {"found", "subscribed", "stream", "gone"} : pc' = [pc EXCEPT ![c] = v]
        /\ registered' \in {registered, registered \cup {c}, registered \ {c}}
    BY DEF FindRequest, Subscribe, SubscribeAll, Disconnect
  <1>1. /\ pc' \in [Clients -> {"idle", "found", "subscribed", "stream", "closed", "gone"}]
        /\ \A d \in Clients : pc'[d] = "closed" => pc[d] = "closed" /\ d # c
    BY <1>0, ReaderTypes
  <1>2. seen' \in [Clients -> SUBSET Nat] /\ \A d \in Clients : d # c => seen'[d] = seen[d]
    BY <1>0, ReaderTypes
  <1>3. OutcomeTold'
    <2> SUFFICES ASSUME NEW s \in Streams, pc'[s] = "closed"
                 PROVE  \E n \in seen'[s] \cap (1..Last) : commits[n].phase \in Outcomes
      BY <1>0 DEF OutcomeTold, Outcomes, Last
    <2>1. pc[s] = "closed" /\ seen'[s] = seen[s]
      BY <1>1, <1>2 DEF Clients
    <2> QED BY <2>1 DEF IInv, OutcomeTold
  <1>4. snap' \in [Clients -> Nat] /\ ReadBefore'
    <2>1. Last' = Last /\ Last \in Nat
      BY <1>0, ReaderTypes DEF Last
    <2>2. snap' \in [Clients -> Nat] /\ \A d \in Clients : snap'[d] \in {snap[d], Last, 0}
      <3>1. CASE UNCHANGED snap
        BY <3>1, ReaderTypes
      <3>2. CASE \E n \in {Last, 0} : snap' = [snap EXCEPT ![c] = n]
        <4>1. PICK n \in {Last, 0} : snap' = [snap EXCEPT ![c] = n]
          BY <3>2
        <4>2. n \in Nat
          BY <2>1
        <4>3. snap \in [Clients -> Nat]
          BY ReaderTypes
        <4>4. [snap EXCEPT ![c] = n] \in [Clients -> Nat]
          BY <4>2, <4>3
        <4>5. \A d \in Clients : [snap EXCEPT ![c] = n][d] \in {snap[d], n}
          BY <4>3
        <4> QED BY <4>1, <4>4, <4>5
      <3> QED BY <1>0, <3>1, <3>2
    <2> QED BY <2>1, <2>2 DEF IInv, ReadBefore
  <1>5. /\ ch' \in [Clients -> Seq(Nat)]
        /\ \A d \in Clients : ch'[d] = ch[d] \/ ch'[d] = << >>
    <2>1. CASE UNCHANGED ch
      BY <2>1, ReaderTypes
    <2>2. CASE ch' = [ch EXCEPT ![c] = << >>]
      <3>1. << >> \in Seq(Nat)
        OBVIOUS
      <3> QED BY <2>2, <3>1, ReaderTypes
    <2> QED BY <1>0, <2>1, <2>2
  <1>6. /\ registered' \subseteq Clients /\ behind' \in [Clients -> BOOLEAN]
        /\ dropped' \in [Clients -> SUBSET Nat] /\ \A d \in Clients : dropped'[d] \in {dropped[d], {}}
    BY <1>0, ReaderTypes
  <1> QED BY <1>0, <1>1, <1>2, <1>3, <1>4, <1>5, <1>6, ReaderKeeps, ReaderTypes

\* A stream that is told an outcome closes, and only such a stream does.
LEMMA EmitEffect ==
  ASSUME IInv, NEW c \in Clients, NEW n \in 0..Last, Emit(c, n), UNCHANGED commits
  PROVE  /\ pc' \in [Clients -> {"idle", "found", "subscribed", "stream", "closed", "gone"}]
         /\ registered' \subseteq Clients /\ seen' \in [Clients -> SUBSET Nat]
         /\ OutcomeTold'
  <1>0. /\ seen' = [seen EXCEPT ![c] = @ \cup ({n} \ {Other})]
        /\ \/ isTerminalPhase(PhaseOf(n)) /\ pc' = [pc EXCEPT ![c] = "closed"]
           \/ pc' = [pc EXCEPT ![c] = "stream"]
        /\ registered' \in {registered, registered \ {c}}
    BY DEF Emit
  <1>1. n \in Nat /\ seen[c] \cup ({n} \ {Other}) \in SUBSET Nat
    BY ReaderTypes
  <1>2. /\ seen' \in [Clients -> SUBSET Nat] /\ seen'[c] = seen[c] \cup ({n} \ {Other})
        /\ \A d \in Clients : d # c => seen'[d] = seen[d]
    BY <1>0, <1>1, ReaderTypes
  <1>3. /\ pc' \in [Clients -> {"idle", "found", "subscribed", "stream", "closed", "gone"}]
        /\ \A d \in Clients : d # c => pc'[d] = pc[d]
        /\ pc'[c] = "closed" => PhaseOf(n) \in Outcomes
    BY <1>0, ReaderTypes, Ranks
  <1>4. OutcomeTold'
    <2> SUFFICES ASSUME NEW s \in Streams, pc'[s] = "closed"
                 PROVE  \E k \in seen'[s] \cap (1..Last) : commits[k].phase \in Outcomes
      BY DEF OutcomeTold, Outcomes, Last
    <2>1. CASE s = c
      <3>1. n # Other /\ commits[n].phase \in Outcomes
        BY <1>3, <2>1 DEF PhaseOf, Outcomes, Other
      <3>2. n \in 1..Last /\ n \in seen'[s]
        BY <1>1, <1>2, <2>1, <3>1, ReaderTypes DEF Other
      <3> QED BY <3>1, <3>2
    <2>2. CASE s # c
      <3>1. pc[s] = "closed" /\ seen'[s] = seen[s]
        BY <1>2, <1>3, <2>2 DEF Clients
      <3> QED BY <3>1 DEF IInv, OutcomeTold
    <2> QED BY <2>1, <2>2
  <1>5. registered' \subseteq Clients
    BY <1>0, ReaderTypes
  <1> QED BY <1>2, <1>3, <1>4, <1>5

\* The snapshot: the phase re-read, or the phase read before.
LEMMA SnapshotKeeps ==
  ASSUME IInv, NEW s \in Streams, Snapshot(s)
  PROVE  IInv'
  <1>0. s \in Clients /\ UNCHANGED <<commits, ch, dropped, stale>> /\ snap' = [snap EXCEPT ![s] = 0]
    BY DEF Snapshot, Clients
  <1>1. PICK n \in 0..Last : Emit(s, n)
    BY <1>0, ReaderTypes DEF Snapshot, IInv, ReadBefore
  <1>2. /\ pc' \in [Clients -> {"idle", "found", "subscribed", "stream", "closed", "gone"}]
        /\ registered' \subseteq Clients /\ seen' \in [Clients -> SUBSET Nat]
        /\ OutcomeTold'
    BY <1>0, <1>1, EmitEffect
  <1>3. behind' \in [Clients -> BOOLEAN] /\ faults' \in 0..MaxFaults
    <2>1. /\ UNCHANGED behind \/ behind' = [behind EXCEPT ![s] = TRUE]
          /\ UNCHANGED faults \/ (faults < MaxFaults /\ faults' = faults + 1)
      BY DEF Snapshot
    <2>2. behind' \in [Clients -> BOOLEAN]
      BY <2>1, ReaderTypes
    <2>3. faults' \in 0..MaxFaults
      <3>1. faults \in 0..MaxFaults
        BY ReaderTypes
      <3> QED BY <2>1, <3>1, BoundsAssumption
    <2> QED BY <2>2, <2>3
  <1>4. snap' \in [Clients -> Nat] /\ ReadBefore'
    <2>1. Last' = Last /\ Last \in Nat
      BY <1>0, ReaderTypes DEF Last
    <2>2. snap' \in [Clients -> Nat] /\ \A d \in Clients : snap'[d] \in {snap[d], 0}
      BY <1>0, ReaderTypes
    <2> QED BY <2>1, <2>2 DEF IInv, ReadBefore
  <1> QED BY <1>0, <1>2, <1>3, <1>4, ReaderKeeps, ReaderTypes

\* The receive loop: what it takes out of the channel has been committed.
LEMMA ReceiveKeeps ==
  ASSUME IInv, NEW c \in Clients, Receive(c)
  PROVE  IInv'
  <1>0. /\ ch[c] # << >> /\ Emit(c, Head(ch[c]))
        /\ UNCHANGED <<commits, snap, behind, dropped, faults, stale>>
        /\ ch' = [ch EXCEPT ![c] = IF c \in registered' THEN Tail(@) ELSE << >>]
    BY DEF Receive
  <1>1. /\ ch[c] \in Seq(Nat) /\ Len(ch[c]) \in Nat
        /\ Tail(ch[c]) \in Seq(Nat) /\ << >> \in Seq(Nat)
    BY <1>0, ReaderTypes
  <1>2. 1 \in Slots(c) /\ Head(ch[c]) = ch[c][1]
    BY <1>0, <1>1 DEF Slots
  <1>3. Head(ch[c]) \in 0..Last
    BY <1>2, ReaderTypes DEF IInv, Sent, Other
  <1>4. /\ pc' \in [Clients -> {"idle", "found", "subscribed", "stream", "closed", "gone"}]
        /\ registered' \subseteq Clients /\ seen' \in [Clients -> SUBSET Nat]
        /\ OutcomeTold'
    BY <1>0, <1>3, EmitEffect
  <1>5. /\ ch' \in [Clients -> Seq(Nat)]
        /\ \A d \in Clients : d # c => ch'[d] = ch[d]
        /\ ch'[c] = << >> \/ ch'[c] = Tail(ch[c])
    BY <1>0, <1>1, ReaderTypes
  <1>6. ReadBefore'
    BY <1>0 DEF IInv, ReadBefore, Last
  <1> QED BY <1>0, <1>4, <1>5, <1>6, ReaderKeeps, ReaderTypes

-----------------------------------------------------------------------------
(* The theorems.                                                           *)

\* A new request with no clients satisfies the invariant.
LEMMA InitEstablishes ==
  ASSUME Init
  PROVE  IInv
  <1>1. \A c \in Clients : Len(ch[c]) = 0 /\ Capacity(c) \in Nat /\ Slots(c) = {}
    BY BoundsAssumption DEF Init, Capacity, Slots
  <1>2. commits \in Seq(Commits) /\ Last = 0 /\ 1..Last = {} /\ stale = 0
    BY DEF Init, Last
  <1>3. TypeOK
    <2>1. ch \in [Clients -> Seq(Nat)] /\ \A c \in Clients : Len(ch[c]) =< Capacity(c)
      BY <1>1 DEF Init
    <2> QED BY <1>2, <2>1, BoundsAssumption DEF Init, TypeOK
  <1>4. Counted
    BY <1>2, Ranks DEF Counted
  <1>5. OutcomeHeld /\ Sending /\ Sent /\ Once
    BY <1>1, <1>2 DEF OutcomeHeld, Sending, Sent, Once, Clients
  <1>6. OutcomeTold /\ ReadBefore /\ Overflow
    BY <1>2 DEF Init, OutcomeTold, ReadBefore, Overflow, Clients
  <1> QED BY <1>3, <1>4, <1>5, <1>6 DEF IInv

\* Every step of the specification keeps the invariant.
LEMMA NextKeeps ==
  ASSUME IInv, [Next]_vars
  PROVE  IInv'
  <1>1. CASE UNCHANGED vars
    <2>1. ReadBefore' /\ OutcomeTold'
      BY <1>1 DEF vars, IInv, ReadBefore, OutcomeTold, Last
    <2> QED BY <1>1, <2>1, ReaderKeeps, ReaderTypes DEF vars
  <1>2. CASE \E p \in Phases : CommitPhase(p)
    BY <1>2, CommitPhaseKeeps
  <1>3. CASE ReapproveStale \/ Publisher \/ Crash
    BY <1>3, ReapproveStaleKeeps, PublishSnapshotKeeps, PublishSendKeeps, CrashKeeps DEF Publisher
  <1>4. CASE \E w \in Watchers : OtherRequest(w) \/ SubscribeAll(w)
    BY <1>4, OtherRequestKeeps, QuietReaderKeeps DEF Clients
  <1>5. CASE \E s \in Streams : FindRequest(s) \/ Subscribe(s) \/ Snapshot(s)
    BY <1>5, SnapshotKeeps, QuietReaderKeeps DEF Clients
  <1>6. CASE \E c \in Clients : Receive(c) \/ Disconnect(c)
    BY <1>6, ReceiveKeeps, QuietReaderKeeps
  <1> QED BY <1>1, <1>2, <1>3, <1>4, <1>5, <1>6 DEF Next

\* The inductive invariant holds in every reachable state.
LEMMA Invariance == Spec => []IInv
  BY InitEstablishes, NextKeeps, PTL DEF Spec

\* Every variable keeps its type; in particular no channel exceeds its buffer.
THEOREM EventTypeCorrect == Spec => []TypeOK
  <1>1. IInv => TypeOK
    BY DEF IInv
  <1> QED BY <1>1, Invariance, PTL

\* However publishes overtake each other, a stream the server closed has told its
\* client an outcome of the request, and only a re-applied playbook approval has undone
\* that outcome since (serveEvents; handleNew's updateStatus).
THEOREM StreamsCloseWithOutcome == Spec => []ClosesWithOutcome
  <1>1. IInv => ClosesWithOutcome
    <2> SUFFICES ASSUME IInv, NEW s \in Streams, pc[s] = "closed"
                 PROVE  \E n \in seen[s] \cap (1..Last) :
                          commits[n].phase \in Outcomes /\ (n < Last => commits[n + 1].lagged)
      BY DEF ClosesWithOutcome
    <2>1. PICK n \in seen[s] \cap (1..Last) : commits[n].phase \in Outcomes
      BY DEF IInv, OutcomeTold
    <2> QED BY <2>1 DEF IInv, OutcomeHeld
  <1> QED BY <1>1, Invariance, PTL

\* A stream's buffer swallows an event only under more commits than it has slots, and
\* there are at most three and two per re-applied approval: Subscribe's eight slots
\* suffice until the third one, whoever stops reading (Broadcaster.Publish).
THEOREM StreamBufferSuffices == Spec => []StreamsDropOnlyRepeats
  <1>1. IInv => StreamsDropOnlyRepeats
    <2> SUFFICES ASSUME IInv PROVE StreamsDropOnlyRepeats
      OBVIOUS
    <2>1. Last \in Nat /\ stale \in Nat /\ Rank(phase) \in Nat /\ Rank(phase) =< 3
      BY Types, Ranks DEF IInv
    <2>2. Last =< Most(stale)
      BY <2>1 DEF IInv, Counted, Most
    <2> QED BY <2>2 DEF IInv, Overflow, StreamsDropOnlyRepeats
  <1> QED BY <1>1, Invariance, PTL
=============================================================================
