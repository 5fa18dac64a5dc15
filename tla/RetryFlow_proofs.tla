-------------------------- MODULE RetryFlow_proofs --------------------------
(***************************************************************************)
(* Proofs about RetryFlow, for any number of replicas, submissions,        *)
(* requests, conflict retries and faults: whichever path answers a retry,  *)
(* the source is linked to its own successor, the caller is told that one, *)
(* and no process has two equivalent requests active.                      *)
(***************************************************************************)
EXTENDS RetryFlow, SequenceTheorems, FiniteSetTheorems, TLAPS

-----------------------------------------------------------------------------
(* The inductive invariant.                                                *)

\* The steps a handler takes under requestMu.
Held == {"get", "list", "create", "getAgain", "link"}

\* u is an active request that replica r created.
Mine(r, u) == reqs[u].by = {r} /\ reqs[u].active

\* u is a successor of the source.
Good(u) == u \in Uids /\ reqs[u].child /\ reqs[u].lineage /\ reqs[u].same

\* What the API creates has the source's fingerprint; a deleted request is not active.
Objects == \A u \in Uids : /\ reqs[u].by # {} => reqs[u].same
                           /\ reqs[u].active => reqs[u].exists

\* NoActiveDuplicate without counting.
AtMostOne ==
  \A r \in Replicas, u \in Uids : Mine(r, u) =>
    source.phase # "Approved" /\ \A v \in Uids : Mine(r, v) => u = v

SourceLinked == source.superseded # None => Good(source.superseded)

\* The informers: what they saw at the retry name had that name, and their copy of
\* the source is an older one, or the source itself, with no link of its own.
Informed ==
  \A r \in Replicas :
    /\ kidSeen[r] # None => reqs[kidSeen[r]].child
    /\ srcSeen[r].rv =< source.rv /\ (srcSeen[r].rv = source.rv => srcSeen[r] = source)
    /\ srcSeen[r].superseded # None => srcSeen[r].superseded = source.superseded

World == Objects /\ AtMostOne /\ SourceLinked /\ Informed

\* What one handler knows: it holds the mutex; between its List and its Create no
\* equivalent request is active, for only it could create one at its replica; what it
\* is about to link is a successor; what it answered is the link.
Handler(h) ==
  LET c == call[h]
  IN  /\ c.pc \in Held => mu[c.at] = {h}
      /\ c.pc = "create" => source.phase # "Approved" /\ \A u \in Uids : ~Mine(c.at, u)
      /\ c.pc = "link" => Good(c.u)
      /\ c.pc # "idle" => c.answer = "none"
      /\ c.answer = "ok" /\ c.op # "create" => c.u # None /\ source.superseded = c.u

IInv == TypeOK /\ World /\ \A h \in Handlers : Handler(h)

-----------------------------------------------------------------------------
(* What steps do to the objects and to the handlers they leave alone.      *)

\* Requests are added, end and are deleted; they change in no other way.
Grows ==
  /\ Len(reqs) =< Len(reqs')
  /\ \A u \in Uids : /\ reqs'[u].child = reqs[u].child /\ reqs'[u].lineage = reqs[u].lineage
                     /\ reqs'[u].same = reqs[u].same /\ reqs'[u].by = reqs[u].by
                     /\ reqs'[u].active => reqs[u].active

\* The source never comes back, and its link is written once.
SourceForward ==
  /\ source'.phase = "Approved" => source.phase = "Approved"
  /\ source.superseded # None => source'.superseded = source.superseded

\* The sequence of requests has a length, and None is no UID.
LEMMA UidsType ==
  ASSUME TypeOK
  PROVE  Len(reqs) \in Nat /\ None \notin Uids /\ Len(reqs) + 1 \notin Uids /\ Len(reqs) + 1 # None
  <1>1. Len(reqs) \in Nat
    BY DEF TypeOK
  <1> QED BY <1>1 DEF Uids, None

\* The budget of faults is kept.
LEMMA FaultsType ==
  ASSUME TypeOK, Fault \/ NoFault
  PROVE  faults' \in 0..MaxFaults
  BY BoundsAssumption DEF TypeOK, Fault, NoFault

\* A known successor stays one.
LEMMA GoodKept ==
  ASSUME TypeOK, Len(reqs') \in Nat, Grows, NEW u, Good(u)
  PROVE  Good(u)'
  <1>1. Len(reqs) \in Nat /\ Len(reqs) =< Len(reqs')
    BY DEF TypeOK, Grows
  <1>2. u \in Uids /\ u \in Uids'
    BY <1>1 DEF Good, Uids
  <1> QED BY <1>2 DEF Good, Grows

\* A handler that takes no step, whose mutex stays as it is and whose replica creates
\* nothing, still knows what it knew.
LEMMA HandlerKept ==
  ASSUME TypeOK, TypeOK', Grows, SourceForward, NEW g \in Handlers, Handler(g),
         call'[g] = call[g],
         call[g].pc \in Held => mu'[call[g].at] = mu[call[g].at],
         call[g].pc = "create" => \A u \in Uids' : u \notin Uids => reqs'[u].by # {call[g].at}
  PROVE  Handler(g)'
  <1> DEFINE c == call[g]
  <1>1. c.pc \in Held => mu'[c.at] = {g}
    BY DEF Handler
  <1>2. c.pc = "create" => source'.phase # "Approved" /\ \A u \in Uids' : ~(Mine(c.at, u)')
    BY DEF Handler, SourceForward, Mine, Grows
  <1>3. c.pc = "link" => Good(c.u)'
    <2>1. Len(reqs') \in Nat
      BY DEF TypeOK
    <2> QED BY <2>1, GoodKept DEF Handler
  <1>4. c.pc # "idle" => c.answer = "none"
    BY DEF Handler
  <1>5. c.answer = "ok" /\ c.op # "create" => c.u # None /\ source'.superseded = c.u
    BY DEF Handler, SourceForward
  <1> QED BY <1>1, <1>2, <1>3, <1>4, <1>5 DEF Handler, Held, Good, Mine, Uids, None

\* A step of handler h at its replica leaves every other handler's knowledge alone:
\* whoever else is under a mutex is so at another replica.
LEMMA OthersKept ==
  ASSUME IInv, TypeOK', Grows, SourceForward, NEW h \in Handlers,
         \A g \in Handlers : g # h => call'[g] = call[g],
         mu[call[h].at] \in {{}, {h}},
         \A r \in Replicas : r # call[h].at => mu'[r] = mu[r],
         \A u \in Uids' : u \notin Uids => reqs'[u].by = {call[h].at}
  PROVE  \A g \in Handlers : g # h => Handler(g)'
  <1> SUFFICES ASSUME NEW g \in Handlers, g # h
               PROVE  Handler(g)'
    OBVIOUS
  <1>1. Handler(g) /\ call[g].at \in Replicas
    BY DEF IInv, TypeOK, Call
  <1>2. call[g].pc \in Held => call[g].at # call[h].at
    BY <1>1 DEF Handler
  <1>3. call[g].pc = "create" => call[g].pc \in Held
    BY DEF Held
  <1> QED BY <1>1, <1>2, <1>3, HandlerKept DEF IInv

\* The facts about the cluster's objects when a step leaves them alone.
LEMMA WorldSame ==
  ASSUME World, UNCHANGED <<source, reqs, srcSeen, kidSeen>>
  PROVE  World' /\ Grows /\ SourceForward /\ Uids' = Uids
  <1>1. Uids' = Uids
    BY DEF Uids
  <1>2. Objects' /\ AtMostOne'
    BY <1>1 DEF World, Objects, AtMostOne, Mine
  <1>3. SourceLinked' /\ Informed'
    BY <1>1 DEF World, SourceLinked, Good, Informed, None
  <1>4. SourceForward
    BY DEF SourceForward
  <1>5. Len(reqs) =< Len(reqs') => Grows
    BY DEF Grows
  <1> QED BY <1>1, <1>2, <1>3, <1>4, <1>5 DEF World

-----------------------------------------------------------------------------
(* The cluster.                                                            *)

\* The handlers, when none of them takes a step and no replica creates anything.
LEMMA AllKept ==
  ASSUME IInv, TypeOK', Grows, SourceForward, UNCHANGED <<call, mu>>,
         \A u \in Uids' : u \notin Uids => reqs'[u].by = {}
  PROVE  \A h \in Handlers : Handler(h)'
  <1> SUFFICES ASSUME NEW h \in Handlers
               PROVE  Handler(h)'
    OBVIOUS
  <1>1. Handler(h)
    BY DEF IInv
  <1>2. \A u \in Uids' : u \notin Uids => reqs'[u].by # {call[h].at}
    OBVIOUS
  <1> QED BY <1>1, <1>2, HandlerKept DEF IInv

\* The request that is retried ends: informers now have an older copy.
LEMMA SourceEndsKeeps ==
  ASSUME IInv, SourceEnds
  PROVE  IInv'
  <1>0. /\ source \in Source /\ source.rv \in Nat /\ source.phase = "Approved"
        /\ UNCHANGED <<reqs, srcSeen, kidSeen, mu, call, faults>>
    BY DEF SourceEnds, IInv, TypeOK, Source
  <1>1. /\ source' \in Source /\ source'.rv = source.rv + 1 /\ source'.phase # "Approved"
        /\ source'.superseded = source.superseded
    <2>1. PICK ph \in {"Failed", "Denied"} : source' = [source EXCEPT !.phase = ph, !.rv = @ + 1]
      BY DEF SourceEnds
    <2>2. source.rv + 1 \in Nat
      BY <1>0
    <2> QED BY <1>0, <2>1, <2>2 DEF Source
  <1>2. TypeOK'
    BY <1>0, <1>1 DEF IInv, TypeOK
  <1>3. Grows /\ SourceForward /\ Uids' = Uids
    BY <1>0, <1>1, UidsType DEF Grows, SourceForward, Uids, IInv
  <1>4. Objects' /\ AtMostOne' /\ SourceLinked'
    BY <1>0, <1>1, <1>3 DEF IInv, World, Objects, AtMostOne, Mine, SourceLinked, Good, None
  <1>5. Informed'
    <2>1. \A r \in Replicas : srcSeen[r].rv \in Nat
      BY DEF IInv, TypeOK, Source
    <2> QED BY <1>0, <1>1, <2>1 DEF IInv, World, Informed, None
  <1>6. \A h \in Handlers : Handler(h)'
    BY <1>0, <1>2, <1>3, AllKept
  <1> QED BY <1>2, <1>4, <1>5, <1>6 DEF IInv, World

\* A request ends or is deleted.
LEMMA RequestGoesKeeps ==
  ASSUME IInv, NEW u \in Uids, RequestEnds(u) \/ DeleteRequest(u)
  PROVE  IInv'
  <1>0. /\ reqs \in Seq(Request) /\ reqs[u] \in Request /\ Len(reqs) \in Nat
        /\ UNCHANGED <<source, srcSeen, kidSeen, mu, call>>
    BY DEF RequestEnds, DeleteRequest, IInv, TypeOK, Uids
  <1>1. PICK e \in BOOLEAN : reqs' = [reqs EXCEPT ![u] = [reqs[u] EXCEPT !.active = FALSE, !.exists = e]]
    <2>1. CASE RequestEnds(u)
      <3>1. reqs' = [reqs EXCEPT ![u] = [reqs[u] EXCEPT !.active = FALSE]]
        BY <2>1 DEF RequestEnds
      <3>2. /\ [reqs[u] EXCEPT !.active = FALSE]
                 = [reqs[u] EXCEPT !.active = FALSE, !.exists = reqs[u].exists]
            /\ reqs[u].exists \in BOOLEAN
        BY <1>0 DEF Request
      <3> QED BY <3>1, <3>2
    <2>2. CASE DeleteRequest(u)
      <3>1. reqs' = [reqs EXCEPT ![u] = [reqs[u] EXCEPT !.exists = FALSE, !.active = FALSE]]
        BY <2>2, <1>0 DEF DeleteRequest
      <3>2. [reqs[u] EXCEPT !.exists = FALSE, !.active = FALSE]
              = [reqs[u] EXCEPT !.active = FALSE, !.exists = FALSE]
        BY <1>0 DEF Request
      <3> QED BY <3>1, <3>2
    <2> QED BY <2>1, <2>2
  <1> DEFINE p == [reqs[u] EXCEPT !.active = FALSE, !.exists = e]
  <1>2. /\ p \in Request /\ p.child = reqs[u].child /\ p.lineage = reqs[u].lineage
        /\ p.same = reqs[u].same /\ p.by = reqs[u].by /\ ~p.active
    BY <1>0 DEF Request
  <1> HIDE DEF p
  <1>3. /\ reqs' \in Seq(Request) /\ Len(reqs') = Len(reqs) /\ reqs'[u] = p
        /\ \A v \in Uids : v # u => reqs'[v] = reqs[v]
    <2>1. reqs' = [reqs EXCEPT ![u] = p]
      BY <1>1 DEF p
    <2> QED BY <1>0, <1>2, <2>1, ExceptSeq DEF Uids
  <1>4. faults' \in 0..MaxFaults
    BY FaultsType DEF RequestEnds, DeleteRequest, NoFault, IInv
  <1>5. TypeOK'
    BY <1>0, <1>3, <1>4 DEF IInv, TypeOK
  <1>6. Uids' = Uids
    BY <1>3 DEF Uids
  <1>7. Grows
    BY <1>0, <1>2, <1>3 DEF Grows
  <1>8. SourceForward
    BY <1>0 DEF SourceForward
  <1>9. Objects'
    BY <1>2, <1>3, <1>6 DEF IInv, World, Objects
  <1>10. AtMostOne'
    BY <1>0, <1>6, <1>7 DEF IInv, World, AtMostOne, Mine, Grows
  <1>11. SourceLinked'
    BY <1>0, <1>3, <1>7, GoodKept DEF IInv, World, SourceLinked, None
  <1>12. Informed'
    <2>1. \A r \in Replicas : kidSeen[r] # None => kidSeen[r] \in Uids
      BY <1>0 DEF IInv, TypeOK, Uids, None
    <2> QED BY <1>0, <1>7, <2>1 DEF IInv, World, Informed, Grows, None
  <1>13. \A h \in Handlers : Handler(h)'
    BY <1>0, <1>5, <1>6, <1>7, <1>8, AllKept
  <1> QED BY <1>5, <1>9, <1>10, <1>11, <1>12, <1>13 DEF IInv, World

\* One request more, at the end.
LEMMA RequestAppears ==
  ASSUME TypeOK, NEW q \in Request, reqs' = Append(reqs, q), Len(reqs) < MaxRequests
  PROVE  /\ reqs' \in Seq(Request) /\ Len(reqs') = Len(reqs) + 1 /\ Len(reqs') =< MaxRequests
         /\ reqs'[Len(reqs) + 1] = q /\ \A u \in Uids : reqs'[u] = reqs[u]
         /\ Grows /\ Uids' = Uids \cup {Len(reqs) + 1}
  <1>0. reqs \in Seq(Request) /\ Len(reqs) \in Nat
    BY DEF TypeOK
  <1>1. /\ reqs' \in Seq(Request) /\ Len(reqs') = Len(reqs) + 1
        /\ reqs'[Len(reqs) + 1] = q /\ \A u \in 1..Len(reqs) : reqs'[u] = reqs[u]
    BY <1>0, AppendProperties
  <1>2. Len(reqs') =< MaxRequests /\ Len(reqs) =< Len(reqs')
    BY <1>0, <1>1, BoundsAssumption
  <1>3. Uids' = Uids \cup {Len(reqs) + 1}
    BY <1>0, <1>1 DEF Uids
  <1>4. Grows
    BY <1>1, <1>2 DEF Grows, Uids
  <1> QED BY <1>1, <1>2, <1>3, <1>4 DEF Uids

\* A new request that no replica created, or that one created having found no
\* equivalent request active, keeps the facts about the objects.
LEMMA AppearanceKeepsWorld ==
  ASSUME IInv, UNCHANGED <<source, srcSeen, kidSeen>>,
         NEW q \in Request, reqs' = Append(reqs, q), Len(reqs) < MaxRequests,
         q.by # {} => q.same, q.active => q.exists,
         \A r \in Replicas : q.by = {r} =>
           source.phase # "Approved" /\ \A u \in Uids : ~Mine(r, u)
  PROVE  World'
  <1>1. /\ reqs'[Len(reqs) + 1] = q /\ \A u \in Uids : reqs'[u] = reqs[u]
        /\ Grows /\ Uids' = Uids \cup {Len(reqs) + 1} /\ reqs' \in Seq(Request)
    BY RequestAppears DEF IInv
  <1>2. Objects'
    BY <1>1 DEF IInv, World, Objects
  <1>3. AtMostOne'
    <2> SUFFICES ASSUME NEW r \in Replicas, NEW u \in Uids', Mine(r, u)'
                 PROVE  source.phase # "Approved" /\ \A v \in Uids' : Mine(r, v)' => u = v
      BY DEF AtMostOne
    <2>1. \A v \in Uids : Mine(r, v)' <=> Mine(r, v)
      BY <1>1 DEF Mine
    <2>2. \A v \in Uids' : v \notin Uids /\ Mine(r, v)' => q.by = {r} /\ v = Len(reqs) + 1
      BY <1>1 DEF Mine
    <2>3. CASE u \in Uids
      BY <2>1, <2>2, <2>3 DEF IInv, World, AtMostOne
    <2>4. CASE u \notin Uids
      BY <2>1, <2>2, <2>4
    <2> QED BY <2>3, <2>4
  <1>4. SourceLinked'
    BY <1>1, GoodKept DEF IInv, World, SourceLinked, None
  <1>5. Informed'
    <2>1. \A r \in Replicas : kidSeen[r] # None => kidSeen[r] \in Uids
      BY UidsType DEF IInv, TypeOK, Uids, None
    <2> QED BY <1>1, <2>1 DEF IInv, World, Informed, None
  <1> QED BY <1>2, <1>3, <1>4, <1>5 DEF World

\* Somebody else takes the retry name.
LEMMA OccupyKeeps ==
  ASSUME IInv, Occupy
  PROVE  IInv'
  <1>0. /\ Len(reqs) < MaxRequests /\ UNCHANGED <<source, srcSeen, kidSeen, mu, call, faults>>
    BY DEF Occupy
  <1>1. PICK same \in BOOLEAN :
          reqs' = Append(reqs, [NewRequest({}) EXCEPT !.child = TRUE, !.same = same])
    BY DEF Occupy
  <1> DEFINE q == [NewRequest({}) EXCEPT !.child = TRUE, !.same = same]
  <1>2. q \in Request /\ q.by = {} /\ q.exists
    BY DEF NewRequest, Request
  <1>3. reqs' = Append(reqs, q)
    BY <1>1
  <1> HIDE DEF q
  <1>4. /\ reqs' \in Seq(Request) /\ Len(reqs') = Len(reqs) + 1 /\ Len(reqs') =< MaxRequests
        /\ reqs'[Len(reqs) + 1] = q
        /\ Grows /\ Uids' = Uids \cup {Len(reqs) + 1}
    BY <1>0, <1>2, <1>3, RequestAppears DEF IInv
  <1>5. TypeOK'
    <2>1. \A n \in 0..Len(reqs) : n \in 0..Len(reqs')
      BY <1>4, UidsType DEF IInv
    <2>2. kidSeen' \in [Replicas -> 0..Len(reqs')]
      BY <1>0, <2>1 DEF IInv, TypeOK
    <2> QED BY <1>0, <1>4, <2>2 DEF IInv, TypeOK
  <1>6. World'
    BY <1>0, <1>2, <1>3, AppearanceKeepsWorld
  <1>7. SourceForward
    BY <1>0 DEF SourceForward
  <1>8. \A h \in Handlers : Handler(h)'
    BY <1>0, <1>2, <1>4, <1>5, <1>7, AllKept
  <1> QED BY <1>5, <1>6, <1>8 DEF IInv

\* What is at the retry name has that name.
LEMMA ChildType ==
  ASSUME TypeOK
  PROVE  Child \in 0..Len(reqs) /\ (Child # None => Child \in Uids /\ reqs[Child].child)
  <1>1. Len(reqs) \in Nat
    BY DEF TypeOK
  <1>2. CASE \E u \in Uids : reqs[u].child /\ reqs[u].exists
    <2>1. Child \in Uids /\ reqs[Child].child
      BY <1>2 DEF Child
    <2> QED BY <1>1, <2>1 DEF Uids
  <1>3. CASE ~\E u \in Uids : reqs[u].child /\ reqs[u].exists
    BY <1>1, <1>3 DEF Child, None
  <1> QED BY <1>2, <1>3

\* An informer that catches up has the source itself, and what is at the retry name.
LEMMA SyncedWorld ==
  ASSUME IInv, UNCHANGED <<source, reqs>>, NEW r \in Replicas,
         srcSeen' = [srcSeen EXCEPT ![r] = source], kidSeen' = [kidSeen EXCEPT ![r] = Child]
  PROVE  /\ World' /\ Grows /\ SourceForward /\ Uids' = Uids
         /\ srcSeen' \in [Replicas -> Source] /\ kidSeen' \in [Replicas -> 0..Len(reqs')]
  <1>1. /\ Uids' = Uids /\ Grows /\ SourceForward
    BY UidsType DEF Uids, Grows, SourceForward, IInv
  <1>2. Objects' /\ AtMostOne' /\ SourceLinked'
    BY <1>1 DEF IInv, World, Objects, AtMostOne, Mine, SourceLinked, Good, None
  <1>3. /\ srcSeen' \in [Replicas -> Source] /\ srcSeen'[r] = source
        /\ \A x \in Replicas : x # r => srcSeen'[x] = srcSeen[x]
    BY DEF IInv, TypeOK
  <1>4. /\ kidSeen' \in [Replicas -> 0..Len(reqs')] /\ kidSeen'[r] = Child
        /\ \A x \in Replicas : x # r => kidSeen'[x] = kidSeen[x]
    BY ChildType DEF IInv, TypeOK
  <1>5. Informed'
    <2>1. source.rv =< source.rv
      BY DEF IInv, TypeOK, Source
    <2>2. Child # None => reqs[Child].child
      BY ChildType DEF IInv
    <2> HIDE DEF Child
    <2> QED BY <1>3, <1>4, <2>1, <2>2 DEF IInv, World, Informed, None
  <1> QED BY <1>1, <1>2, <1>3, <1>4, <1>5 DEF World

\* An informer catches up.
LEMMA CacheSyncKeeps ==
  ASSUME IInv, NEW r \in Replicas, CacheSync(r)
  PROVE  IInv'
  <1>0. /\ UNCHANGED <<source, reqs, mu, call, faults>>
        /\ srcSeen' = [srcSeen EXCEPT ![r] = source] /\ kidSeen' = [kidSeen EXCEPT ![r] = Child]
    BY DEF CacheSync
  <1>1. /\ World' /\ Grows /\ SourceForward /\ Uids' = Uids
        /\ srcSeen' \in [Replicas -> Source] /\ kidSeen' \in [Replicas -> 0..Len(reqs')]
    BY <1>0, SyncedWorld
  <1>2. TypeOK'
    BY <1>0, <1>1 DEF IInv, TypeOK
  <1>3. \A h \in Handlers : Handler(h)'
    BY <1>0, <1>1, <1>2, AllKept
  <1> QED BY <1>1, <1>2, <1>3 DEF IInv

\* A replica dies: its handlers are gone, and with them its mutex is free.
LEMMA CrashKeeps ==
  ASSUME IInv, NEW r \in Replicas, Crash(r)
  PROVE  IInv'
  <1>0. /\ UNCHANGED <<source, reqs>> /\ mu' = [mu EXCEPT ![r] = {}]
        /\ srcSeen' = [srcSeen EXCEPT ![r] = source] /\ kidSeen' = [kidSeen EXCEPT ![r] = Child]
        /\ call' = [h \in Handlers |-> IF call[h].at = r /\ call[h].pc # "idle"
                                       THEN [call[h] EXCEPT !.pc = "idle", !.answer = "none"]
                                       ELSE call[h]]
    BY DEF Crash
  <1>1. /\ World' /\ Grows /\ SourceForward /\ Uids' = Uids
        /\ srcSeen' \in [Replicas -> Source] /\ kidSeen' \in [Replicas -> 0..Len(reqs')]
    BY <1>0, SyncedWorld
  <1>2. faults' \in 0..MaxFaults
    BY FaultsType DEF Crash, IInv
  <1>3. \A h \in Handlers : call[h] \in Call
    BY DEF IInv, TypeOK
  <1>4. \A h \in Handlers : \/ call'[h] = call[h] /\ (call[h].pc # "idle" => call[h].at # r)
                            \/ call'[h] \in Call /\ call'[h].pc = "idle" /\ call'[h].answer = "none"
    BY <1>0, <1>3 DEF Call
  <1>5. call' \in [Handlers -> Call]
    <2>1. \A h \in Handlers : call'[h] \in Call
      BY <1>3, <1>4
    <2> QED BY <1>0, <2>1
  <1>6. mu' \in [Replicas -> {{}} \cup {{h} : h \in Handlers}] /\ \A x \in Replicas : x # r => mu'[x] = mu[x]
    BY <1>0 DEF IInv, TypeOK
  <1>7. TypeOK'
    BY <1>0, <1>1, <1>2, <1>5, <1>6 DEF IInv, TypeOK
  <1>8. ASSUME NEW h \in Handlers
        PROVE  Handler(h)'
    <2>1. CASE call'[h] = call[h] /\ (call[h].pc # "idle" => call[h].at # r)
      <3>1. Handler(h) /\ call[h].at \in Replicas
        BY <1>3 DEF IInv, Call
      <3>2. call[h].pc \in Held => mu'[call[h].at] = mu[call[h].at]
        BY <1>6, <2>1, <3>1 DEF Held
      <3> QED BY <1>1, <1>7, <2>1, <3>1, <3>2, HandlerKept DEF IInv
    <2>2. CASE call'[h].pc = "idle" /\ call'[h].answer = "none"
      BY <2>2 DEF Handler, Held
    <2> QED BY <1>4, <2>1, <2>2
  <1> QED BY <1>1, <1>7, <1>8 DEF IInv

-----------------------------------------------------------------------------
(* The shapes of a handler's step.                                         *)

\* What a step of a handler at replica r may do to the cluster's objects.
WorldStep(r) ==
  /\ World' /\ Grows /\ SourceForward /\ UNCHANGED <<srcSeen, kidSeen>> /\ (Fault \/ NoFault)
  /\ source' \in Source /\ reqs' \in Seq(Request) /\ Len(reqs') =< MaxRequests
  /\ \A u \in Uids' : u \notin Uids => reqs'[u].by = {r}

\* A step that leaves the objects alone.
LEMMA NoObjectMoves ==
  ASSUME IInv, NEW r, UNCHANGED <<source, reqs, srcSeen, kidSeen>>, Fault \/ NoFault
  PROVE  WorldStep(r)
  BY WorldSame DEF WorldStep, IInv, TypeOK

\* A handler moves on.
LEMMA MoveKeeps ==
  ASSUME IInv, NEW h \in Handlers, NEW c \in Call, call' = [call EXCEPT ![h] = c],
         mu' \in [Replicas -> {{}} \cup {{g} : g \in Handlers}],
         mu[call[h].at] \in {{}, {h}}, \A r \in Replicas : r # call[h].at => mu'[r] = mu[r],
         WorldStep(call[h].at),
         c.pc \in Held => mu'[c.at] = {h},
         c.pc = "create" => source'.phase # "Approved" /\ \A u \in Uids' : ~(Mine(c.at, u)'),
         c.pc = "link" => Good(c.u)',
         c.pc # "idle" => c.answer = "none",
         c.answer = "ok" /\ c.op # "create" => c.u # None /\ source'.superseded = c.u
  PROVE  IInv'
  <1>1. /\ call' \in [Handlers -> Call] /\ call'[h] = c
        /\ \A g \in Handlers : g # h => call'[g] = call[g]
    BY DEF IInv, TypeOK
  <1>2. TypeOK'
    <2>1. faults' \in 0..MaxFaults
      BY FaultsType DEF IInv, WorldStep
    <2>2. \A n \in 0..Len(reqs) : n \in 0..Len(reqs')
      BY UidsType DEF IInv, WorldStep, Grows
    <2>3. kidSeen' \in [Replicas -> 0..Len(reqs')] /\ srcSeen' \in [Replicas -> Source]
      BY <2>2 DEF IInv, TypeOK, WorldStep
    <2>4. source' \in Source /\ reqs' \in Seq(Request) /\ Len(reqs') =< MaxRequests
      BY DEF WorldStep
    <2> QED BY <1>1, <2>1, <2>3, <2>4 DEF TypeOK
  <1>3. \A g \in Handlers : g # h => Handler(g)'
    BY <1>1, <1>2, OthersKept DEF WorldStep
  <1>4. Handler(h)'
    BY <1>1 DEF Handler, Held, Good, Mine, Uids, None
  <1> QED BY <1>2, <1>3, <1>4 DEF IInv, WorldStep

\* The mutex of a handler that holds it, kept and released.
LEMMA MutexHeld ==
  ASSUME IInv, NEW h \in Handlers, call[h].pc \in Held
  PROVE  /\ call[h] \in Call /\ call[h].at \in Replicas /\ mu[call[h].at] = {h}
         /\ call[h].answer = "none" /\ call[h].u \in Nat
         /\ mu \in [Replicas -> {{}} \cup {{g} : g \in Handlers}]
  BY DEF IInv, TypeOK, Call, Handler, Held

\* The deferred Unlock.
LEMMA Unlocked ==
  ASSUME IInv, NEW h \in Handlers, call[h].pc \in Held, mu' = [mu EXCEPT ![call[h].at] = @ \ {h}]
  PROVE  /\ mu' \in [Replicas -> {{}} \cup {{g} : g \in Handlers}]
         /\ \A r \in Replicas : r # call[h].at => mu'[r] = mu[r]
  <1>1. mu[call[h].at] \ {h} = {}
    BY MutexHeld
  <1> QED BY <1>1, MutexHeld

\* A refusal: whatever was created or linked before it, nothing is owed to the caller.
LEMMA RefuseKeeps ==
  ASSUME IInv, NEW h \in Handlers, call[h].pc \in Held, Refuse(h), WorldStep(call[h].at)
  PROVE  IInv'
  <1> DEFINE c == [call[h] EXCEPT !.pc = "idle", !.op = "create", !.u = None,
                                  !.src = InitSource, !.tries = 0, !.answer = "refused"]
  <1>1. c \in Call /\ c.pc = "idle" /\ c.answer = "refused"
    <2>1. InitSource \in Source /\ None \in Nat
      BY DEF InitSource, Source, None
    <2> QED BY <2>1, MutexHeld DEF Call, Ops
  <1>2. call' = [call EXCEPT ![h] = c] /\ mu' = [mu EXCEPT ![call[h].at] = @ \ {h}]
    BY DEF Refuse
  <1> HIDE DEF c
  <1>3. /\ mu' \in [Replicas -> {{}} \cup {{g} : g \in Handlers}]
        /\ \A r \in Replicas : r # call[h].at => mu'[r] = mu[r]
    BY <1>2, Unlocked
  <1>4. mu[call[h].at] = {h}
    BY MutexHeld
  <1> QED BY <1>1, <1>2, <1>3, <1>4, MoveKeeps DEF Held

\* An answer: that of a retry names the successor the source is linked to.
LEMMA ReplyKeeps ==
  ASSUME IInv, NEW h \in Handlers, call[h].pc \in Held, NEW u \in Nat, Reply(h, "ok", u),
         WorldStep(call[h].at),
         call[h].op # "create" => u # None /\ source'.superseded = u
  PROVE  IInv'
  <1> DEFINE c == [call[h] EXCEPT !.pc = "idle", !.u = u, !.src = InitSource,
                                  !.tries = 0, !.answer = "ok"]
  <1>1. c \in Call /\ c.pc = "idle" /\ c.u = u /\ c.op = call[h].op
    <2>1. InitSource \in Source
      BY DEF InitSource, Source, None
    <2> QED BY <2>1, MutexHeld DEF Call
  <1>2. call' = [call EXCEPT ![h] = c] /\ mu' = [mu EXCEPT ![call[h].at] = @ \ {h}]
    BY DEF Reply
  <1> HIDE DEF c
  <1>3. /\ mu' \in [Replicas -> {{}} \cup {{g} : g \in Handlers}]
        /\ \A r \in Replicas : r # call[h].at => mu'[r] = mu[r]
    BY <1>2, Unlocked
  <1>4. mu[call[h].at] = {h}
    BY MutexHeld
  <1> QED BY <1>1, <1>2, <1>3, <1>4, MoveKeeps DEF Held

\* A handler goes on under its mutex.
LEMMA GoOnKeeps ==
  ASSUME IInv, NEW h \in Handlers, call[h].pc \in Held, NEW c \in Call,
         call' = [call EXCEPT ![h] = c], UNCHANGED mu, WorldStep(call[h].at),
         c.at = call[h].at, c.answer = call[h].answer, c.pc \in Held,
         c.pc = "create" => source'.phase # "Approved" /\ \A u \in Uids' : ~(Mine(c.at, u)'),
         c.pc = "link" => Good(c.u)'
  PROVE  IInv'
  <1>1. mu[call[h].at] = {h} /\ c.answer = "none" /\ mu \in [Replicas -> {{}} \cup {{g} : g \in Handlers}]
    BY MutexHeld
  <1> QED BY <1>1, MoveKeeps

\* Goto and Continue, towards a step that needs to know something or not.
LEMMA GotoKeeps ==
  ASSUME IInv, NEW h \in Handlers, call[h].pc \in Held,
         NEW pc \in {"list", "create", "getAgain"}, Goto(h, pc), WorldStep(call[h].at),
         UNCHANGED <<source, reqs>>,
         pc = "create" => source.phase # "Approved" /\ \A u \in Uids : ~Mine(call[h].at, u)
  PROVE  IInv'
  <1> DEFINE c == [call[h] EXCEPT !.pc = pc]
  <1>1. c \in Call /\ c.pc = pc /\ c.at = call[h].at /\ c.answer = call[h].answer
    BY MutexHeld DEF Call
  <1>2. call' = [call EXCEPT ![h] = c] /\ UNCHANGED mu
    BY DEF Goto
  <1> HIDE DEF c
  <1>3. pc = "create" => source'.phase # "Approved"
                         /\ \A u \in Uids' : ~(reqs'[u].by = {c.at} /\ reqs'[u].active)
    BY <1>1 DEF Mine, Uids
  <1> QED BY <1>1, <1>2, <1>3, GoOnKeeps DEF Held, Mine

\* A successor is at hand: it is linked next.
LEMMA ContinueKeeps ==
  ASSUME IInv, NEW h \in Handlers, call[h].pc \in Held, NEW u \in Nat,
         Continue(h, "link", u), WorldStep(call[h].at), Good(u)'
  PROVE  IInv'
  <1> DEFINE c == [call[h] EXCEPT !.pc = "link", !.u = u]
  <1>1. c \in Call /\ c.pc = "link" /\ c.u = u /\ c.at = call[h].at /\ c.answer = call[h].answer
    BY MutexHeld DEF Call
  <1>2. call' = [call EXCEPT ![h] = c] /\ UNCHANGED mu
    BY DEF Continue
  <1> HIDE DEF c
  <1> QED BY <1>1, <1>2, GoOnKeeps DEF Held

-----------------------------------------------------------------------------
(* One lemma per action of a handler.                                      *)

\* A call arrives.
LEMMA ArriveKeeps ==
  ASSUME IInv, NEW h \in Handlers, NEW op \in Ops, NEW r \in Replicas, Arrive(h, op, r)
  PROVE  IInv'
  <1> DEFINE c == [pc |-> "lock", op |-> op, at |-> r, u |-> None, tries |-> 0,
                   src |-> IF op = "create" THEN InitSource ELSE source, answer |-> "none"]
  <1>0. /\ call[h].pc = "idle" /\ call' = [call EXCEPT ![h] = c]
        /\ UNCHANGED <<source, reqs, srcSeen, kidSeen, mu, faults>>
    BY DEF Arrive
  <1>1. c \in Call /\ c.pc = "lock" /\ c.answer = "none"
    BY DEF IInv, TypeOK, Call, InitSource, Source, None
  <1> HIDE DEF c
  <1>2. /\ call' \in [Handlers -> Call] /\ call'[h] = c
        /\ \A g \in Handlers : g # h => call'[g] = call[g]
    BY <1>0, <1>1 DEF IInv, TypeOK
  <1>3. TypeOK'
    BY <1>0, <1>2 DEF IInv, TypeOK
  <1>4. World' /\ Grows /\ SourceForward /\ Uids' = Uids
    BY <1>0, WorldSame DEF IInv
  <1>5. \A g \in Handlers : g # h => Handler(g)'
    BY <1>0, <1>2, <1>3, <1>4, HandlerKept DEF IInv
  <1>6. Handler(h)'
    BY <1>1, <1>2 DEF Handler, Held
  <1> QED BY <1>3, <1>4, <1>5, <1>6 DEF IInv

\* The mutex is taken when it is free.
LEMMA LockKeeps ==
  ASSUME IInv, NEW h \in Handlers, Lock(h)
  PROVE  IInv'
  <1> DEFINE c == [call[h] EXCEPT !.pc = IF call[h].op = "create" THEN "list" ELSE "get"]
  <1>0. /\ call[h].pc = "lock" /\ mu[call[h].at] = {} /\ mu' = [mu EXCEPT ![call[h].at] = {h}]
        /\ call' = [call EXCEPT ![h] = c]
        /\ UNCHANGED <<source, reqs, srcSeen, kidSeen>> /\ NoFault
    BY DEF Lock, NoFault
  <1>1. call[h] \in Call /\ call[h].at \in Replicas /\ call[h].answer = "none"
    BY <1>0 DEF IInv, TypeOK, Call, Handler
  <1>2. c \in Call /\ c.pc \in {"list", "get"} /\ c.at = call[h].at /\ c.answer = call[h].answer
    BY <1>1 DEF Call
  <1> HIDE DEF c
  <1>3. /\ mu' \in [Replicas -> {{}} \cup {{g} : g \in Handlers}] /\ mu'[call[h].at] = {h}
        /\ \A r \in Replicas : r # call[h].at => mu'[r] = mu[r]
    BY <1>0, <1>1 DEF IInv, TypeOK
  <1>4. WorldStep(call[h].at)
    BY <1>0, NoObjectMoves
  <1> QED BY <1>0, <1>1, <1>2, <1>3, <1>4, MoveKeeps

\* An object at the retry name is adopted only if it is a successor.
LEMMA AdoptKeeps ==
  ASSUME IInv, NEW h \in Handlers, call[h].pc \in Held, NEW u \in Uids, reqs[u].child, Adopt(h, u),
         UNCHANGED <<source, reqs, srcSeen, kidSeen>>, Fault \/ NoFault
  PROVE  IInv'
  <1>1. WorldStep(call[h].at)
    BY NoObjectMoves
  <1>2. CASE ValidSuccessor(u) /\ Continue(h, "link", u)
    <2>1. Good(u)' /\ u \in Nat
      BY <1>2, UidsType DEF Good, ValidSuccessor, Uids, IInv
    <2> QED BY <1>1, <1>2, <2>1, ContinueKeeps
  <1>3. CASE Refuse(h)
    BY <1>1, <1>3, RefuseKeeps
  <1> QED BY <1>2, <1>3 DEF Adopt

\* retryRequest up to the List.
LEMMA GetChildKeeps ==
  ASSUME IInv, NEW h \in Handlers, GetChild(h)
  PROVE  IInv'
  <1>0. /\ call[h].pc = "get" /\ call[h].pc \in Held
        /\ UNCHANGED <<source, reqs, srcSeen, kidSeen>> /\ (Fault \/ NoFault)
    BY DEF GetChild, Held
  <1>1. WorldStep(call[h].at) /\ call[h].at \in Replicas
    BY <1>0, NoObjectMoves, MutexHeld
  <1>2. kidSeen[call[h].at] # None => kidSeen[call[h].at] \in Uids /\ reqs[kidSeen[call[h].at]].child
    BY <1>1, UidsType DEF IInv, TypeOK, World, Informed, Uids, None
  <1>3. CASE Refuse(h)
    BY <1>0, <1>1, <1>3, RefuseKeeps
  <1>4. CASE kidSeen[call[h].at] # None /\ Adopt(h, kidSeen[call[h].at])
    BY <1>0, <1>2, <1>4, AdoptKeeps
  <1>5. CASE Goto(h, "list")
    BY <1>0, <1>1, <1>5, GotoKeeps
  <1> QED BY <1>3, <1>4, <1>5 DEF GetChild

\* findPendingDuplicate reads what is there: when it finds nothing, no equivalent
\* request of this replica is active, since those have the source's fingerprint.
LEMMA ListDuplicatesKeeps ==
  ASSUME IInv, NEW h \in Handlers, ListDuplicates(h)
  PROVE  IInv'
  <1> DEFINE dups == {u \in Uids : reqs[u].exists /\ reqs[u].active /\ reqs[u].same}
  <1>0. /\ call[h].pc = "list" /\ call[h].pc \in Held
        /\ UNCHANGED <<source, reqs, srcSeen, kidSeen>> /\ (Fault \/ NoFault)
        /\ \/ dups = {} /\ source.phase # "Approved" /\ Goto(h, "create")
           \/ Refuse(h)
           \/ \E u \in dups : reqs[u].child /\ Adopt(h, u)
    BY DEF ListDuplicates, Held
  <1>1. WorldStep(call[h].at) /\ call[h].at \in Replicas
    BY <1>0, NoObjectMoves, MutexHeld
  <1>2. CASE Refuse(h)
    BY <1>0, <1>1, <1>2, RefuseKeeps
  <1>3. CASE \E u \in dups : reqs[u].child /\ Adopt(h, u)
    BY <1>0, <1>3, AdoptKeeps
  <1>4. CASE dups = {} /\ source.phase # "Approved" /\ Goto(h, "create")
    <2>1. \A u \in Uids : ~Mine(call[h].at, u)
      BY <1>4 DEF Mine, IInv, World, Objects
    <2> QED BY <1>0, <1>1, <1>4, <2>1, GotoKeeps
  <1> QED BY <1>0, <1>2, <1>3, <1>4

\* The Create: the handler found no equivalent request active, and only it could have
\* created one at its replica since.
LEMMA CreateObjectKeeps ==
  ASSUME IInv, NEW h \in Handlers, CreateObject(h)
  PROVE  IInv'
  <1> DEFINE retry == call[h].op # "create"
             q == [NewRequest({call[h].at}) EXCEPT !.child = retry, !.lineage = retry]
  <1>0. /\ call[h].pc = "create" /\ call[h].pc \in Held /\ UNCHANGED <<source, srcSeen, kidSeen>>
        /\ (Fault \/ NoFault)
    BY DEF CreateObject, Held
  <1>1. \/ UNCHANGED reqs /\ (Goto(h, "getAgain") \/ Refuse(h))
        \/ /\ Len(reqs) < MaxRequests /\ reqs' = Append(reqs, q)
           /\ \/ Refuse(h)
              \/ retry /\ Continue(h, "link", Len(reqs) + 1)
              \/ ~retry /\ Reply(h, "ok", Len(reqs) + 1)
    BY DEF CreateObject
  <1>2. CASE UNCHANGED reqs /\ (Goto(h, "getAgain") \/ Refuse(h))
    <2>1. WorldStep(call[h].at)
      BY <1>0, <1>2, NoObjectMoves
    <2> QED BY <1>0, <1>2, <2>1, GotoKeeps, RefuseKeeps
  <1>3. CASE /\ Len(reqs) < MaxRequests /\ reqs' = Append(reqs, q)
             /\ \/ Refuse(h)
                \/ retry /\ Continue(h, "link", Len(reqs) + 1)
                \/ ~retry /\ Reply(h, "ok", Len(reqs) + 1)
    <2>0. call[h].at \in Replicas /\ retry \in BOOLEAN
      BY <1>0, MutexHeld
    <2>1. /\ q \in Request /\ q.by = {call[h].at} /\ q.exists /\ q.same
          /\ q.child = retry /\ q.lineage = retry
      BY <2>0 DEF NewRequest, Request
    <2>2. Len(reqs) < MaxRequests /\ reqs' = Append(reqs, q)
      BY <1>3
    <2> HIDE DEF q, retry
    <2>3. /\ reqs' \in Seq(Request) /\ Len(reqs') =< MaxRequests
          /\ reqs'[Len(reqs) + 1] = q
          /\ Grows /\ Uids' = Uids \cup {Len(reqs) + 1}
      BY <2>1, <2>2, RequestAppears DEF IInv
    <2>4. source.phase # "Approved" /\ \A u \in Uids : ~Mine(call[h].at, u)
      BY <1>0 DEF IInv, Handler
    <2>5. \A r \in Replicas : q.by = {r} =>
            source.phase # "Approved" /\ \A u \in Uids : ~Mine(r, u)
      BY <2>1, <2>4
    <2>6. World'
      BY <1>0, <2>1, <2>2, <2>5, AppearanceKeepsWorld
    <2>7. WorldStep(call[h].at)
      <3>1. SourceForward /\ source' \in Source
        BY <1>0 DEF SourceForward, IInv, TypeOK
      <3>2. \A u \in Uids' : u \notin Uids => reqs'[u].by = {call[h].at}
        BY <2>1, <2>3
      <3> QED BY <1>0, <2>3, <2>6, <3>1, <3>2 DEF WorldStep
    <2>8. Len(reqs) + 1 \in Nat
      BY UidsType DEF IInv
    <2>9. CASE Refuse(h)
      BY <1>0, <2>7, <2>9, RefuseKeeps
    <2>10. CASE retry /\ Continue(h, "link", Len(reqs) + 1)
      <3> DEFINE n == Len(reqs) + 1
      <3>1. n \in Uids' /\ reqs'[n].child /\ reqs'[n].lineage /\ reqs'[n].same
        BY <2>1, <2>3, <2>10
      <3>2. PICK u \in Nat : u = n
        BY <2>8
      <3>3. Good(u)' /\ Continue(h, "link", u)
        BY <2>10, <3>1, <3>2 DEF Good
      <3> QED BY <1>0, <2>7, <3>3, ContinueKeeps
    <2>11. CASE ~retry /\ Reply(h, "ok", Len(reqs) + 1)
      BY <1>0, <2>7, <2>8, <2>11, ReplyKeeps DEF retry
    <2> QED BY <1>3, <2>9, <2>10, <2>11
  <1> QED BY <1>1, <1>2, <1>3

\* retryRequest after AlreadyExists.
LEMMA GetAgainKeeps ==
  ASSUME IInv, NEW h \in Handlers, GetAgain(h)
  PROVE  IInv'
  <1>0. /\ call[h].pc = "getAgain" /\ call[h].pc \in Held
        /\ UNCHANGED <<source, reqs, srcSeen, kidSeen>> /\ (Fault \/ NoFault)
    BY DEF GetAgain, Held
  <1>1. WorldStep(call[h].at) /\ call[h].at \in Replicas
    BY <1>0, NoObjectMoves, MutexHeld
  <1>2. kidSeen[call[h].at] # None => kidSeen[call[h].at] \in Uids /\ reqs[kidSeen[call[h].at]].child
    BY <1>1, UidsType DEF IInv, TypeOK, World, Informed, Uids, None
  <1>3. CASE Refuse(h)
    BY <1>0, <1>1, <1>3, RefuseKeeps
  <1>4. CASE kidSeen[call[h].at] # None /\ Adopt(h, kidSeen[call[h].at])
    BY <1>0, <1>2, <1>4, AdoptKeeps
  <1> QED BY <1>3, <1>4 DEF GetAgain

\* The conditional write of the link lands on the source the informer showed, which
\* has no link yet.
LEMMA LinkWrites ==
  ASSUME IInv, NEW r \in Replicas, NEW u \in Nat, Good(u), u # None,
         srcSeen[r].superseded = None, srcSeen[r].rv = source.rv,
         source' = [srcSeen[r] EXCEPT !.superseded = u, !.rv = @ + 1],
         UNCHANGED <<reqs, srcSeen, kidSeen>>, Fault \/ NoFault
  PROVE  WorldStep(r) /\ source'.superseded = u
  <1>0. source \in Source /\ srcSeen[r] = source /\ source.rv \in Nat /\ source.rv + 1 \in Nat
    BY DEF IInv, TypeOK, World, Informed, Source
  <1>1. /\ source' \in Source /\ source'.rv = source.rv + 1 /\ source'.phase = source.phase
        /\ source'.superseded = u /\ source.superseded = None
    BY <1>0 DEF Source
  <1>2. SourceForward /\ Grows /\ Uids' = Uids
    BY <1>1, UidsType DEF SourceForward, Grows, Uids, IInv
  <1>3. Objects' /\ AtMostOne' /\ SourceLinked'
    BY <1>1, <1>2 DEF IInv, World, Objects, AtMostOne, Mine, SourceLinked, Good, None
  <1>4. Informed'
    <2>1. \A x \in Replicas : srcSeen[x].rv \in Nat
      BY DEF IInv, TypeOK, Source
    <2> QED BY <1>0, <1>1, <2>1 DEF IInv, World, Informed, None
  <1>5. reqs' \in Seq(Request) /\ Len(reqs') =< MaxRequests
    BY DEF IInv, TypeOK
  <1> QED BY <1>1, <1>2, <1>3, <1>4, <1>5 DEF WorldStep, World

\* ensureSupersededLink: the answer waits for the link, found or written.
LEMMA LinkSourceKeeps ==
  ASSUME IInv, NEW h \in Handlers, LinkSource(h)
  PROVE  IInv'
  <1> DEFINE r == call[h].at
             u == call[h].u
             link == source' = [srcSeen[r] EXCEPT !.superseded = u, !.rv = @ + 1]
  <1>0. /\ call[h].pc = "link" /\ call[h].pc \in Held
        /\ UNCHANGED <<reqs, srcSeen, kidSeen>> /\ (Fault \/ NoFault)
    BY DEF LinkSource, Held
  <1>1. r \in Replicas /\ u \in Nat /\ call[h] \in Call /\ Good(u) /\ u # None
    <2>1. Good(u)
      BY <1>0 DEF IInv, Handler
    <2>2. u # None
      BY <2>1, UidsType DEF Good, IInv
    <2> QED BY <1>0, <2>1, <2>2, MutexHeld
  <1>2. UNCHANGED source => WorldStep(r)
    BY <1>0, NoObjectMoves
  <1>3. CASE /\ srcSeen[r].superseded = None /\ srcSeen[r].rv = source.rv /\ link
             /\ Reply(h, "ok", u) \/ Refuse(h)
    <2>1. WorldStep(r) /\ source'.superseded = u
      BY <1>0, <1>1, <1>3, LinkWrites
    <2> QED BY <1>0, <1>1, <1>3, <2>1, ReplyKeeps, RefuseKeeps
  <1>4. CASE UNCHANGED source /\ Refuse(h)
    BY <1>0, <1>2, <1>4, RefuseKeeps
  <1>5. CASE UNCHANGED source /\ srcSeen[r].superseded = u /\ Reply(h, "ok", u)
    <2>1. source'.superseded = u
      BY <1>1, <1>5 DEF IInv, World, Informed
    <2> QED BY <1>0, <1>1, <1>2, <1>5, <2>1, ReplyKeeps
  <1>6. CASE UNCHANGED source /\ call' = [call EXCEPT ![h].tries = @ + 1] /\ UNCHANGED mu
    <2> DEFINE c == [call[h] EXCEPT !.tries = @ + 1]
    <2>1. /\ c \in Call /\ c.pc = "link" /\ c.u = u /\ c.at = r
          /\ c.answer = call[h].answer
      <3>1. call[h].tries + 1 \in Nat
        BY <1>1 DEF Call
      <3> QED BY <1>0, <1>1, <3>1 DEF Call
    <2>2. call' = [call EXCEPT ![h] = c]
      BY <1>6
    <2>3. c.u \in Uids' /\ reqs'[c.u].child /\ reqs'[c.u].lineage /\ reqs'[c.u].same
      BY <1>0, <1>1, <2>1 DEF Good, Uids
    <2> HIDE DEF c
    <2> QED BY <1>0, <1>2, <1>6, <2>1, <2>2, <2>3, GoOnKeeps DEF Held, Good
  <1>7. \/ /\ srcSeen[r].superseded = None /\ srcSeen[r].rv = source.rv /\ link
           /\ Reply(h, "ok", u) \/ Refuse(h)
        \/ UNCHANGED source /\ Refuse(h)
        \/ UNCHANGED source /\ srcSeen[r].superseded = u /\ Reply(h, "ok", u)
        \/ UNCHANGED source /\ call' = [call EXCEPT ![h].tries = @ + 1] /\ UNCHANGED mu
    BY DEF LinkSource
  <1> QED BY <1>3, <1>4, <1>5, <1>6, <1>7

-----------------------------------------------------------------------------
(* The theorems.                                                           *)

\* A source nobody has retried satisfies the invariant.
LEMMA InitEstablishes ==
  ASSUME Init
  PROVE  IInv
  <1>0. /\ source = InitSource /\ reqs = << >> /\ faults = 0
        /\ srcSeen = [r \in Replicas |-> InitSource] /\ kidSeen = [r \in Replicas |-> 0]
        /\ mu = [r \in Replicas |-> {}]
        /\ call \in [Handlers -> {[pc |-> "idle", op |-> "create", at |-> r, src |-> InitSource,
                                   u |-> 0, tries |-> 0, answer |-> "none"] : r \in Replicas}]
    BY DEF Init, None
  <1>1. InitSource \in Source /\ InitSource.superseded = 0 /\ InitSource.rv = 1
    BY DEF InitSource, Source, None
  <1>2. reqs \in Seq(Request) /\ Len(reqs) = 0 /\ Uids = {}
    BY <1>0 DEF Uids
  <1>3. \A h \in Handlers : call[h] \in Call /\ call[h].pc = "idle" /\ call[h].answer = "none"
    <2> SUFFICES ASSUME NEW h \in Handlers
                 PROVE  call[h] \in Call /\ call[h].pc = "idle" /\ call[h].answer = "none"
      OBVIOUS
    <2>1. PICK r \in Replicas : call[h] = [pc |-> "idle", op |-> "create", at |-> r, src |-> InitSource,
                                           u |-> 0, tries |-> 0, answer |-> "none"]
      BY <1>0
    <2> QED BY <1>1, <2>1 DEF Call, Ops
  <1>4. TypeOK
    <2>1. call \in [Handlers -> Call]
      BY <1>0, <1>3
    <2>2. 0 \in 0..Len(reqs) /\ Len(reqs) =< MaxRequests /\ faults \in 0..MaxFaults
      BY <1>0, <1>2, BoundsAssumption
    <2> QED BY <1>0, <1>1, <1>2, <2>1, <2>2 DEF TypeOK
  <1>5. World
    BY <1>0, <1>1, <1>2 DEF World, Objects, AtMostOne, SourceLinked, Informed, None
  <1>6. \A h \in Handlers : Handler(h)
    BY <1>3 DEF Handler, Held
  <1> QED BY <1>4, <1>5, <1>6 DEF IInv

\* Every step of the specification keeps the invariant.
LEMMA NextKeeps ==
  ASSUME IInv, [Next]_vars
  PROVE  IInv'
  <1>1. CASE UNCHANGED vars
    <2>1. /\ UNCHANGED <<source, reqs, srcSeen, kidSeen, mu, call, faults>>
      BY <1>1 DEF vars
    <2>2. World' /\ Grows /\ SourceForward /\ Uids' = Uids
      BY <2>1, WorldSame DEF IInv
    <2>3. TypeOK'
      BY <2>1 DEF IInv, TypeOK
    <2>4. \A h \in Handlers : Handler(h)'
      BY <2>1, <2>2, <2>3, AllKept
    <2> QED BY <2>2, <2>3, <2>4 DEF IInv
  <1>2. CASE SourceEnds \/ Occupy
    BY <1>2, SourceEndsKeeps, OccupyKeeps
  <1>3. CASE \E u \in Uids : RequestEnds(u) \/ DeleteRequest(u)
    BY <1>3, RequestGoesKeeps
  <1>4. CASE \E r \in Replicas : CacheSync(r) \/ Crash(r)
    BY <1>4, CacheSyncKeeps, CrashKeeps
  <1>5. CASE \E h \in Handlers : \E op \in Ops, r \in Replicas : Arrive(h, op, r)
    BY <1>5, ArriveKeeps
  <1>6. CASE \E h \in Handlers : HandlerStep(h)
    BY <1>6, LockKeeps, GetChildKeeps, ListDuplicatesKeeps, CreateObjectKeeps, GetAgainKeeps,
       LinkSourceKeeps DEF HandlerStep
  <1> QED BY <1>1, <1>2, <1>3, <1>4, <1>5, <1>6 DEF Next

\* The inductive invariant holds in every reachable state.
LEMMA Invariance == Spec => []IInv
  BY InitEstablishes, NextKeeps, PTL DEF Spec

\* Every variable keeps its type in every execution.
THEOREM RetryTypeCorrect == Spec => []TypeOK
  <1>1. IInv => TypeOK
    BY DEF IInv
  <1> QED BY <1>1, Invariance, PTL

\* Whoever wins which race for the retry name, in however many processes, the source
\* is linked to its own successor (validateRetrySuccessor, ensureSupersededLink).
THEOREM SourceLinkedToSuccessor == Spec => []LinkedToSuccessor
  <1>1. IInv => LinkedToSuccessor
    BY DEF IInv, World, SourceLinked, Good, LinkedToSuccessor
  <1> QED BY <1>1, Invariance, PTL

\* A retry answered with a successor has the source linked to it (retryRequest).
THEOREM AnswersAreLinked == Spec => []AnswerIsLinked
  <1>1. IInv => AnswerIsLinked
    BY DEF IInv, Handler, AnswerIsLinked
  <1> QED BY <1>1, Invariance, PTL

\* A set whose members are all equal has at most one.
LEMMA AtMostOneMember ==
  ASSUME NEW S, \A x, y \in S : x = y
  PROVE  Cardinality(S) =< 1
  <1>1. CASE S = {}
    BY <1>1, FS_EmptySet
  <1>2. CASE S # {}
    <2>1. PICK x : S = {x}
      BY <1>2
    <2> QED BY <2>1, FS_Singleton
  <1> QED BY <1>1, <1>2

\* No process has two equivalent requests of one requester active at once, nor one
\* beside an active source (requestMu, findPendingDuplicate).
THEOREM NoDuplicateActive == Spec => []NoActiveDuplicate
  <1>1. IInv => NoActiveDuplicate
    <2> SUFFICES ASSUME IInv, NEW r \in Replicas
                 PROVE  Cardinality({u \in Uids : reqs[u].by = {r} /\ reqs[u].active})
                          =< IF source.phase = "Approved" THEN 0 ELSE 1
      BY DEF NoActiveDuplicate
    <2> DEFINE active == {u \in Uids : reqs[u].by = {r} /\ reqs[u].active}
    <2>1. \A u, v \in active : u = v
      BY DEF IInv, World, AtMostOne, Mine
    <2>2. source.phase = "Approved" => active = {}
      BY DEF IInv, World, AtMostOne, Mine
    <2> HIDE DEF active
    <2>3. Cardinality(active) =< 1
      BY <2>1, AtMostOneMember
    <2>4. source.phase = "Approved" => Cardinality(active) =< 0
      BY <2>2, FS_EmptySet
    <2> QED BY <2>3, <2>4 DEF active
  <1> QED BY <1>1, Invariance, PTL
=============================================================================
