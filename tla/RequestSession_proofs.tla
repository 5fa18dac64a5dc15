----------------------- MODULE RequestSession_proofs ------------------------
(***************************************************************************)
(* Proofs about RequestSession, for all logs, exit codes, lifetimes, tabs, *)
(* headers and bounds: the stored output and its status agree with what    *)
(* the command printed, review forms work while there is something to      *)
(* decide, and the client tells its caller what happened.                  *)
(***************************************************************************)
EXTENDS RequestSession, NumberLemmas, SequenceTheorems, TLAPS

-----------------------------------------------------------------------------
(* The inductive invariant.                                                *)

Cut(s) == SubSeq(s, 1, IF Len(s) < MaxOutputBytes THEN Len(s) ELSE MaxOutputBytes)

\* flat holds what the first chunks of a log amount to, and in the end the whole log.
Accumulates(flat, log) ==
  /\ flat \in [0..Len(log) -> Seq(Nat)] /\ flat[0] = << >>
  /\ \A i \in 1..Len(log) : flat[i] = flat[i - 1] \o log[i]
  /\ flat[Len(log)] = FlattenSeq(log)

\* How a status or a capture speaks of the output: counted to its end and cut, or
\* given up; with a reference exactly when the Secret was stored.
Speaks(state, delivery, ref, captured) ==
  /\ state \in {"Complete", "Truncated", "Failed"}
  /\ state # "Failed" => (state = "Truncated" <=> Len(Printed) > MaxOutputBytes)
  /\ ref <=> delivery = "Available"
  /\ ref => state # "Failed" /\ captured # None
  /\ ~ref => "Failed" \in {state, delivery}

\* A capture in which k chunks of the log have been copied.
Copied(c, log, flat, k) ==
  /\ k \in 0..Len(log) /\ Accumulates(flat, log)
  /\ c.left = SubSeq(log, k + 1, Len(log))
  /\ c.hashed = flat[k] /\ c.total = Len(flat[k])
  /\ c.retained = Cut(flat[k]) /\ c.ref = FALSE

\* A capture is under way only while the request is Approved and its command ended.
Capturing ==
  /\ capture.pc = "idle" => capture = Idle
  /\ capture.pc # "idle" => request.phase = "Approved" /\ command.state \in {"ended", "gone"}
  /\ capture.pc = "copy" => \E flat, k : Copied(capture, command.log, flat, k)
  /\ capture.pc = "finalize" =>
       /\ Speaks(capture.state, capture.delivery, capture.ref, command.captured)
       /\ "Failed" \in {capture.state, capture.delivery} => faults > 0 \/ cancelled
       /\ capture.state # "Failed" => /\ capture.hashed = Printed /\ capture.total = Len(Printed)
                                      /\ capture.retained = Prefix

\* A request that was not executed has no result, and no command before its approval.
Before ==
  /\ request.phase \in {"none", "Pending", "Denied", "Expired"} => command.state = "waiting"
  /\ request.phase \notin {"Executed", "Failed"} => request.result = NoResult

\* The result of a request that ended.
Final ==
  LET r == request.result
  IN  /\ r.exit = command.exit /\ Speaks(r.state, r.delivery, r.ref, command.captured)
      /\ "Failed" \in {r.state, r.delivery} => faults > 0
      /\ r.state # "Failed" => /\ r.sha = Printed /\ r.total = Len(Printed) /\ r.retained = Len(Prefix)

After ==
  /\ request.phase = "Executed" => Final /\ command.exit = 0
  /\ request.phase = "Failed" => Final \/ request.result = NoResult

\* The Secret holds the cut output of this command and expires when it should.
Stored ==
  /\ command.state = "waiting" =>
       /\ ~secret.exists /\ ~cached.exists /\ command.captured = None /\ command.log = << >>
  /\ \A s \in {secret, cached} : s.exists => s.output = Prefix
  /\ secret.exists => command.captured # None /\ secret.expires = command.captured + command.ttl
  /\ command.captured # None /\ ~secret.exists => now >= command.captured + command.ttl

Delivery == Capturing /\ Before /\ After /\ Stored

\* The browser, while there is something to decide.
Browser ==
  /\ \A t \in Tabs : Out(t) => request.phase = "Pending"
  /\ \A t \in Tabs : tab[t].pc = "form" => tab[t].token # 0 /\ cookie.until >= PendingTTL
  /\ \A t \in latest : tab[t].pc = "form" /\ tab[t].token = cookie.value
  /\ ~bare => \A t, u \in Tabs : AsksBare(t) /\ Out(u) => t = u
  /\ ~bare => \A t \in Tabs : Out(t) /\ tab[t].token # 0 => tab[t].token = cookie.value
  /\ \E b \in Nat : \A t \in Tabs : tab[t].token =< b

\* The client: what it has seen is what there is.
Client ==
  /\ cli.pc = "submit" => request.phase = "none"
  /\ cli.pc # "done" => cli.stdout = << >>
  /\ cli.pc = "fetch" => /\ cli.seen = request /\ request.phase \in {"Executed", "Failed"}
                         /\ request.result.ref /\ cli.warned = report_output_state(request.result)
  /\ CallerToldTruth

IInv == TypeOK /\ Delivery /\ Browser /\ Client

-----------------------------------------------------------------------------
(* Numbers and sequences.                                                  *)

\* The largest of a bounded set of numbers is one of them: a new token is a number
\* other than 0 (ensureCSRFCookie).
LEMMA MaxIsNat ==
  ASSUME NEW T \in SUBSET Nat, T # {}, NEW b \in Nat, \A t \in T : t =< b
  PROVE  Max(T) \in T /\ \A t \in T : t =< Max(T)
  <1>1. PICK m \in T : \A t \in T : t =< m
    BY Largest
  <1>2. m \in T /\ \A t \in T : m >= t
    BY <1>1
  <1>3. Max(T) \in T /\ \A t \in T : Max(T) >= t
    BY <1>2 DEF Max
  <1> QED BY <1>3

\* g is what FlattenSeq computes for the first m chunks of a log.
IsFlat(g, log, m) ==
  g = [i \in 1..m |-> IF i = 1 THEN log[i] ELSE g[i - 1] \o log[i]]

\* There is such a function, by induction on m.
LEMMA FlatExists ==
  ASSUME NEW log, NEW n \in Nat
  PROVE  \E g : IsFlat(g, log, n)
  <1> DEFINE T == {m \in Nat : ~\E g : IsFlat(g, log, m)}
  <1> SUFFICES ASSUME T # {} PROVE FALSE
    OBVIOUS
  <1>1. PICK m \in T : \A k \in T : m =< k
    BY Smallest
  <1>2. m \in Nat /\ ~\E g : IsFlat(g, log, m)
    OBVIOUS
  <1>3. CASE m = 0
    <2>1. IsFlat([i \in 1..m |-> log[i]], log, m)
      BY <1>3 DEF IsFlat
    <2> QED BY <1>2, <2>1
  <1>4. CASE m # 0
    <2>1. m - 1 \in Nat /\ m - 1 \notin T
      BY <1>1, <1>2, <1>4
    <2>2. PICK g : IsFlat(g, log, m - 1)
      BY <2>1
    <2> DEFINE h == [i \in 1..m |-> IF i = m THEN (IF m = 1 THEN log[m] ELSE g[m - 1] \o log[m]) ELSE g[i]]
    <2>3. \A i \in 1..(m - 1) : g[i] = IF i = 1 THEN log[i] ELSE g[i - 1] \o log[i]
      BY <2>2 DEF IsFlat
    <2>4. \A i \in 1..m : h[i] = IF i = 1 THEN log[i] ELSE h[i - 1] \o log[i]
      BY <1>2, <1>4, <2>3
    <2>5. IsFlat(h, log, m)
      BY <2>4 DEF IsFlat
    <2> QED BY <1>2, <2>5
  <1> QED BY <1>3, <1>4

\* Every log has its accumulation.
LEMMA AccumulationExists ==
  ASSUME NEW log \in Seq(Seq(Nat))
  PROVE  \E flat : Accumulates(flat, log)
  <1> DEFINE n == Len(log)
  <1>0. n \in Nat
    OBVIOUS
  <1>1. CASE n = 0
    <2>1. FlattenSeq(log) = << >>
      BY <1>1 DEF FlattenSeq
    <2>2. Accumulates([i \in 0..n |-> << >>], log)
      BY <1>1, <2>1 DEF Accumulates
    <2> QED BY <2>2
  <1>2. CASE n # 0
    <2> DEFINE g == CHOOSE g : IsFlat(g, log, n)
    <2>1. IsFlat(g, log, n)
      BY <1>0, FlatExists
    <2>2. FlattenSeq(log) = g[n]
      BY <1>2 DEF FlattenSeq, IsFlat
    <2> HIDE DEF g
    <2>3. \A i \in 1..n : g[i] = IF i = 1 THEN log[i] ELSE g[i - 1] \o log[i]
      BY <2>1 DEF IsFlat
    <2>4. \A i \in 1..n : log[i] \in Seq(Nat)
      OBVIOUS
    <2>5. \A i \in 1..n : g[i] \in Seq(Nat)
      <3> DEFINE T == {i \in Nat : i \in 1..n /\ g[i] \notin Seq(Nat)}
      <3> SUFFICES ASSUME T # {} PROVE FALSE
        OBVIOUS
      <3>1. PICK m \in T : \A k \in T : m =< k
        BY Smallest
      <3>2. CASE m = 1
        BY <2>3, <2>4, <3>2
      <3>3. CASE m # 1
        <4>1. m - 1 \in 1..n /\ m - 1 \in Nat /\ m - 1 \notin T
          BY <1>0, <3>1, <3>3
        <4>2. g[m - 1] \in Seq(Nat)
          BY <4>1
        <4>3. g[m] = g[m - 1] \o log[m]
          BY <2>3, <3>3
        <4>4. log[m] \in Seq(Nat) /\ g[m] \notin Seq(Nat)
          BY <2>4
        <4> HIDE DEF T
        <4> QED BY <4>2, <4>3, <4>4
      <3> QED BY <3>2, <3>3
    <2> DEFINE flat == [i \in 0..n |-> IF i = 0 THEN << >> ELSE g[i]]
    <2>6. flat \in [0..n -> Seq(Nat)] /\ flat[0] = << >> /\ flat[n] = FlattenSeq(log)
      BY <1>0, <1>2, <2>2, <2>5
    <2>7. ASSUME NEW i \in 1..n PROVE flat[i] = flat[i - 1] \o log[i]
      <3>1. CASE i = 1
        <4>1. flat[i] = log[i] /\ flat[i - 1] = << >>
          BY <1>0, <2>3, <3>1
        <4> HIDE DEF flat
        <4> QED BY <2>4, <4>1
      <3>2. CASE i # 1
        <4>1. flat[i] = g[i] /\ flat[i - 1] = g[i - 1]
          BY <1>0, <3>2
        <4> HIDE DEF flat
        <4> QED BY <2>3, <3>2, <4>1
      <3> QED BY <3>1, <3>2
    <2> HIDE DEF flat
    <2>8. Accumulates(flat, log)
      BY <2>6, <2>7 DEF Accumulates
    <2> QED BY <2>8
  <1> QED BY <1>1, <1>2

\* What a command prints is a sequence of bytes.
LEMMA PrintedIsSeq ==
  ASSUME TypeOK
  PROVE  Printed \in Seq(Nat)
  <1>1. command.log \in Seq(Seq(Nat))
    BY DEF TypeOK, OutTypeOK, CommandType
  <1>2. PICK flat : Accumulates(flat, command.log)
    BY <1>1, AccumulationExists
  <1>3. Len(command.log) \in 0..Len(command.log)
    BY <1>1
  <1> QED BY <1>2, <1>3 DEF Accumulates, Printed

\* A cut is a prefix of at most MaxOutputBytes.
LEMMA CutProperties ==
  ASSUME NEW s \in Seq(Nat)
  PROVE  /\ Cut(s) \in Seq(Nat)
         /\ Len(Cut(s)) = IF Len(s) < MaxOutputBytes THEN Len(s) ELSE MaxOutputBytes
         /\ \A i \in 1..Len(Cut(s)) : Cut(s)[i] = s[i]
  <1> DEFINE n == IF Len(s) < MaxOutputBytes THEN Len(s) ELSE MaxOutputBytes
  <1>1. Len(s) \in Nat /\ n \in Nat /\ n =< Len(s)
    BY OutputAssumption
  <1>2. \A i \in 1..n : s[i] \in Nat
    BY <1>1
  <1>3. Cut(s) = SubSeq(s, 1, n)
    BY DEF Cut
  <1> HIDE DEF n
  <1>4. /\ SubSeq(s, 1, n) \in Seq(Nat) /\ Len(SubSeq(s, 1, n)) = n
        /\ \A i \in 1..n : SubSeq(s, 1, n)[i] = s[i]
    BY <1>1, <1>2, SubSeqProperties
  <1> QED BY <1>3, <1>4 DEF n

\* A cut that leaves nothing out is the whole.
LEMMA CutWhole ==
  ASSUME NEW s \in Seq(Nat), ~(Len(s) > MaxOutputBytes)
  PROVE  Cut(s) = s
  <1>1. Len(s) \in Nat /\ Len(Cut(s)) = Len(s)
    BY CutProperties, OutputAssumption
  <1> QED BY <1>1, CutProperties, SeqEqual

\* The numbers of boundedLogWriter: of a stream of n bytes some are held, and of a
\* chunk of m bytes that follows some are kept.
Held(n) == IF n < MaxOutputBytes THEN n ELSE MaxOutputBytes
Kept(c, m) == IF MaxOutputBytes - c > m THEN m ELSE MaxOutputBytes - c

\* How much of n bytes is held, and how much of m more is kept (boundedLogWriter.Write).
LEMMA WriteBounds ==
  ASSUME NEW n \in Nat, NEW m \in Nat
  PROVE  /\ Held(n) \in Nat /\ Kept(Held(n), m) \in Nat /\ Kept(Held(n), m) =< m
         /\ Held(n) =< n /\ (Held(n) # n => Kept(Held(n), m) = 0)
         /\ Held(n) + Kept(Held(n), m) = Held(n + m)
  <1>1. MaxOutputBytes \in Nat
    BY OutputAssumption
  <1>2. CASE n < MaxOutputBytes
    <2>1. Held(n) = n
      BY <1>2 DEF Held
    <2>2. CASE MaxOutputBytes - n > m
      <3>1. Kept(Held(n), m) = m /\ Held(n + m) = n + m
        BY <1>1, <2>1, <2>2 DEF Kept, Held
      <3> QED BY <2>1, <3>1
    <2>3. CASE ~(MaxOutputBytes - n > m)
      <3>1. Kept(Held(n), m) = MaxOutputBytes - n /\ Held(n + m) = MaxOutputBytes
        BY <1>1, <2>1, <2>3 DEF Kept, Held
      <3> QED BY <1>1, <1>2, <2>1, <2>3, <3>1
    <2> QED BY <2>2, <2>3
  <1>3. CASE ~(n < MaxOutputBytes)
    <2>1. Held(n) = MaxOutputBytes /\ Held(n + m) = MaxOutputBytes
      BY <1>1, <1>3 DEF Held
    <2>2. Kept(Held(n), m) = 0
      BY <1>1, <2>1 DEF Kept
    <2> QED BY <1>1, <1>3, <2>1, <2>2
  <1> QED BY <1>2, <1>3

\* boundedLogWriter: writing a chunk to a cut stream cuts the longer stream.
LEMMA WriteCuts ==
  ASSUME NEW s \in Seq(Nat), NEW t \in Seq(Nat),
         NEW kept, kept = Kept(Len(Cut(s)), Len(t))
  PROVE  Cut(s) \o SubSeq(t, 1, kept) = Cut(s \o t)
  <1> DEFINE a == Cut(s)
  <1> DEFINE u == SubSeq(t, 1, kept)
  <1> DEFINE l == a \o u
  <1> DEFINE r == Cut(s \o t)
  <1> DEFINE n == Len(s)
  <1> DEFINE m == Len(t)
  <1> DEFINE c == Len(a)
  <1>0. n \in Nat /\ m \in Nat
    OBVIOUS
  <1>1. /\ s \o t \in Seq(Nat) /\ Len(s \o t) = n + m
        /\ \A i \in 1..(n + m) : (s \o t)[i] = IF i =< n THEN s[i] ELSE t[i - n]
    BY ConcatProperties
  <1>2. /\ a \in Seq(Nat)
        /\ c = Held(n)
        /\ \A i \in 1..c : a[i] = s[i]
    BY CutProperties DEF Held
  <1>3. /\ r \in Seq(Nat)
        /\ Len(r) = Held(n + m)
        /\ \A i \in 1..Len(r) : r[i] = (s \o t)[i]
    BY <1>1, CutProperties DEF Held
  <1>k. kept = Kept(c, m)
    OBVIOUS
  <1> HIDE DEF a, n, m, c, r
  <1>4. /\ c \in Nat /\ kept \in Nat /\ kept =< m /\ c =< n /\ (c # n => kept = 0)
        /\ c + kept = Held(n + m)
    BY <1>0, <1>2, <1>k, WriteBounds
  <1>5. u \in Seq(Nat) /\ Len(u) = kept /\ \A i \in 1..kept : u[i] = t[i]
    <2>1. \A i \in 1..kept : t[i] \in Nat
      BY <1>0, <1>4 DEF m
    <2> QED BY <1>4, <2>1, SubSeqProperties
  <1> HIDE DEF u
  <1>6. /\ l \in Seq(Nat) /\ Len(l) = c + kept
        /\ \A i \in 1..(c + kept) : l[i] = IF i =< c THEN a[i] ELSE u[i - c]
    <2>1. /\ a \o u \in Seq(Nat) /\ Len(a \o u) = Len(a) + Len(u)
          /\ \A i \in 1..(Len(a) + Len(u)) : (a \o u)[i] = IF i =< Len(a) THEN a[i] ELSE u[i - Len(a)]
      BY <1>2, <1>5, ConcatProperties
    <2> QED BY <1>5, <2>1 DEF c
  <1> HIDE DEF l
  <1>7. Len(l) = Len(r)
    BY <1>3, <1>4, <1>6
  <1>8. ASSUME NEW i \in 1..Len(l) PROVE l[i] = r[i]
    <2>1. i \in Nat /\ i >= 1 /\ i =< c + kept /\ i \in 1..(n + m)
      BY <1>0, <1>4, <1>6
    <2>2. r[i] = IF i =< n THEN s[i] ELSE t[i - n]
      BY <1>1, <1>3, <1>7, <2>1
    <2>3. CASE i =< c
      <3>1. l[i] = a[i] /\ i =< n /\ i \in 1..c
        BY <1>0, <1>4, <1>6, <2>1, <2>3
      <3> QED BY <1>2, <2>2, <3>1
    <2>4. CASE ~(i =< c)
      <3>1. c = n /\ i - n \in 1..kept /\ ~(i =< n)
        BY <1>0, <1>4, <2>1, <2>4
      <3>2. l[i] = u[i - n]
        BY <1>6, <2>1, <2>4, <3>1
      <3> QED BY <1>5, <2>2, <3>1, <3>2
    <2> QED BY <2>3, <2>4
  <1>9. l = r
    BY <1>3, <1>6, <1>7, <1>8, SeqEqual
  <1> QED BY <1>9 DEF l, r, u, a

-----------------------------------------------------------------------------
(* The client.                                                             *)

\* Before its submission a request has its type.
LEMMA NoRequestType == [phase |-> "none", result |-> NoResult] \in RequestType
  BY DEF RequestType, NoResult, None

\* A client that is done has its exit code and shows what it showed before.
LEMMA DoneType ==
  ASSUME NEW c \in CliType, NEW code \in Int
  PROVE  /\ Done(c, code) \in CliType
         /\ Done(c, code).pc = "done" /\ Done(c, code).exit = code /\ Done(c, code).detach = c.detach
         /\ Done(c, code).stdout = c.stdout /\ Done(c, code).warned = c.warned
  BY NoRequestType DEF Done, CliType

\* What the client is told when it ends with 1 is never wrong.
LEMMA EndsWithOne ==
  ASSUME NEW c \in CliType, cli' = Done(c, 1)
  PROVE  CliTypeOK' /\ Client'
  <1>1. cli' \in CliType /\ cli'.pc = "done" /\ cli'.exit = 1
    BY DoneType
  <1>2. CliTypeOK'
    BY <1>1 DEF CliTypeOK, None
  <1>3. Client'
    BY <1>1 DEF Client, CallerToldTruth
  <1> QED BY <1>2, <1>3

\* Nor what it is told when Ctrl-C ends it.
LEMMA EndsInterrupted ==
  ASSUME cli \in CliType, Interrupt
  PROVE  CliTypeOK' /\ Client'
  <1> DEFINE d == Done(cli, 130)
  <1>1. d \in CliType /\ d.pc = "done" /\ d.exit = 130
    BY DoneType
  <1>2. cli' = [d EXCEPT !.interrupted = TRUE]
    BY DEF Interrupt
  <1> HIDE DEF d
  <1>3. cli' \in CliType /\ cli'.pc = "done" /\ cli'.exit = 130 /\ cli'.interrupted
    BY <1>1, <1>2 DEF CliType
  <1>4. CliTypeOK'
    BY <1>3 DEF CliTypeOK, None
  <1>5. Client'
    BY <1>3 DEF Client, CallerToldTruth
  <1> QED BY <1>4, <1>5

\* The exit code of a result is a number above 0, and above 1 the command's own.
LEMMA ExitCodes1 ==
  ASSUME NEW r, r.exit \in Int
  PROVE  exit_code(r) \in Int /\ exit_code(r) >= 1 /\ (exit_code(r) > 1 => exit_code(r) = r.exit)
  BY DEF exit_code

\* The status warns of whatever is missing.
LEMMA Warnings ==
  ASSUME NEW r
  PROVE  /\ report_output_state(r) \in SUBSET {"truncated", "unavailable"}
         /\ r.state = "Truncated" => "truncated" \in report_output_state(r)
         /\ "Failed" \in {r.state, r.delivery} => "unavailable" \in report_output_state(r)
  BY DEF report_output_state

\* A client that has read the terminal status of an ended request, and shows the
\* output it has come by, ends with the truth.
LEMMA ResultIsTrue ==
  ASSUME TypeOK, Delivery,
         NEW c \in CliType, c.seen = request, request.phase \in {"Executed", "Failed"},
         \/ c.stdout = Printed
         \/ c.stdout = Prefix /\ "truncated" \in c.warned
         \/ c.stdout = << >> /\ "unavailable" \in c.warned
         \/ request.phase = "Failed",
         cli' = Result(c), UNCHANGED <<request, command>>
  PROVE  CliTypeOK' /\ Client'
  <1> DEFINE code == IF request.phase = "Executed" THEN 0 ELSE exit_code(request.result)
  <1>1. request.result.exit \in Int /\ command.exit \in 0..255
    BY DEF TypeOK, OutTypeOK, RequestType, CommandType
  <1>2. code \in Int /\ code >= 0 /\ (request.phase = "Failed" => code >= 1)
        /\ (code > 1 => request.phase = "Failed" /\ code = request.result.exit)
    BY <1>1, ExitCodes1
  <1>3. cli' = Done(c, code)
    BY DEF Result
  <1>4. code > 1 => code = command.exit
    <2>1. request.phase = "Failed" => request.result.exit = command.exit \/ request.result = NoResult
      BY DEF Delivery, After, Final
    <2>2. NoResult.exit < 0
      BY DEF NoResult, None
    <2> QED BY <1>2, <2>1, <2>2
  <1>5. request.phase = "Executed" => command.exit = 0
    BY DEF Delivery, After
  <1>6. code = 0 => request.phase = "Executed"
    BY <1>2
  <1> HIDE DEF code
  <1>7. cli' \in CliType /\ cli'.pc = "done" /\ cli'.exit = code /\ cli'.stdout = c.stdout /\ cli'.warned = c.warned
    BY <1>2, <1>3, DoneType
  <1>8. CliTypeOK'
    BY <1>2, <1>7 DEF CliTypeOK, None
  <1>9. Printed' = Printed /\ Prefix' = Prefix
    BY DEF Printed, Prefix
  <1>10. Client'
    BY <1>2, <1>4, <1>5, <1>6, <1>7, <1>9 DEF Client, CallerToldTruth
  <1> QED BY <1>8, <1>10

\* The steps of the client.
LEMMA ClientSteps ==
  ASSUME IInv, SubmitFails \/ Submit \/ PollFails \/ Poll \/ Fetch \/ FetchFails \/ Interrupt
  PROVE  CliTypeOK' /\ Client'
  <1> USE DEF IInv
  <1>0. cli \in CliType
    BY DEF TypeOK, CliTypeOK
  <1>1. CASE SubmitFails \/ PollFails \/ FetchFails
    <2>1. cli' = Done(cli, 1)
      BY <1>1 DEF SubmitFails, PollFails, FetchFails
    <2> QED BY <1>0, <2>1, EndsWithOne
  <1>2. CASE Submit
    <2>1. CASE cli' = Done(cli, 1)
      BY <1>0, <2>1, EndsWithOne
    <2>2. CASE cli.detach /\ cli' = Done(cli, 0)
      <3>1. cli' \in CliType /\ cli'.pc = "done" /\ cli'.exit = 0 /\ cli'.detach
        BY <1>0, <2>2, DoneType
      <3> QED BY <3>1 DEF CliTypeOK, Client, CallerToldTruth, None
    <2>3. CASE cli' = [cli EXCEPT !.pc = "poll"]
      <3>1. cli' \in CliType /\ cli'.pc = "poll" /\ cli'.exit = cli.exit /\ cli'.stdout = cli.stdout
        BY <1>0, <2>3 DEF CliType
      <3>2. cli.pc = "submit" /\ cli.exit = None /\ cli.stdout = << >>
        BY <1>2 DEF Submit, TypeOK, CliTypeOK, Client
      <3> QED BY <3>1, <3>2 DEF CliTypeOK, Client, CallerToldTruth
    <2> QED BY <1>2, <2>1, <2>2, <2>3 DEF Submit
  <1>3. CASE Poll
    <2> DEFINE c == [cli EXCEPT !.seen = request]
    <2> DEFINE told == [c EXCEPT !.warned = report_output_state(request.result)]
    <2>1. /\ cli.pc = "poll" /\ cli.exit = None /\ cli.stdout = << >>
          /\ UNCHANGED <<request, command>>
      BY <1>3 DEF Poll, Rest, TypeOK, CliTypeOK, Client
    <2>2. request \in RequestType
      BY DEF TypeOK, OutTypeOK
    <2>3. c \in CliType
      BY <1>0, <2>2 DEF CliType
    <2>4. /\ told \in CliType /\ told.seen = request /\ told.warned = report_output_state(request.result)
          /\ told.exit = cli.exit /\ told.stdout = cli.stdout
      BY <1>0, <2>2, Warnings DEF CliType
    <2>5. cli' = IF request.phase \in {"Denied", "Expired"} THEN Done(c, 1)
                 ELSE IF request.phase \in Terminal
                      THEN IF request.result.ref THEN [told EXCEPT !.pc = "fetch"] ELSE Result(told)
                 ELSE IF PastDeadline(c) THEN Done(c, 1) ELSE cli
      BY <1>3 DEF Poll
    <2> HIDE DEF c, told
    <2>6. CASE cli' = Done(c, 1)
      BY <2>3, <2>6, EndsWithOne
    <2>7. CASE cli' = cli
      <3>1. cli'.pc = "poll" /\ cli'.exit = None /\ cli'.stdout = << >>
        BY <2>1, <2>7
      <3> QED BY <1>0, <2>7, <3>1 DEF CliTypeOK, Client, CallerToldTruth
    <2>8. CASE request.phase \in {"Executed", "Failed"} /\ request.result.ref /\ cli' = [told EXCEPT !.pc = "fetch"]
      <3>1. /\ cli' \in CliType /\ cli'.pc = "fetch" /\ cli'.exit = None /\ cli'.stdout = << >>
            /\ cli'.seen = request /\ cli'.warned = report_output_state(request.result)
        BY <2>1, <2>4, <2>8 DEF CliType
      <3> QED BY <2>1, <2>8, <3>1 DEF CliTypeOK, Client, CallerToldTruth, report_output_state
    <2>9. CASE request.phase \in {"Executed", "Failed"} /\ ~request.result.ref /\ cli' = Result(told)
      <3>1. request.phase = "Failed" \/ "unavailable" \in told.warned
        <4>1. request.phase = "Executed" => "Failed" \in {request.result.state, request.result.delivery}
          BY <2>9 DEF Delivery, After, Final, Speaks
        <4> QED BY <2>4, <2>9, <4>1, Warnings
      <3> QED BY <2>1, <2>4, <2>9, <3>1, ResultIsTrue
    <2>10. Terminal = {"Executed", "Failed"} \cup {"Denied", "Expired"}
      BY DEF Terminal
    <2> QED BY <2>5, <2>6, <2>7, <2>8, <2>9, <2>10
  <1>4. CASE Fetch
    <2> DEFINE c == [cli EXCEPT !.stdout = cached.output]
    <2>1. /\ cli.pc = "fetch" /\ UNCHANGED <<request, command>> /\ cli' = Result(c) /\ cached.exists
      BY <1>4 DEF Fetch, Rest
    <2>2. /\ cli.seen = request /\ request.phase \in {"Executed", "Failed"}
          /\ request.result.ref /\ cli.warned = report_output_state(request.result)
      BY <2>1 DEF Client
    <2>3. c \in CliType /\ c.seen = request /\ c.stdout = cached.output /\ c.warned = cli.warned
      BY <1>0, <2>2 DEF CliType, TypeOK, OutTypeOK, SecretType
    <2> HIDE DEF c
    <2>4. cached.output = Prefix
      BY <2>1 DEF Delivery, Stored
    <2>5. \/ Prefix = Printed
          \/ "truncated" \in cli.warned
          \/ request.phase = "Failed"
      <3>1. CASE request.result.state = "Truncated"
        BY <2>2, <3>1, Warnings
      <3>2. CASE request.phase = "Executed" /\ request.result.state # "Truncated"
        <4>1. ~(Len(Printed) > MaxOutputBytes)
          BY <2>2, <3>2 DEF Delivery, After, Final, Speaks
        <4>2. Printed \in Seq(Nat)
          BY PrintedIsSeq
        <4>3. Cut(Printed) = Printed
          BY <4>1, <4>2, CutWhole
        <4> QED BY <4>3 DEF Cut, Prefix
      <3> QED BY <2>2, <3>1, <3>2
    <2> QED BY <2>1, <2>2, <2>3, <2>4, <2>5, ResultIsTrue
  <1>5. CASE Interrupt
    BY <1>0, <1>5, EndsInterrupted
  <1> QED BY <1>1, <1>2, <1>3, <1>4, <1>5

-----------------------------------------------------------------------------
(* The capture of the output.                                              *)

\* A reconcile goes on, or a call of it failed for a reason that is known.
LEMMA Calls ==
  ASSUME TypeOK, UNCHANGED procVars
  PROVE  /\ CallWorks => faults' = faults /\ ~cancelled /\ ~cancelled'
         /\ CallFails => faults' \in 0..MaxFaults /\ faults' >= faults /\ (faults' > 0 \/ cancelled')
  <1>1. stops \in Nat /\ faults \in 0..MaxFaults /\ MaxFaults \in Nat
    BY OutputAssumption, MaxStopsAssumption DEF TypeOK, ProcTypeOK, OutTypeOK
  <1>2. cancelled' = cancelled /\ stops' = stops
    BY DEF procVars
  <1>3. CallWorks => faults' = faults /\ ~cancelled /\ ~cancelled'
    BY <1>2 DEF CallWorks
  <1>4. ASSUME CallFails PROVE faults' \in 0..MaxFaults /\ faults' >= faults /\ (faults' > 0 \/ cancelled')
    BY <1>1, <1>2, <1>4 DEF CallFails
  <1> QED BY <1>3, <1>4

\* What is known of the request, its command and its output stays known while none
\* of them changes.
LEMMA Frame ==
  ASSUME IInv, UNCHANGED <<now, request, command, secret>>, cached' \in {cached, secret},
         faults' \in Nat, faults' >= faults
  PROVE  Before' /\ After' /\ Stored' /\ Printed' = Printed /\ Prefix' = Prefix
  <1>1. Before /\ After /\ Stored /\ faults \in Nat
    BY DEF IInv, Delivery, TypeOK, OutTypeOK
  <1>2. Printed' = Printed /\ Prefix' = Prefix
    BY DEF Printed, Prefix
  <1>3. Before'
    BY <1>1 DEF Before
  <1>4. Final => Final'
    BY <1>1, <1>2 DEF Final, Speaks
  <1>5. After'
    BY <1>1, <1>4 DEF After
  <1>6. Stored'
    BY <1>1, <1>2 DEF Stored
  <1> QED BY <1>2, <1>3, <1>5, <1>6

\* A capture with its counters and buffers moved on.
Advanced(c, left, retained, total, hashed) ==
  [pc |-> c.pc, left |-> left, retained |-> retained, total |-> total, hashed |-> hashed,
   state |-> c.state, delivery |-> c.delivery, ref |-> c.ref]

\* What a round of the copy replaces in a capture.
LEMMA AdvancedFields ==
  ASSUME NEW c, NEW left, NEW retained, NEW total, NEW hashed
  PROVE  LET d == Advanced(c, left, retained, total, hashed)
         IN  d.pc = c.pc /\ d.left = left /\ d.retained = retained /\ d.total = total /\ d.hashed = hashed
             /\ d.ref = c.ref
  BY DEF Advanced

\* A round of the copy leaves a capture.
LEMMA CaptureTyped ==
  ASSUME NEW c \in CaptureType, NEW left \in Seq(Seq(Nat)), NEW retained \in Seq(Nat),
         NEW total \in Nat, NEW hashed \in Seq(Nat)
  PROVE  Advanced(c, left, retained, total, hashed) \in CaptureType
  BY DEF CaptureType, Advanced

\* One round of the copy.
Round(c) == [Write(c, Head(c.left)) EXCEPT !.left = Tail(@), !.hashed = @ \o Head(c.left)]

\* One round copies one more chunk: digest, count and retained prefix stay those of what
\* has been read (consumePodLogs).
LEMMA CopyRound ==
  ASSUME NEW c \in CaptureType, NEW log \in Seq(Seq(Nat)), NEW flat, NEW k,
         Copied(c, log, flat, k), c.left # << >>
  PROVE  Round(c) \in CaptureType /\ Round(c).pc = c.pc /\ Copied(Round(c), log, flat, k + 1)
  <1> DEFINE n == Len(log)
  <1>0. n \in Nat /\ k \in 0..n /\ flat \in [0..n -> Seq(Nat)]
    BY DEF Copied, Accumulates
  <1>1. k < n
    <2> SUFFICES ASSUME k = n PROVE FALSE
      BY <1>0
    <2>1. SubSeq(log, n + 1, n) = << >>
      BY <1>0, SubSeqEmpty
    <2> QED BY <2>1 DEF Copied
  <1>2. k + 1 \in 1..n /\ k \in 0..n /\ k + 1 \in 0..n
    BY <1>0, <1>1
  <1>3. Head(c.left) = log[k + 1] /\ Tail(c.left) = SubSeq(log, k + 2, n)
    <2>1. c.left = SubSeq(log, k + 1, n)
      BY DEF Copied
    <2>2. n \in (k + 1)..Len(log) /\ k + 1 \in 1..Len(log) /\ (k + 1) + 1 = k + 2
      BY <1>0, <1>1
    <2>3. /\ Head(SubSeq(log, k + 1, n)) = log[k + 1]
          /\ Tail(SubSeq(log, k + 1, n)) = SubSeq(log, (k + 1) + 1, n)
      <3> HIDE DEF n
      <3> QED BY <2>2, HeadTailOfSubSeq
    <2> QED BY <2>1, <2>2, <2>3
  <1> DEFINE chunk == log[k + 1]
  <1> DEFINE stream == flat[k]
  <1>4. chunk \in Seq(Nat) /\ stream \in Seq(Nat)
    <2>1. chunk \in Seq(Nat)
      BY <1>2, ElementOfSeq
    <2>2. stream \in Seq(Nat)
      BY <1>0
    <2> QED BY <2>1, <2>2
  <1>5. flat[k + 1] = stream \o chunk
    <2>1. flat[k + 1] = flat[(k + 1) - 1] \o log[k + 1]
      BY <1>2 DEF Copied, Accumulates
    <2>2. (k + 1) - 1 = k
      BY <1>0
    <2> QED BY <2>1, <2>2
  <1>6. c.hashed = stream /\ c.total = Len(stream) /\ c.retained = Cut(stream)
    BY DEF Copied
  <1> DEFINE kept == Kept(Len(Cut(stream)), Len(chunk))
  <1>7. Round(c) = [c EXCEPT !.total = Len(stream) + Len(chunk), !.retained = Cut(stream) \o SubSeq(chunk, 1, kept),
                      !.left = SubSeq(log, k + 2, n), !.hashed = stream \o chunk]
    BY <1>3, <1>6 DEF Round, Write, Kept, CaptureType
  <1>8. /\ stream \o chunk \in Seq(Nat) /\ Len(stream \o chunk) = Len(stream) + Len(chunk)
        /\ Cut(stream \o chunk) \in Seq(Nat)
        /\ Cut(stream) \o SubSeq(chunk, 1, kept) = Cut(stream \o chunk)
    <2>1. stream \o chunk \in Seq(Nat) /\ Len(stream \o chunk) = Len(stream) + Len(chunk)
      BY <1>4, ConcatProperties
    <2>2. Cut(stream \o chunk) \in Seq(Nat)
      BY <2>1, CutProperties
    <2>3. Cut(stream) \o SubSeq(chunk, 1, kept) = Cut(stream \o chunk)
      BY <1>4, WriteCuts
    <2> QED BY <2>1, <2>2, <2>3
  <1>9. SubSeq(log, k + 2, n) \in Seq(Seq(Nat))
    <2>1. \A i \in (k + 2)..n : log[i] \in Seq(Nat)
      BY <1>0
    <2> QED BY <1>0, <2>1, SubSeqProperties
  <1>10. k + 1 + 1 = k + 2
    BY <1>0
  <1> HIDE DEF n, chunk, stream, kept
  <1>11. Len(stream) + Len(chunk) \in Nat
    <2>1. Len(stream) \in Nat /\ Len(chunk) \in Nat
      BY <1>4
    <2> QED BY <2>1
  <1>12. Round(c) = Advanced(c, SubSeq(log, k + 2, n), Cut(stream \o chunk), Len(stream) + Len(chunk), stream \o chunk)
    BY <1>7, <1>8 DEF CaptureType, Advanced
  <1>13. /\ Round(c).pc = c.pc /\ Round(c).ref = c.ref
         /\ Round(c).left = SubSeq(log, k + 2, n) /\ Round(c).hashed = stream \o chunk
         /\ Round(c).total = Len(stream) + Len(chunk) /\ Round(c).retained = Cut(stream \o chunk)
    <2> DEFINE rest == SubSeq(log, k + 2, n)
    <2> DEFINE whole == stream \o chunk
    <2> DEFINE cut == Cut(stream \o chunk)
    <2> DEFINE total == Len(stream) + Len(chunk)
    <2>1. Round(c) = Advanced(c, rest, cut, total, whole)
      BY <1>12
    <2> HIDE DEF rest, whole, cut, total
    <2>2. /\ Round(c).pc = c.pc /\ Round(c).ref = c.ref /\ Round(c).left = rest /\ Round(c).hashed = whole
          /\ Round(c).total = total /\ Round(c).retained = cut
      BY <2>1, AdvancedFields
    <2> QED BY <2>2 DEF rest, whole, cut, total
  <1>14. Round(c) \in CaptureType
    BY <1>8, <1>9, <1>11, <1>12, CaptureTyped
  <1> QED BY <1>2, <1>5, <1>8, <1>10, <1>13, <1>14 DEF Copied, n

\* The steps of the capture: what they leave alone, and a goal they share.
OutGoal == OutTypeOK /\ Delivery

\* The capture moves on, and nothing else but the count of faults.
LEMMA CaptureMoves ==
  ASSUME IInv, UNCHANGED <<procVars, now, request, command, secret>>, cached' \in {cached, secret},
         faults' \in 0..MaxFaults, faults' >= faults,
         capture' \in CaptureType, capture'.pc # "idle" => manager # "stopped", Capturing'
  PROVE  OutGoal'
  <1>1. TypeOK
    BY DEF IInv
  <1>2. Before' /\ After' /\ Stored'
    BY Frame
  <1>3. OutTypeOK'
    BY <1>1 DEF TypeOK, OutTypeOK, procVars
  <1> QED BY <1>2, <1>3 DEF OutGoal, Delivery

\* A capture that was given up has no reference (captureJobOutput).
LEMMA FailedCapture ==
  LET c == CaptureFailed(Idle)
  IN  c \in CaptureType /\ c.pc = "finalize" /\ c.state = "Failed" /\ c.delivery = "" /\ c.ref = FALSE
  <1> DEFINE c == CaptureFailed(Idle)
  <1>1. Idle \in CaptureType /\ Idle.delivery = "" /\ Idle.ref = FALSE
    BY DEF Idle, CaptureType
  <1>2. c = [Idle EXCEPT !.pc = "finalize", !.state = "Failed"]
    BY DEF CaptureFailed
  <1> HIDE DEF c
  <1>3. c \in CaptureType /\ c.pc = "finalize" /\ c.state = "Failed" /\ c.delivery = "" /\ c.ref = FALSE
    BY <1>1, <1>2 DEF CaptureType
  <1> QED BY <1>3 DEF c

\* A capture that gave up: it says so, and there is a reason.
LEMMA GivenUp ==
  ASSUME IInv, UNCHANGED <<procVars, now, request, command, secret, cached>>, CallFails,
         request.phase = "Approved", command.state \in {"ended", "gone"},
         manager = "running", capture' = CaptureFailed(Idle)
  PROVE  OutGoal'
  <1>0. TypeOK
    BY DEF IInv
  <1>1. faults' \in 0..MaxFaults /\ faults' >= faults /\ (faults' > 0 \/ cancelled')
    BY <1>0, Calls
  <1>2. /\ capture' \in CaptureType /\ capture'.pc = "finalize" /\ capture'.state = "Failed"
        /\ capture'.delivery = "" /\ capture'.ref = FALSE
    BY FailedCapture
  <1>3. Speaks(capture.state, capture.delivery, capture.ref, command.captured)'
    BY <1>2 DEF Speaks
  <1>4. request'.phase = "Approved" /\ command'.state \in {"ended", "gone"}
    OBVIOUS
  <1>5. Capturing'
    BY <1>1, <1>2, <1>3, <1>4 DEF Capturing
  <1> QED BY <1>1, <1>2, <1>5, CaptureMoves

\* Opening the log stream starts a copy at its first chunk, or gives the capture up.
LEMMA OpenLogsStep ==
  ASSUME IInv, OpenLogs, UNCHANGED procVars
  PROVE  OutGoal'
  <1>0. TypeOK
    BY DEF IInv
  <1>1. /\ manager = "running" /\ request.phase = "Approved" /\ command.state = "ended"
        /\ UNCHANGED <<now, request, command, secret, cached>>
    BY DEF OpenLogs, Reconciling
  <1>2. CASE CallFails /\ capture' = CaptureFailed(Idle)
    BY <1>1, <1>2, GivenUp
  <1>3. CASE CallWorks /\ capture' = [Idle EXCEPT !.pc = "copy", !.left = command.log]
    <2>1. command.log \in Seq(Seq(Nat)) /\ faults \in 0..MaxFaults
      BY <1>0 DEF TypeOK, OutTypeOK, CommandType
    <2>2. PICK flat : Accumulates(flat, command.log)
      BY <2>1, AccumulationExists
    <2>3. /\ capture' \in CaptureType /\ capture'.pc = "copy" /\ capture'.left = command.log
          /\ capture'.hashed = << >> /\ capture'.total = 0 /\ capture'.retained = << >> /\ capture'.ref = FALSE
      <3>1. Idle \in CaptureType
        BY DEF Idle, CaptureType
      <3>2. capture' = [pc |-> "copy", left |-> command.log, retained |-> << >>, total |-> 0,
                        hashed |-> << >>, state |-> "", delivery |-> "", ref |-> FALSE]
        BY <1>3 DEF Idle
      <3>3. /\ capture'.pc = "copy" /\ capture'.left = command.log
            /\ capture'.hashed = << >> /\ capture'.total = 0 /\ capture'.retained = << >> /\ capture'.ref = FALSE
        BY <3>2
      <3>4. capture' \in CaptureType
        BY <1>3, <2>1, <3>1 DEF CaptureType
      <3> QED BY <3>3, <3>4
    <2>4. SubSeq(command.log, 1, Len(command.log)) = command.log
      BY <2>1, SubSeqFull
    <2>5. Len(<< >>) = 0 /\ Cut(<< >>) = << >>
      <3>1. << >> \in Seq(Nat) /\ Len(<< >>) = 0
        OBVIOUS
      <3>2. ~(Len(<< >>) > MaxOutputBytes)
        BY <3>1, OutputAssumption
      <3> QED BY <3>1, <3>2, CutWhole
    <2>6. Copied(capture', command.log, flat, 0)
      <3>1. 0 \in 0..Len(command.log) /\ 0 + 1 = 1
        BY <2>1
      <3>2. flat[0] = << >>
        BY <2>2 DEF Accumulates
      <3> QED BY <2>2, <2>3, <2>4, <2>5, <3>1, <3>2 DEF Copied
    <2>7. Capturing'
      BY <1>1, <2>3, <2>6 DEF Capturing
    <2>8. faults' = faults
      BY <1>0, <1>3, Calls
    <2> QED BY <1>1, <2>1, <2>3, <2>7, <2>8, CaptureMoves
  <1> QED BY <1>2, <1>3 DEF OpenLogs

\* Copying a chunk, or failing to, preserves the invariant.
LEMMA CopyChunkStep ==
  ASSUME IInv, CopyChunk, UNCHANGED procVars
  PROVE  OutGoal'
  <1>0. TypeOK
    BY DEF IInv
  <1>1. /\ manager = "running" /\ capture.pc = "copy" /\ capture.left # << >>
        /\ UNCHANGED <<now, request, command, secret, cached>>
    BY DEF CopyChunk, Reconciling
  <1>2. request.phase = "Approved" /\ command.state \in {"ended", "gone"}
    BY <1>1 DEF IInv, Delivery, Capturing
  <1>3. CASE CallFails /\ capture' = CaptureFailed(Idle)
    BY <1>1, <1>2, <1>3, GivenUp
  <1>4. CASE CallWorks /\ capture' = Round(capture)
    <2>1. command.log \in Seq(Seq(Nat)) /\ capture \in CaptureType /\ faults \in 0..MaxFaults
      BY <1>0 DEF TypeOK, OutTypeOK, CommandType
    <2>2. PICK flat, k : Copied(capture, command.log, flat, k)
      BY <1>1 DEF IInv, Delivery, Capturing
    <2>3. capture' \in CaptureType /\ capture'.pc = "copy" /\ Copied(capture', command.log, flat, k + 1)
      BY <1>1, <1>4, <2>1, <2>2, CopyRound
    <2>4. Capturing'
      BY <1>1, <1>2, <2>3 DEF Capturing
    <2>5. faults' = faults
      BY <1>0, <1>4, Calls
    <2> QED BY <1>1, <2>1, <2>3, <2>4, <2>5, CaptureMoves
  <1> QED BY <1>3, <1>4 DEF CopyChunk, Round

\* A stream that was copied to its end was counted and hashed as a whole, and what
\* was kept is the prefix; the counters tell whether bytes are missing.
LEMMA CopiedWhole ==
  ASSUME TypeOK, NEW flat, NEW k, Copied(capture, command.log, flat, k), capture.left = << >>
  PROVE  /\ capture.hashed = Printed /\ capture.total = Len(Printed) /\ capture.retained = Prefix
         /\ capture.total > Len(capture.retained) <=> Len(Printed) > MaxOutputBytes
  <1> DEFINE log == command.log
  <1> DEFINE n == Len(log)
  <1>0. log \in Seq(Seq(Nat)) /\ n \in Nat
    BY DEF TypeOK, OutTypeOK, CommandType
  <1>1. k \in 0..n /\ Accumulates(flat, log) /\ SubSeq(log, k + 1, n) = << >>
    BY DEF Copied
  <1> HIDE DEF log
  <1>2. k = n
    <2> SUFFICES ASSUME k < n PROVE FALSE
      BY <1>0, <1>1
    <2>1. \A i \in (k + 1)..n : log[i] \in Seq(Nat)
      BY <1>0, <1>1
    <2>2. k + 1 \in Int /\ n \in Int /\ k + 1 =< n /\ n - (k + 1) + 1 # 0
      BY <1>0, <1>1
    <2>3. Len(SubSeq(log, k + 1, n)) = n - (k + 1) + 1
      <3> HIDE DEF n
      <3> QED BY <2>1, <2>2, SubSeqProperties
    <2>4. Len(<< >>) = 0
      OBVIOUS
    <2> QED BY <1>1, <2>2, <2>3, <2>4
  <1>3. flat[k] = Printed
    BY <1>1, <1>2 DEF Accumulates, Printed, log
  <1>4. Cut(Printed) = Prefix
    BY DEF Cut, Prefix
  <1>5. capture.hashed = Printed /\ capture.total = Len(Printed) /\ capture.retained = Prefix
    BY <1>3, <1>4 DEF Copied
  <1>6. Printed \in Seq(Nat)
    BY PrintedIsSeq
  <1>7. Len(Printed) \in Nat /\ Len(Prefix) = Held(Len(Printed))
    BY <1>4, <1>6, CutProperties DEF Held
  <1>8. Len(Printed) > Held(Len(Printed)) <=> Len(Printed) > MaxOutputBytes
    <2> DEFINE p == Len(Printed)
    <2>1. p \in Nat /\ MaxOutputBytes \in Nat
      BY <1>7, OutputAssumption
    <2> HIDE DEF p
    <2>2. p > Held(p) <=> p > MaxOutputBytes
      BY <2>1 DEF Held
    <2> QED BY <2>2 DEF p
  <1> QED BY <1>5, <1>7, <1>8

\* The capture that StoreOutput hands to the status: of a whole stream, stored or not.
Classified(c, delivery, ref) ==
  [c EXCEPT !.pc = "finalize", !.state = IF c.total > Len(c.retained) THEN "Truncated" ELSE "Complete",
            !.delivery = delivery, !.ref = ref]

\* What the end of the stream decides about a capture.
LEMMA ClassifiedFields ==
  ASSUME NEW c \in CaptureType, NEW delivery \in {"Available", "Failed"}, NEW ref \in BOOLEAN, NEW d,
         d = Classified(c, delivery, ref)
  PROVE  /\ d \in CaptureType /\ d.pc = "finalize"
         /\ d.state = IF c.total > Len(c.retained) THEN "Truncated" ELSE "Complete"
         /\ d.delivery = delivery /\ d.ref = ref
         /\ d.hashed = c.hashed /\ d.total = c.total /\ d.retained = c.retained
  BY DEF Classified, CaptureType

\* A whole stream, with its command fixed: the capture is ready for its status.
LEMMA ReadyToFinalize ==
  ASSUME IInv, capture.pc = "copy", capture.left = << >>, UNCHANGED request,
         NEW delivery \in {"Available", "Failed"}, NEW ref \in BOOLEAN, ref <=> delivery = "Available",
         capture' = Classified(capture, delivery, ref),
         command' \in CommandType, command'.log = command.log, command'.state = command.state,
         ref => command'.captured # None,
         ~ref => faults' > 0 \/ cancelled'
  PROVE  capture' \in CaptureType /\ Capturing' /\ Printed' = Printed /\ Prefix' = Prefix
  <1>0. TypeOK /\ Delivery /\ capture \in CaptureType
    BY DEF IInv, TypeOK, OutTypeOK
  <1>1. /\ capture.hashed = Printed /\ capture.total = Len(Printed) /\ capture.retained = Prefix
        /\ capture.total > Len(capture.retained) <=> Len(Printed) > MaxOutputBytes
    <2>1. PICK flat, k : Copied(capture, command.log, flat, k)
      BY <1>0 DEF Delivery, Capturing
    <2> QED BY <1>0, <2>1, CopiedWhole
  <1>2. Printed' = Printed /\ Prefix' = Prefix
    BY DEF Printed, Prefix
  <1>3. /\ capture' \in CaptureType /\ capture'.pc = "finalize"
        /\ capture'.state = IF capture.total > Len(capture.retained) THEN "Truncated" ELSE "Complete"
        /\ capture'.delivery = delivery /\ capture'.ref = ref
        /\ capture'.hashed = Printed /\ capture'.total = Len(Printed) /\ capture'.retained = Prefix
    BY <1>0, <1>1, ClassifiedFields
  <1>4. capture'.state \in {"Complete", "Truncated"} /\ (capture'.state = "Truncated" <=> Len(Printed) > MaxOutputBytes)
    BY <1>1, <1>3
  <1>5. Speaks(capture.state, capture.delivery, capture.ref, command.captured)'
    BY <1>2, <1>3, <1>4 DEF Speaks
  <1>6. request'.phase = "Approved" /\ command'.state \in {"ended", "gone"}
    BY <1>0 DEF Delivery, Capturing
  <1>7. "Failed" \in {capture'.state, capture'.delivery} => faults' > 0 \/ cancelled'
    BY <1>3, <1>4
  <1>8. Capturing'
    BY <1>2, <1>3, <1>5, <1>6, <1>7 DEF Capturing
  <1> QED BY <1>2, <1>3, <1>8

\* Storing the output, for the first time or again, preserves the invariant.
LEMMA StoreOutputStep ==
  ASSUME IInv, StoreOutput, UNCHANGED procVars
  PROVE  OutGoal'
  <1>0. TypeOK /\ Delivery /\ capture \in CaptureType /\ secret \in SecretType /\ command \in CommandType
    BY DEF IInv, TypeOK, OutTypeOK
  <1>1. /\ manager = "running" /\ manager' = manager /\ capture.pc = "copy" /\ capture.left = << >>
        /\ UNCHANGED <<now, request, cached>>
    BY DEF StoreOutput, Reconciling, procVars
  <1>2. request.phase = "Approved" /\ command.state \in {"ended", "gone"}
    BY <1>0, <1>1 DEF Delivery, Capturing
  <1>3. CASE CallFails /\ capture' = Classified(capture, "Failed", FALSE) /\ UNCHANGED <<secret, command>>
    <2>1. faults' \in 0..MaxFaults /\ faults' >= faults /\ (faults' > 0 \/ cancelled')
      BY <1>0, <1>3, Calls
    <2>2. capture' \in CaptureType /\ Capturing'
      BY <1>0, <1>1, <1>3, <2>1, ReadyToFinalize
    <2> QED BY <1>1, <1>3, <2>1, <2>2, CaptureMoves
  <1>4. CASE /\ CallWorks /\ capture' = Classified(capture, "Available", TRUE)
             /\ secret' = IF secret.exists THEN secret
                          ELSE [exists |-> TRUE, expires |-> now + command.ttl, output |-> capture.retained]
             /\ command' = IF secret.exists THEN command ELSE [command EXCEPT !.captured = now]
    <2>1. faults' = faults /\ faults \in 0..MaxFaults /\ now \in 0..MaxNow /\ now \in Nat
      BY <1>0, <1>4, Calls DEF TypeOK, OutTypeOK
    <2>2. /\ command' \in CommandType /\ command'.log = command.log /\ command'.state = command.state
          /\ command'.exit = command.exit /\ command'.ttl = command.ttl
          /\ command'.captured = IF secret.exists THEN command.captured ELSE now
      BY <1>0, <1>4, <2>1 DEF CommandType
    <2>3. command'.captured # None
      BY <1>0, <2>1, <2>2 DEF Delivery, Stored, None
    <2>4. capture' \in CaptureType /\ Capturing' /\ Printed' = Printed /\ Prefix' = Prefix
      BY <1>1, <1>4, <2>2, <2>3, ReadyToFinalize
    <2>5. secret' \in SecretType /\ secret'.exists
      <3>1. now + command.ttl \in Nat /\ capture.retained \in Seq(Nat)
        <4>1. command.ttl \in Nat /\ capture.retained \in Seq(Nat)
          BY <1>0 DEF CaptureType, CommandType
        <4> QED BY <2>1, <4>1
      <3>2. CASE secret.exists
        BY <1>0, <1>4, <3>2
      <3>3. CASE ~secret.exists
        BY <1>4, <3>1, <3>3 DEF SecretType
      <3> QED BY <3>2, <3>3
    <2>6. OutTypeOK'
      BY <1>0, <1>1, <2>1, <2>2, <2>4, <2>5 DEF TypeOK, OutTypeOK
    <2>7. Before' /\ After'
      BY <1>0, <1>1, <1>2, <2>2 DEF Delivery, Before, After
    <2>8. Stored'
      <3>1. capture.retained = Prefix
        <4>1. PICK flat, k : Copied(capture, command.log, flat, k)
          BY <1>0, <1>1 DEF Delivery, Capturing
        <4> QED BY <1>0, <1>1, <4>1, CopiedWhole
      <3>2. secret'.output = Prefix /\ secret'.expires = command'.captured + command'.ttl
        <4>1. CASE secret.exists
          BY <1>0, <1>4, <2>2, <4>1 DEF Delivery, Stored
        <4>2. CASE ~secret.exists
          BY <1>4, <2>2, <3>1, <4>2
        <4> QED BY <4>1, <4>2
      <3>3. cached'.exists => cached'.output = Prefix'
        BY <1>0, <1>1, <2>4 DEF Delivery, Stored
      <3> QED BY <1>2, <2>2, <2>3, <2>4, <2>5, <3>2, <3>3 DEF Stored
    <2> QED BY <2>4, <2>6, <2>7, <2>8 DEF OutGoal, Delivery
  <1>5. capture.ref = FALSE
    BY <1>0, <1>1 DEF Delivery, Capturing, Copied
  <1> DEFINE c == [capture EXCEPT !.pc = "finalize",
                     !.state = IF capture.total > Len(capture.retained) THEN "Truncated" ELSE "Complete"]
  <1>6. /\ [c EXCEPT !.delivery = "Available", !.ref = TRUE] = Classified(capture, "Available", TRUE)
        /\ [c EXCEPT !.delivery = "Failed"] = Classified(capture, "Failed", FALSE)
    BY <1>0, <1>5 DEF Classified, CaptureType
  <1>7. \/ /\ CallWorks /\ capture' = [c EXCEPT !.delivery = "Available", !.ref = TRUE]
           /\ secret' = IF secret.exists THEN secret
                        ELSE [exists |-> TRUE, expires |-> now + command.ttl, output |-> capture.retained]
           /\ command' = IF secret.exists THEN command ELSE [command EXCEPT !.captured = now]
        \/ CallFails /\ capture' = [c EXCEPT !.delivery = "Failed"] /\ UNCHANGED <<secret, command>>
    BY DEF StoreOutput
  <1> HIDE DEF c
  <1> QED BY <1>3, <1>4, <1>6, <1>7

\* A status write ends the capture.
LEMMA FinalizeStep ==
  ASSUME IInv, Finalize, UNCHANGED procVars
  PROVE  OutGoal'
  <1>0. TypeOK /\ Delivery /\ capture \in CaptureType /\ command \in CommandType /\ request \in RequestType
    BY DEF IInv, TypeOK, OutTypeOK
  <1>1. /\ manager' = manager /\ capture.pc = "finalize" /\ capture' = Idle
        /\ UNCHANGED <<now, command, secret, cached>>
    BY DEF Finalize, procVars
  <1>2. Idle \in CaptureType /\ Idle.pc = "idle"
    BY DEF Idle, CaptureType
  <1>3. Capturing'
    BY <1>1, <1>2 DEF Capturing
  <1>4. CASE CallFails /\ UNCHANGED request
    <2>1. faults' \in 0..MaxFaults /\ faults' >= faults
      BY <1>0, <1>4, Calls
    <2> QED BY <1>1, <1>2, <1>3, <1>4, <2>1, CaptureMoves
  <1>5. CASE /\ CallWorks
             /\ request' = [request EXCEPT !.phase = IF command.exit = 0 THEN "Executed" ELSE "Failed",
                                           !.result = applyCapturedOutputStatus(capture)]
    <2> DEFINE r == applyCapturedOutputStatus(capture)
    <2>1. faults' = faults /\ ~cancelled /\ faults \in 0..MaxFaults
      BY <1>0, <1>5, Calls DEF TypeOK, OutTypeOK
    <2>2. /\ r.exit = command.exit /\ r.state = capture.state /\ r.delivery = capture.delivery
          /\ r.ref = capture.ref /\ r.sha = capture.hashed
          /\ r.state # "Failed" => r.total = capture.total /\ r.retained = Len(capture.retained)
      BY DEF applyCapturedOutputStatus
    <2>3. r \in [exit: Int, state: {"", "Complete", "Truncated", "Failed"},
                 delivery: {"", "Available", "Failed"}, ref: BOOLEAN,
                 total: Int, retained: Int, sha: Seq(Nat)]
      <3>1. /\ capture.state \in {"", "Complete", "Truncated", "Failed"}
            /\ capture.delivery \in {"", "Available", "Failed"} /\ capture.ref \in BOOLEAN
            /\ capture.total \in Int /\ Len(capture.retained) \in Int /\ capture.hashed \in Seq(Nat)
            /\ command.exit \in Int /\ None \in Int
        <4>1. /\ capture.state \in {"", "Complete", "Truncated", "Failed"}
              /\ capture.delivery \in {"", "Available", "Failed"} /\ capture.ref \in BOOLEAN
              /\ capture.total \in Nat /\ capture.hashed \in Seq(Nat) /\ capture.retained \in Seq(Nat)
          BY <1>0 DEF CaptureType
        <4>2. command.exit \in 0..255
          BY <1>0 DEF CommandType
        <4>3. Len(capture.retained) \in Nat
          BY <4>1, LenProperties
        <4>4. None \in Int
          BY DEF None
        <4>5. Nat \subseteq Int /\ 0..255 \subseteq Int
          OBVIOUS
        <4> HIDE DEF r
        <4> QED BY <4>1, <4>2, <4>3, <4>4, <4>5, Zenon
      <3> QED BY <3>1 DEF applyCapturedOutputStatus
    <2> HIDE DEF r
    <2>4. /\ request'.phase = IF command.exit = 0 THEN "Executed" ELSE "Failed"
          /\ request'.result = r
      BY <1>0, <1>5 DEF RequestType, r
    <2>5. request' \in RequestType
      BY <1>0, <1>5, <2>3 DEF RequestType, Terminal, r
    <2>6. OutTypeOK'
      BY <1>0, <1>1, <1>2, <2>1, <2>5 DEF TypeOK, OutTypeOK
    <2>7. /\ Speaks(capture.state, capture.delivery, capture.ref, command.captured)
          /\ "Failed" \in {capture.state, capture.delivery} => faults > 0 \/ cancelled
          /\ capture.state # "Failed" => /\ capture.hashed = Printed /\ capture.total = Len(Printed)
                                         /\ capture.retained = Prefix
      BY <1>0, <1>1 DEF Delivery, Capturing
    <2>8. Printed' = Printed /\ Prefix' = Prefix
      BY <1>1 DEF Printed, Prefix
    <2>9. Final'
      <3>1. Speaks(r.state, r.delivery, r.ref, command.captured)
        BY <2>2, <2>7
      <3>2. Speaks(request.result.state, request.result.delivery, request.result.ref, command.captured)'
        BY <1>1, <2>4, <2>8, <3>1 DEF Speaks
      <3> QED BY <1>1, <2>1, <2>2, <2>4, <2>7, <2>8, <3>2 DEF Final
    <2>10. After'
      BY <1>1, <2>4, <2>9 DEF After
    <2>11. Before'
      BY <2>4 DEF Before
    <2>12. Stored'
      BY <1>0, <1>1, <2>8 DEF Delivery, Stored
    <2> QED BY <1>3, <2>6, <2>10, <2>11, <2>12 DEF OutGoal, Delivery
  <1> QED BY <1>4, <1>5 DEF Finalize

\* A request that nothing was captured for moves to another phase without a result.
LEMMA PhaseMoves ==
  ASSUME IInv, request.phase \in {"none", "Pending", "Approved"},
         NEW phase \in Terminal \cup {"Pending", "Approved"}, phase # "Executed",
         request' = [request EXCEPT !.phase = phase], capture.pc = "idle",
         phase \in {"Pending", "Denied", "Expired"} => request.phase # "Approved",
         manager' = manager, UNCHANGED outVars \/ UNCHANGED <<now, command, secret, cached, capture, faults>>
  PROVE  OutGoal'
  <1>0. TypeOK /\ Delivery /\ request \in RequestType
    BY DEF IInv, TypeOK, OutTypeOK
  <1>1. UNCHANGED <<now, command, secret, cached, capture, faults>>
    BY DEF outVars
  <1>2. request' \in RequestType /\ request'.phase = phase /\ request'.result = request.result
    BY <1>0 DEF RequestType
  <1>3. OutTypeOK'
    BY <1>0, <1>1, <1>2 DEF TypeOK, OutTypeOK
  <1>4. Printed' = Printed /\ Prefix' = Prefix
    BY <1>1 DEF Printed, Prefix
  <1>5. Capturing'
    BY <1>0, <1>1 DEF Delivery, Capturing
  <1>6. Before'
    BY <1>0, <1>1, <1>2 DEF Delivery, Before, Terminal
  <1>7. After'
    BY <1>0, <1>2 DEF Delivery, Before, After
  <1>8. Stored'
    BY <1>0, <1>1, <1>4 DEF Delivery, Stored
  <1> QED BY <1>3, <1>5, <1>6, <1>7, <1>8 DEF OutGoal, Delivery

\* A request that fails without a capture has no result (markFailed).
LEMMA MarkFailedStep ==
  ASSUME IInv, MarkFailed, UNCHANGED procVars
  PROVE  OutGoal'
  <1>1. TypeOK
    BY DEF IInv
  <1>2. /\ CallWorks /\ capture.pc = "idle" /\ request.phase = "Approved"
        /\ request' = [request EXCEPT !.phase = "Failed"]
        /\ UNCHANGED <<now, command, secret, cached, capture>>
    BY DEF MarkFailed
  <1>3. faults' = faults /\ manager' = manager
    BY <1>1, <1>2, Calls DEF procVars
  <1> QED BY <1>2, <1>3, PhaseMoves DEF Terminal

\* A request that expires was Pending and has no result.
LEMMA ExpireStep ==
  ASSUME IInv, Expire, UNCHANGED procVars
  PROVE  OutGoal'
  <1>1. /\ request.phase = "Pending" /\ request' = [request EXCEPT !.phase = "Expired"]
        /\ UNCHANGED <<now, command, secret, cached, capture, faults>> /\ manager' = manager
    BY DEF Expire, procVars
  <1>2. capture.pc = "idle"
    BY <1>1 DEF IInv, TypeOK, OutTypeOK, CaptureType, Delivery, Capturing
  <1> QED BY <1>1, <1>2, PhaseMoves DEF Terminal

\* A decision is made before there is a command.
LEMMA DecideStep ==
  ASSUME IInv, Decide
  PROVE  OutGoal'
  <1>1. PICK t \in Tabs, phase \in {"Approved", "Denied"} : Post(t, phase)
    BY DEF Decide
  <1>2. /\ request.phase = "Pending" /\ request' = [request EXCEPT !.phase = phase]
        /\ UNCHANGED <<now, command, secret, cached, capture, faults>> /\ manager' = manager
    BY <1>1 DEF Decide, Post, procVars
  <1>3. capture.pc = "idle"
    BY <1>2 DEF IInv, TypeOK, OutTypeOK, CaptureType, Delivery, Capturing
  <1> QED BY <1>2, <1>3, PhaseMoves DEF Terminal

\* A submission precedes everything else.
LEMMA SubmitStep ==
  ASSUME IInv, cli.pc = "submit", request' = [request EXCEPT !.phase = "Pending"], Rest
  PROVE  OutGoal'
  <1>1. /\ request.phase = "none" /\ request' = [request EXCEPT !.phase = "Pending"]
        /\ UNCHANGED <<now, command, secret, cached, capture, faults>> /\ manager' = manager
    BY DEF Rest, procVars, IInv, Client
  <1>2. capture.pc = "idle"
    BY <1>1 DEF IInv, TypeOK, OutTypeOK, CaptureType, Delivery, Capturing
  <1> QED BY <1>1, <1>2, PhaseMoves

\* The output leaves the cluster only when it has expired.
LEMMA SweepOutputStep ==
  ASSUME IInv, SweepOutput, UNCHANGED procVars
  PROVE  OutGoal'
  <1>0. TypeOK /\ Delivery
    BY DEF IInv
  <1>1. /\ cached = secret /\ secret.exists /\ now >= secret.expires /\ secret' = NoSecret
        /\ UNCHANGED <<now, request, command, cached, capture, faults>> /\ manager' = manager
    BY DEF SweepOutput, Expired, procVars
  <1>2. NoSecret \in SecretType /\ NoSecret.exists = FALSE
    BY DEF NoSecret, SecretType
  <1>3. OutTypeOK'
    BY <1>0, <1>1, <1>2 DEF TypeOK, OutTypeOK
  <1>4. Printed' = Printed /\ Prefix' = Prefix
    BY <1>1 DEF Printed, Prefix
  <1>5. Capturing'
    BY <1>0, <1>1, <1>4 DEF Delivery, Capturing, Speaks, procVars
  <1>6. Before'
    BY <1>0, <1>1 DEF Delivery, Before
  <1>7. After'
    BY <1>0, <1>1, <1>4 DEF Delivery, After, Final, Speaks
  <1>8. Stored'
    BY <1>0, <1>1, <1>2, <1>4 DEF Delivery, Stored
  <1> QED BY <1>3, <1>5, <1>6, <1>7, <1>8 DEF OutGoal, Delivery

\* What is known of a capture stays known while it rests and the context of the
\* process, once cancelled, stays so.
LEMMA CaptureRests ==
  ASSUME IInv, UNCHANGED <<request, capture, faults>>, cancelled => cancelled',
         command'.log = command.log, command'.captured = command.captured,
         command.state \in {"ended", "gone"} => command'.state \in {"ended", "gone"}
  PROVE  Capturing' /\ Printed' = Printed /\ Prefix' = Prefix
  <1>1. Capturing
    BY DEF IInv, Delivery
  <1>2. Printed' = Printed /\ Prefix' = Prefix
    BY DEF Printed, Prefix
  <1>3. capture.pc = "copy" => \E flat, k : Copied(capture', command'.log, flat, k)
    BY <1>1 DEF Capturing
  <1>4. Speaks(capture.state, capture.delivery, capture.ref, command.captured)
        => Speaks(capture.state, capture.delivery, capture.ref, command.captured)'
    BY <1>2 DEF Speaks
  <1>5. capture.pc = "finalize" => ("Failed" \in {capture.state, capture.delivery} => faults' > 0 \/ cancelled')
    BY <1>1 DEF Capturing
  <1>6. Capturing'
    BY <1>1, <1>2, <1>3, <1>4, <1>5 DEF Capturing
  <1> QED BY <1>2, <1>6

\* The informer sees the Secret as it is.
LEMMA CacheSyncStep ==
  ASSUME IInv, CacheSync, UNCHANGED procVars
  PROVE  OutGoal'
  <1>1. cached' = secret /\ UNCHANGED <<now, request, command, secret, capture, faults>>
    BY DEF CacheSync
  <1>2. Capturing'
    BY <1>1, CaptureRests DEF procVars
  <1>3. faults \in 0..MaxFaults /\ capture \in CaptureType /\ (capture.pc # "idle" => manager # "stopped")
    BY DEF IInv, TypeOK, OutTypeOK
  <1>4. faults' >= faults
    BY <1>1, <1>3
  <1> QED BY <1>1, <1>2, <1>3, <1>4, CaptureMoves

\* Time passes: a Secret that was swept stays due.
LEMMA TickStep ==
  ASSUME IInv, Tick, UNCHANGED procVars
  PROVE  OutGoal'
  <1>0. TypeOK /\ Delivery
    BY DEF IInv
  <1>1. /\ now < MaxNow /\ now' = now + 1
        /\ UNCHANGED <<request, command, secret, cached, capture, faults>> /\ manager' = manager
    BY DEF Tick, procVars
  <1>2. now \in 0..MaxNow /\ MaxNow \in Nat /\ command \in CommandType
    BY <1>0, OutputAssumption DEF TypeOK, OutTypeOK
  <1>3. now' \in 0..MaxNow /\ now' >= now
    BY <1>1, <1>2
  <1>4. OutTypeOK'
    BY <1>0, <1>1, <1>3 DEF TypeOK, OutTypeOK
  <1>5. Capturing' /\ Printed' = Printed /\ Prefix' = Prefix
    BY <1>1, CaptureRests DEF procVars
  <1>6. Before'
    BY <1>0, <1>1 DEF Delivery, Before
  <1>7. After'
    BY <1>0, <1>1, <1>5 DEF Delivery, After, Final, Speaks
  <1>8. command.captured # None /\ ~secret.exists => now' >= command.captured + command.ttl
    <2>1. command.captured # None => command.captured \in Nat /\ command.ttl \in Nat
      BY <1>2 DEF CommandType
    <2>2. command.captured # None /\ ~secret.exists => now >= command.captured + command.ttl
      BY <1>0 DEF Delivery, Stored
    <2> QED BY <1>1, <1>2, <2>1, <2>2
  <1>9. Stored'
    BY <1>0, <1>1, <1>5, <1>8 DEF Delivery, Stored
  <1> QED BY <1>4, <1>5, <1>6, <1>7, <1>9 DEF OutGoal, Delivery

\* The command ends before anything was captured of it.
LEMMA CommandEndsStep ==
  ASSUME IInv, CommandEnds, UNCHANGED procVars
  PROVE  OutGoal'
  <1>0. TypeOK /\ Delivery /\ command \in CommandType /\ capture \in CaptureType
    BY DEF IInv, TypeOK, OutTypeOK
  <1>1. /\ request.phase = "Approved" /\ command.state = "waiting"
        /\ UNCHANGED <<now, request, secret, cached, capture, faults>> /\ manager' = manager
    BY DEF CommandEnds, procVars
  <1>2. command' \in CommandType /\ command'.state # "waiting" /\ command'.captured = command.captured
    <2>1. CASE command' = [command EXCEPT !.state = "stuck"]
      BY <1>0, <2>1 DEF CommandType
    <2>2. ASSUME NEW log \in Logs, NEW exit \in ExitCodes,
                 command' = [command EXCEPT !.state = "ended", !.log = log, !.exit = exit]
          PROVE  command' \in CommandType /\ command'.state # "waiting" /\ command'.captured = command.captured
      <3>1. log \in Seq(Seq(Nat)) /\ exit \in 0..255
        BY OutputAssumption
      <3> QED BY <1>0, <2>2, <3>1 DEF CommandType
    <2> QED BY <2>1, <2>2 DEF CommandEnds
  <1>3. OutTypeOK'
    BY <1>0, <1>1, <1>2 DEF TypeOK, OutTypeOK
  <1>4. Capturing'
    BY <1>0, <1>1 DEF Delivery, Capturing, CaptureType
  <1>5. Before' /\ After'
    BY <1>0, <1>1 DEF Delivery, Before, After
  <1>6. Stored'
    BY <1>0, <1>1, <1>2 DEF Delivery, Stored
  <1> QED BY <1>3, <1>4, <1>5, <1>6 DEF OutGoal, Delivery

\* The pod goes, and leaves the captured output as it was.
LEMMA PodGoneStep ==
  ASSUME IInv, PodGone, UNCHANGED procVars
  PROVE  OutGoal'
  <1>0. TypeOK /\ Delivery /\ command \in CommandType
    BY DEF IInv, TypeOK, OutTypeOK
  <1>1. /\ command.state = "ended" /\ command' = [command EXCEPT !.state = "gone"]
        /\ UNCHANGED <<now, request, secret, cached, capture, faults>> /\ manager' = manager
    BY DEF PodGone, procVars
  <1>2. /\ command' \in CommandType /\ command'.state = "gone" /\ command'.log = command.log
        /\ command'.exit = command.exit /\ command'.ttl = command.ttl /\ command'.captured = command.captured
    BY <1>0, <1>1 DEF CommandType
  <1>3. OutTypeOK'
    BY <1>0, <1>1, <1>2 DEF TypeOK, OutTypeOK
  <1>4. Capturing' /\ Printed' = Printed /\ Prefix' = Prefix
    BY <1>1, <1>2, CaptureRests DEF procVars
  <1>5. Before'
    BY <1>0, <1>1, <1>2 DEF Delivery, Before
  <1>6. After'
    BY <1>0, <1>1, <1>2, <1>4 DEF Delivery, After, Final, Speaks
  <1>7. Stored'
    BY <1>0, <1>1, <1>2, <1>4 DEF Delivery, Stored
  <1> QED BY <1>3, <1>4, <1>5, <1>6, <1>7 DEF OutGoal, Delivery

\* The process: while its manager is up, a cancelled context stays cancelled.
LEMMA ProcSteps ==
  ASSUME TypeOK, ProcNext
  PROVE  ProcTypeOK' /\ (manager # "stopped" /\ manager' # "stopped" /\ cancelled => cancelled')
  <1>0. ProcTypeOK /\ MaxStops \in Nat
    BY MaxStopsAssumption DEF TypeOK
  <1>1. CASE Start \/ Restart
    BY <1>0, <1>1 DEF Start, Restart, ProcTypeOK
  <1>2. CASE CachesFill \/ ManagerStops \/ Shutdown \/ Drained \/ Exit
    BY <1>0, <1>2 DEF CachesFill, ManagerStops, Shutdown, Drained, Exit, ProcTypeOK
  <1>3. CASE StartFails \/ ListenFails \/ ManagerFails \/ Signal \/ Kill
    <2>1. stops' \in 0..MaxStops
      BY <1>0, <1>3 DEF StartFails, ListenFails, ManagerFails, Signal, Kill, Stop, ProcTypeOK
    <2> QED BY <1>0, <1>3, <2>1 DEF StartFails, ListenFails, ManagerFails, Signal, Kill, ProcTypeOK
  <1> QED BY <1>1, <1>2, <1>3 DEF ProcNext, ProcProgress

\* A step of the process drops the capture of a manager that stopped.
LEMMA ProcessStepStep ==
  ASSUME IInv, ProcessStep
  PROVE  ProcTypeOK' /\ OutGoal'
  <1>0. TypeOK /\ Delivery /\ capture \in CaptureType
    BY DEF IInv, TypeOK, OutTypeOK
  <1>1. /\ ProcNext /\ UNCHANGED <<now, request, command, secret, faults>>
        /\ capture' = IF manager' = "stopped" THEN Idle ELSE capture
        /\ cached' \in {cached, secret}
    BY DEF ProcessStep
  <1>2. ProcTypeOK'
    BY <1>0, <1>1, ProcSteps
  <1>3. Idle \in CaptureType /\ Idle.pc = "idle"
    BY DEF Idle, CaptureType
  <1>4. faults \in 0..MaxFaults /\ faults' = faults /\ faults' \in Nat /\ faults' >= faults
    BY <1>0, <1>1 DEF TypeOK, OutTypeOK
  <1>5. Before' /\ After' /\ Stored'
    BY <1>1, <1>4, Frame
  <1>6. OutTypeOK'
    BY <1>0, <1>1, <1>3 DEF TypeOK, OutTypeOK
  <1>7. Capturing'
    <2>1. CASE capture' = Idle
      BY <1>3, <2>1 DEF Capturing
    <2>2. CASE manager' # "stopped" /\ capture' = capture /\ capture.pc # "idle"
      <3>1. manager # "stopped"
        BY <1>0, <2>2 DEF TypeOK, OutTypeOK
      <3>2. cancelled => cancelled'
        BY <1>0, <1>1, <2>2, <3>1, ProcSteps
      <3> QED BY <1>1, <2>2, <3>2, CaptureRests
    <2>3. CASE capture' = capture /\ capture.pc = "idle"
      BY <1>0, <2>3 DEF Delivery, Capturing
    <2> QED BY <1>1, <2>1, <2>2, <2>3
  <1> QED BY <1>2, <1>5, <1>6, <1>7 DEF OutGoal, Delivery

-----------------------------------------------------------------------------
(* The browser.                                                            *)

\* Nothing happens in the browser, and an open page still has something to decide.
LEMMA BrowserRests ==
  ASSUME IInv, UNCHANGED reviewVars, request.phase = "Pending" => request'.phase = "Pending"
  PROVE  ReviewTypeOK' /\ Browser'
  <1>1. ReviewTypeOK /\ Browser
    BY DEF IInv, TypeOK
  <1>2. UNCHANGED <<cookie, tab, latest, bare, loads>>
    BY DEF reviewVars
  <1>3. ReviewTypeOK'
    BY <1>1, <1>2 DEF ReviewTypeOK
  <1>4. Browser'
    BY <1>1, <1>2 DEF Browser, Out, AsksBare
  <1> QED BY <1>3, <1>4

\* The request is decided, or expires.
LEMMA BrowserForgets ==
  ASSUME Forget
  PROVE  ReviewTypeOK' /\ Browser'
  <1>1. /\ cookie' = NoCookie /\ tab' = [t \in Tabs |-> NoTab] /\ latest' = {} /\ bare' = FALSE /\ loads' = 0
        /\ NoTab.pc = "closed" /\ NoTab.token = 0
    BY DEF Forget, NoTab
  <1>2. NoCookie \in [value: Nat, until: Nat] /\ NoTab \in [pc: {"closed", "loading", "form"}, token: Nat]
    BY DEF NoCookie, NoTab
  <1>3. ReviewTypeOK'
    <2>1. loads' \in 0..MaxLoads
      BY <1>1, MaxLoadsAssumption
    <2>2. tab' \in [Tabs -> [pc: {"closed", "loading", "form"}, token: Nat]]
      BY <1>1, <1>2, Zenon
    <2> QED BY <1>1, <1>2, <2>1, <2>2 DEF ReviewTypeOK
  <1>4. \A t \in Tabs : tab'[t].pc = "closed" /\ tab'[t].token = 0
    BY <1>1
  <1>5. 0 \in Nat /\ \A t \in Tabs : tab'[t].token =< 0
    BY <1>4
  <1>6. Browser'
    BY <1>1, <1>4, <1>5 DEF Browser, Out, AsksBare
  <1> QED BY <1>3, <1>6

\* A page that does not load leaves a closed tab.
LEMMA LoadFailsStep ==
  ASSUME IInv, NEW t \in Tabs, LoadFails(t), UNCHANGED request
  PROVE  ReviewTypeOK' /\ Browser'
  <1>1. ReviewTypeOK /\ Browser
    BY DEF IInv, TypeOK
  <1>2. /\ tab[t].pc = "loading" /\ tab' = [tab EXCEPT ![t] = NoTab]
        /\ UNCHANGED <<cookie, latest, bare, loads>>
    BY DEF LoadFails
  <1>3. NoTab \in [pc: {"closed", "loading", "form"}, token: Nat] /\ NoTab.pc = "closed" /\ NoTab.token = 0
    BY DEF NoTab
  <1>4. ReviewTypeOK'
    BY <1>1, <1>2, <1>3 DEF ReviewTypeOK
  <1>5. \A u \in Tabs : IF u = t THEN tab'[u] = NoTab ELSE tab'[u] = tab[u]
    BY <1>1, <1>2 DEF ReviewTypeOK
  <1>6. \E b \in Nat : \A u \in Tabs : tab'[u].token =< b
    BY <1>1, <1>3, <1>5 DEF Browser
  <1>7. \A u \in Tabs : Out(u)' => u # t /\ Out(u) /\ tab'[u] = tab[u]
    BY <1>3, <1>5 DEF Out
  <1>8. \A u \in Tabs : tab'[u].pc = "form" => Out(u)'
    BY DEF Out
  <1>9. \A u \in latest : u \in Tabs /\ u # t /\ tab'[u] = tab[u]
    BY <1>1, <1>2, <1>5 DEF Browser, ReviewTypeOK
  <1>10. \A u \in Tabs : AsksBare(u)' => AsksBare(u)
    BY <1>3, <1>5 DEF AsksBare
  <1>11. Browser'
    BY <1>1, <1>2, <1>6, <1>7, <1>8, <1>9, <1>10 DEF Browser
  <1> QED BY <1>4, <1>11

\* A load carries the cookie's token, or none, which the history records.
LEMMA LoadStep ==
  ASSUME IInv, NEW t \in Tabs, Load(t), UNCHANGED request
  PROVE  ReviewTypeOK' /\ Browser'
  <1>1. ReviewTypeOK /\ Browser
    BY DEF IInv, TypeOK
  <1>2. PICK sends \in {Sent, 0} :
          /\ tab' = [tab EXCEPT ![t] = [pc |-> "loading", token |-> sends]]
          /\ bare' = (bare \/ \E u \in Tabs : Out(u) /\ (sends = 0 \/ AsksBare(u)))
    BY DEF Load
  <1>3. /\ tab[t].pc = "closed" /\ request'.phase = "Pending" /\ loads < MaxLoads /\ loads' = loads + 1
        /\ UNCHANGED <<cookie, latest>>
    BY DEF Load
  <1>4. cookie.value \in Nat /\ sends \in Nat /\ (sends # 0 => sends = cookie.value)
    BY <1>1, <1>2 DEF ReviewTypeOK, Sent
  <1> DEFINE page == [pc |-> "loading", token |-> sends]
  <1>5. /\ page \in [pc: {"closed", "loading", "form"}, token: Nat]
        /\ page.pc = "loading" /\ page.token = sends
    BY <1>4
  <1>6. tab' = [tab EXCEPT ![t] = page]
    BY <1>2
  <1> HIDE DEF page
  <1>7. ReviewTypeOK'
    <2>1. loads' \in 0..MaxLoads
      BY <1>1, <1>3, MaxLoadsAssumption DEF ReviewTypeOK
    <2>2. tab' \in [Tabs -> [pc: {"closed", "loading", "form"}, token: Nat]]
      BY <1>1, <1>5, <1>6 DEF ReviewTypeOK
    <2>3. bare' \in BOOLEAN
      BY <1>2
    <2> QED BY <1>1, <1>3, <2>1, <2>2, <2>3 DEF ReviewTypeOK
  <1>8. tab'[t] = page /\ \A u \in Tabs \ {t} : tab'[u] = tab[u]
    BY <1>1, <1>6 DEF ReviewTypeOK
  <1>9. \A u \in Tabs : Out(u)' => u = t \/ (Out(u) /\ tab'[u] = tab[u])
    BY <1>8 DEF Out
  <1>10. \A u \in Tabs : tab'[u].pc = "form" => u # t /\ tab[u].pc = "form" /\ tab'[u] = tab[u]
    BY <1>5, <1>8
  <1>11. \A u \in latest : u \in Tabs /\ u # t /\ tab'[u] = tab[u]
    BY <1>1, <1>3, <1>8 DEF Browser, ReviewTypeOK
  <1>12. \A u \in Tabs : AsksBare(u)' => (u = t /\ sends = 0) \/ (AsksBare(u) /\ Out(u))
    BY <1>5, <1>8 DEF AsksBare, Out
  <1>13. ~bare' => ~bare /\ \A u \in Tabs : Out(u) => sends # 0 /\ ~AsksBare(u)
    BY <1>2, Zenon
  <1>14. ~bare' => \A u, v \in Tabs : AsksBare(u)' /\ Out(v)' => u = v
    BY <1>9, <1>12, <1>13
  <1>15. ~bare' => \A u \in Tabs : Out(u)' /\ tab'[u].token # 0 => tab'[u].token = cookie.value
    <2> SUFFICES ASSUME ~bare', NEW u \in Tabs, Out(u)', tab'[u].token # 0
                 PROVE  tab'[u].token = cookie.value
      OBVIOUS
    <2>1. CASE u = t
      BY <1>4, <1>5, <1>8, <2>1
    <2>2. CASE u # t
      <3>1. ~bare /\ Out(u) /\ tab'[u] = tab[u]
        BY <1>9, <1>13, <2>2
      <3> QED BY <1>1, <3>1 DEF Browser
    <2> QED BY <2>1, <2>2
  <1>16. \E b \in Nat : \A u \in Tabs : tab'[u].token =< b
    <2>1. PICK b \in Nat : \A u \in Tabs : tab[u].token =< b
      BY <1>1 DEF Browser
    <2>2. \A u \in Tabs : tab[u].token \in Nat
      BY <1>1 DEF ReviewTypeOK
    <2>3. \A u \in Tabs : tab'[u].token =< b + sends
      BY <1>4, <1>5, <1>8, <2>1, <2>2
    <2>4. b + sends \in Nat
      BY <1>4
    <2> QED BY <2>3, <2>4
  <1>17. Browser'
    BY <1>1, <1>3, <1>10, <1>11, <1>14, <1>15, <1>16 DEF Browser
  <1> QED BY <1>7, <1>17

\* A rendered form has the token of the cookie that is set with it (ensureCSRFCookie).
LEMMA RenderStep ==
  ASSUME IInv, NEW t \in Tabs, Render(t), UNCHANGED request
  PROVE  ReviewTypeOK' /\ Browser'
  <1>1. ReviewTypeOK /\ Browser /\ now \in Nat /\ PendingTTL \in Nat
    BY OutputAssumption DEF IInv, TypeOK, OutTypeOK
  <1> DEFINE used == {cookie.value} \cup {tab[u].token : u \in Tabs}
  <1> DEFINE token == IF tab[t].token # 0 THEN tab[t].token ELSE 1 + Max(used)
  <1> DEFINE page == [pc |-> "form", token |-> token]
  <1>2. /\ tab[t].pc = "loading" /\ latest' = {t} /\ UNCHANGED <<bare, loads>>
        /\ cookie' = [value |-> token, until |-> now + PendingTTL]
        /\ tab' = [tab EXCEPT ![t] = page]
    BY DEF Render, ensureCSRFCookie
  <1>3. \A u \in Tabs : tab[u].token \in Nat
    BY <1>1 DEF ReviewTypeOK
  <1>4. PICK b \in Nat : \A u \in Tabs : tab[u].token =< b
    BY <1>1 DEF Browser
  <1>5. token \in Nat /\ token # 0
    <2>1. CASE tab[t].token # 0
      BY <1>3, <2>1
    <2>2. CASE tab[t].token = 0
      <3>1. cookie.value \in Nat
        BY <1>1 DEF ReviewTypeOK
      <3>2. used \in SUBSET Nat /\ used # {} /\ b + cookie.value \in Nat
        <4>1. used \in SUBSET Nat /\ used # {}
          BY <1>3, <3>1, Zenon
        <4>2. b + cookie.value \in Nat
          BY <3>1
        <4> QED BY <4>1, <4>2
      <3>3. \A x \in used : x =< b + cookie.value
        <4>1. cookie.value =< b + cookie.value
          BY <3>1
        <4>2. ASSUME NEW u \in Tabs PROVE tab[u].token =< b + cookie.value
          <5>1. tab[u].token \in Nat /\ tab[u].token =< b
            BY <1>3, <1>4
          <5> QED BY <3>1, <5>1
        <4> QED BY <4>1, <4>2
      <3>4. Max(used) \in Nat
        <4> HIDE DEF used
        <4> QED BY <3>2, <3>3, MaxIsNat
      <3> QED BY <2>2, <3>4
    <2> QED BY <2>1, <2>2
  <1>6. tab[t].token # 0 => token = tab[t].token
    OBVIOUS
  <1> HIDE DEF token
  <1>7. /\ page \in [pc: {"closed", "loading", "form"}, token: Nat]
        /\ page.pc = "form" /\ page.token = token
    BY <1>5
  <1> HIDE DEF page
  <1>8. tab'[t] = page /\ \A u \in Tabs \ {t} : tab'[u] = tab[u]
    BY <1>1, <1>2 DEF ReviewTypeOK
  <1>9. /\ cookie' \in [value: Nat, until: Nat] /\ cookie'.value = token
        /\ cookie'.until >= PendingTTL
    BY <1>1, <1>2, <1>5
  <1>10. ReviewTypeOK'
    <2>1. tab' \in [Tabs -> [pc: {"closed", "loading", "form"}, token: Nat]]
      BY <1>1, <1>2, <1>7 DEF ReviewTypeOK
    <2> QED BY <1>1, <1>2, <1>9, <2>1 DEF ReviewTypeOK
  <1>11. \A u \in Tabs : Out(u)' => Out(u)
    BY <1>2, <1>8 DEF Out
  <1>12. \A u \in Tabs : tab'[u].pc = "form" => tab'[u].token # 0
    BY <1>1, <1>5, <1>7, <1>8 DEF Browser
  <1>13. \A u \in Tabs : AsksBare(u)' => AsksBare(u) /\ u # t
    BY <1>7, <1>8 DEF AsksBare
  <1>14. Out(t) /\ (tab[t].token = 0 => AsksBare(t))
    BY <1>2 DEF Out, AsksBare
  <1>15. ~bare => \A u, v \in Tabs : AsksBare(u)' /\ Out(v)' => u = v
    BY <1>1, <1>11, <1>13 DEF Browser
  <1>16. ~bare => \A u \in Tabs : Out(u)' /\ tab'[u].token # 0 => tab'[u].token = token
    <2> SUFFICES ASSUME ~bare, NEW u \in Tabs, Out(u)', tab'[u].token # 0
                 PROVE  tab'[u].token = token
      OBVIOUS
    <2>1. CASE u = t
      BY <1>7, <1>8, <2>1
    <2>2. CASE u # t /\ tab[t].token = 0
      BY <1>1, <1>11, <1>14, <2>2 DEF Browser
    <2>3. CASE u # t /\ tab[t].token # 0
      BY <1>1, <1>6, <1>8, <1>11, <1>14, <2>3 DEF Browser
    <2> QED BY <2>1, <2>2, <2>3
  <1>17. \E c \in Nat : \A u \in Tabs : tab'[u].token =< c
    <2>1. \A u \in Tabs : tab'[u].token =< b + token
      BY <1>3, <1>4, <1>5, <1>7, <1>8
    <2>2. b + token \in Nat
      BY <1>5
    <2> QED BY <2>1, <2>2
  <1>18. \A u \in Tabs : Out(u)' => request'.phase = "Pending"
    BY <1>1, <1>11 DEF Browser
  <1>19. \A u \in latest' : tab'[u].pc = "form" /\ tab'[u].token = cookie'.value
    BY <1>2, <1>7, <1>8, <1>9
  <1>20. Browser'
    BY <1>2, <1>9, <1>12, <1>15, <1>16, <1>17, <1>18, <1>19 DEF Browser
  <1> QED BY <1>10, <1>20

-----------------------------------------------------------------------------
(* The whole session.                                                      *)

\* The client rests: what it was told stays true, for a request that ended, or was
\* not created yet, stays as it is.
LEMMA ClientRests ==
  ASSUME IInv, UNCHANGED cli,
         request.phase \notin {"Pending", "Approved"} =>
           request' = request /\ command'.log = command.log /\ command'.exit = command.exit
  PROVE  CliTypeOK' /\ Client'
  <1>1. CliTypeOK /\ Client
    BY DEF IInv, TypeOK
  <1>2. CliTypeOK'
    BY <1>1 DEF CliTypeOK
  <1>3. request.phase \notin {"Pending", "Approved"} => Printed' = Printed /\ Prefix' = Prefix
    BY DEF Printed, Prefix
  <1>4. CallerToldTruth'
    BY <1>1, <1>3 DEF Client, CallerToldTruth
  <1>5. Client'
    BY <1>1, <1>4 DEF Client, report_output_state
  <1> QED BY <1>2, <1>5

\* Nothing happens to the request and its output.
LEMMA OutRests ==
  ASSUME IInv, UNCHANGED <<procVars, outVars>>
  PROVE  OutGoal'
  <1>1. UNCHANGED <<now, request, command, secret, cached, capture, faults>> /\ UNCHANGED procVars
    BY DEF outVars
  <1>2. Capturing'
    BY <1>1, CaptureRests DEF procVars
  <1>3. faults \in 0..MaxFaults /\ capture \in CaptureType /\ (capture.pc # "idle" => manager # "stopped")
    BY DEF IInv, TypeOK, OutTypeOK
  <1>4. faults' >= faults
    BY <1>1, <1>3
  <1> QED BY <1>1, <1>2, <1>3, <1>4, CaptureMoves

\* The steps of OutputDelivery, together.
LEMMA OutSteps ==
  ASSUME IInv, OutNext, UNCHANGED procVars
  PROVE  /\ OutGoal' /\ (request.phase = "Pending" => request'.phase = "Pending")
         /\ request.phase \notin {"Pending", "Approved"} =>
              request' = request /\ command'.log = command.log /\ command'.exit = command.exit
  <1>1. OutGoal'
    BY OpenLogsStep, CopyChunkStep, StoreOutputStep, FinalizeStep, MarkFailedStep,
       SweepOutputStep, CacheSyncStep, TickStep, CommandEndsStep, PodGoneStep DEF OutNext
  <1>2. request.phase # "Approved" => request' = request /\ (command' = command \/ PodGone)
    <2>1. capture.pc # "idle" => request.phase = "Approved"
      BY DEF IInv, Delivery, Capturing
    <2>2. CASE OpenLogs \/ MarkFailed \/ CommandEnds
      BY <2>2 DEF OpenLogs, MarkFailed, CommandEnds
    <2>3. CASE CopyChunk \/ StoreOutput \/ Finalize
      BY <2>1, <2>3 DEF CopyChunk, StoreOutput, Finalize
    <2>4. CASE SweepOutput \/ CacheSync \/ Tick
      BY <2>4 DEF SweepOutput, CacheSync, Tick
    <2>5. CASE PodGone
      BY <2>5 DEF PodGone
    <2> QED BY <2>2, <2>3, <2>4, <2>5 DEF OutNext
  <1>3. PodGone => command'.log = command.log /\ command'.exit = command.exit
    BY DEF PodGone, IInv, TypeOK, OutTypeOK, CommandType
  <1> QED BY <1>1, <1>2, <1>3

\* The invariant holds initially.
LEMMA InitIInv == Init => IInv
  <1> SUFFICES ASSUME Init PROVE IInv
    OBVIOUS
  <1>0. ProcInit /\ OutInit /\ ReviewInit
    BY DEF Init
  <1>1. PICK ttl \in Ttls : command = [state |-> "waiting", log |-> << >>, exit |-> 0, ttl |-> ttl, captured |-> None]
    BY <1>0 DEF OutInit
  <1>2. PICK timeout \in Timeouts, detach \in BOOLEAN :
          cli = [pc |-> "submit", timeout |-> timeout, detach |-> detach, seen |-> request,
                 stdout |-> << >>, warned |-> {}, exit |-> None, interrupted |-> FALSE]
    BY DEF Init
  <1>3. ProcTypeOK
    <2>1. 0 \in 0..MaxStops
      BY MaxStopsAssumption
    <2> QED BY <1>0, <2>1 DEF ProcInit, ProcTypeOK
  <1>4. /\ now = 0 /\ faults = 0 /\ request = [phase |-> "none", result |-> NoResult]
        /\ secret = NoSecret /\ cached = NoSecret /\ capture = Idle
    BY <1>0 DEF OutInit
  <1>5. request \in RequestType
    BY <1>4, NoRequestType
  <1>6. command \in CommandType
    <2>1. ttl \in Nat /\ None = -1 /\ 0 \in 0..255
      BY OutputAssumption DEF None
    <2>2. << >> \in Seq(Seq(Nat))
      OBVIOUS
    <2> QED BY <1>1, <2>1, <2>2 DEF CommandType
  <1>7. NoSecret \in SecretType /\ Idle \in CaptureType /\ Idle.pc = "idle" /\ NoSecret.exists = FALSE
    BY DEF NoSecret, SecretType, Idle, CaptureType
  <1>8. 0 \in 0..MaxNow /\ 0 \in 0..MaxFaults
    BY OutputAssumption
  <1>9. OutTypeOK
    BY <1>4, <1>5, <1>6, <1>7, <1>8 DEF OutTypeOK
  <1>10. /\ tab = [t \in Tabs |-> NoTab] /\ latest = {} /\ bare = FALSE /\ loads = 0
         /\ NoTab \in [pc: {"closed", "loading", "form"}, token: Nat] /\ NoTab.pc = "closed" /\ NoTab.token = 0
    BY <1>0 DEF ReviewInit, NoTab
  <1>11. cookie \in [value: Nat, until: Nat]
    BY <1>0, OutputAssumption DEF ReviewInit, NoCookie
  <1>12. ReviewTypeOK
    <2>1. loads \in 0..MaxLoads
      BY <1>10, MaxLoadsAssumption
    <2>2. tab \in [Tabs -> [pc: {"closed", "loading", "form"}, token: Nat]]
      BY <1>10, Zenon
    <2> QED BY <1>10, <1>11, <2>1, <2>2 DEF ReviewTypeOK
  <1>13. CliTypeOK
    <2>1. timeout \in Int /\ None \in Int /\ << >> \in Seq(Nat)
      BY TimeoutsAssumption, OutputAssumption DEF None
    <2> QED BY <1>2, <1>5, <2>1 DEF CliTypeOK, CliType
  <1>14. Delivery
    <2>1. Capturing
      BY <1>4, <1>7 DEF Capturing
    <2>2. command.state = "waiting" /\ command.captured = None /\ command.log = << >>
      BY <1>1
    <2>3. Before /\ After
      BY <1>4, <2>2 DEF Before, After
    <2>4. Stored
      BY <1>4, <1>7, <2>2 DEF Stored
    <2> QED BY <2>1, <2>3, <2>4 DEF Delivery
  <1>15. Browser
    <2>1. \A t \in Tabs : tab[t].pc = "closed" /\ tab[t].token = 0
      BY <1>10
    <2>2. 0 \in Nat /\ \A t \in Tabs : tab[t].token =< 0
      BY <2>1
    <2> QED BY <1>10, <2>1, <2>2 DEF Browser, Out, AsksBare
  <1>16. Client
    BY <1>2, <1>4 DEF Client, CallerToldTruth
  <1> QED BY <1>3, <1>9, <1>12, <1>13, <1>14, <1>15, <1>16 DEF IInv, TypeOK

\* Every step preserves the invariant.
LEMMA NextIInv == IInv /\ [Next]_vars => IInv'
  <1> SUFFICES ASSUME IInv, [Next]_vars PROVE ProcTypeOK' /\ OutGoal' /\ ReviewTypeOK' /\ Browser' /\ CliTypeOK' /\ Client'
    BY DEF IInv, TypeOK, OutGoal
  <1>0. UNCHANGED procVars => ProcTypeOK'
    BY DEF procVars, IInv, TypeOK, ProcTypeOK
  <1>1. CASE SubmitFails \/ PollFails \/ Poll \/ Fetch \/ FetchFails \/ (Interrupt /\ UNCHANGED request)
    <2>1. UNCHANGED <<procVars, outVars>> /\ UNCHANGED reviewVars /\ UNCHANGED request /\ UNCHANGED procVars
      BY <1>1 DEF SubmitFails, PollFails, Poll, Fetch, FetchFails, Interrupt, Rest, outVars
    <2> QED BY <1>0, <1>1, <2>1, OutRests, BrowserRests, ClientSteps
  <1>2. CASE \/ Submit
             \/ Interrupt /\ cli.pc = "submit" /\ request' = [request EXCEPT !.phase = "Pending"]
    <2>1. /\ UNCHANGED procVars /\ UNCHANGED reviewVars /\ Rest /\ request.phase = "none"
          /\ cli.pc = "submit" /\ request' = [request EXCEPT !.phase = "Pending"]
      BY <1>2 DEF Submit, Interrupt, Rest, IInv, Client
    <2> QED BY <1>0, <1>2, <2>1, SubmitStep, BrowserRests, ClientSteps
  <1>3. CASE Decide
    <2>1. UNCHANGED procVars /\ UNCHANGED cli /\ Forget /\ request.phase = "Pending"
      BY <1>3 DEF Decide, Post
    <2> QED BY <1>0, <1>3, <2>1, DecideStep, BrowserForgets, ClientRests
  <1>4. CASE Expire /\ Forget /\ UNCHANGED <<procVars, cli>>
    <2>1. UNCHANGED procVars /\ UNCHANGED cli /\ Forget /\ Expire /\ request.phase = "Pending"
      BY <1>4 DEF Expire
    <2> QED BY <1>0, <2>1, ExpireStep, BrowserForgets, ClientRests
  <1>5. CASE OutNext /\ UNCHANGED <<procVars, reviewVars, cli>>
    <2>1. UNCHANGED procVars /\ UNCHANGED cli /\ UNCHANGED reviewVars /\ OutNext
      BY <1>5
    <2> QED BY <1>0, <2>1, OutSteps, BrowserRests, ClientRests
  <1>6. CASE ProcessStep /\ UNCHANGED <<reviewVars, cli>>
    <2>1. ProcessStep /\ UNCHANGED cli /\ UNCHANGED reviewVars /\ request' = request /\ command' = command
      BY <1>6 DEF ProcessStep
    <2> QED BY <2>1, ProcessStepStep, BrowserRests, ClientRests
  <1>7. CASE ReviewOnly /\ UNCHANGED <<procVars, outVars, cli>>
    <2>1. /\ UNCHANGED procVars /\ UNCHANGED <<procVars, outVars>> /\ UNCHANGED cli
          /\ request' = request /\ command' = command
      BY <1>7 DEF outVars
    <2>2. ReviewTypeOK' /\ Browser'
      BY <1>7, <2>1, LoadStep, RenderStep, LoadFailsStep DEF ReviewOnly
    <2> QED BY <1>0, <2>1, <2>2, OutRests, ClientRests
  <1>8. CASE UNCHANGED vars
    <2>1. /\ UNCHANGED procVars /\ UNCHANGED <<procVars, outVars>> /\ UNCHANGED cli /\ UNCHANGED reviewVars
          /\ request' = request /\ command' = command
      BY <1>8 DEF vars, outVars
    <2> QED BY <1>0, <2>1, OutRests, BrowserRests, ClientRests
  <1> QED BY <1>1, <1>2, <1>3, <1>4, <1>5, <1>6, <1>7, <1>8 DEF Next, Interrupt

\* In every reachable state the invariant holds.
THEOREM SessionInvariant == Spec => []IInv
  BY InitIInv, NextIInv, PTL DEF Spec

\* Every variable of the process, the output, the browser and the client keeps its
\* type, through every stop and restart; in particular no capture outlives its
\* manager, and a client has an exit code exactly when it is done.
THEOREM SessionTypeCorrect == Spec => []TypeOK
  <1>1. IInv => TypeOK
    BY DEF IInv
  <1> QED BY <1>1, SessionInvariant, PTL

\* The recorded status tells the truth about the output: what it counted and hashed
\* is the whole stream, Truncated means that bytes are missing, and Failed that a
\* call failed rather than that the process was asked to stop (consumePodLogs,
\* captureJobOutput, applyCapturedOutputStatus, finalizeFromRecordedResult).
THEOREM OutputIsAccounted == Spec => []OutputAccounted
  <1>1. IInv => OutputAccounted
    <2> SUFFICES ASSUME IInv PROVE OutputAccounted
      OBVIOUS
    <2> DEFINE r == request.result
    <2>1. Before /\ After /\ Stored
      BY DEF IInv, Delivery
    <2>2. r = NoResult \/ Final
      BY <2>1 DEF Before, After
    <2>3. CASE r = NoResult
      <3>1. r.state = "" /\ r.delivery = ""
        <4>1. NoResult.state = "" /\ NoResult.delivery = ""
          BY DEF NoResult
        <4> QED BY <2>3, <4>1
      <3> QED BY <3>1 DEF OutputAccounted
    <2>4. CASE Final
      <3>1. secret.exists => secret.output = Prefix
        BY <2>1 DEF Stored
      <3> QED BY <2>4, <3>1 DEF OutputAccounted, Final, Speaks
    <2> QED BY <2>2, <2>3, <2>4
  <1> QED BY <1>1, SessionInvariant, PTL

\* Output that the status calls Available is there until its time is over, whatever
\* captures were repeated and whoever swept (StoreOutput, sweepSecrets).
THEOREM OutputIsKept == Spec => []OutputKept
  <1>1. IInv => OutputKept
    <2> SUFFICES ASSUME IInv, request.result.delivery = "Available", ~secret.exists
                 PROVE  now >= command.captured + command.ttl
      BY DEF OutputKept
    <2>1. Before /\ After /\ Stored
      BY DEF IInv, Delivery
    <2>2. request.result # NoResult
      <3>1. NoResult.delivery = ""
        BY DEF NoResult
      <3> QED BY <3>1
    <2>3. Final
      BY <2>1, <2>2 DEF Before, After
    <2>4. command.captured # None
      BY <2>3 DEF Final, Speaks
    <2> QED BY <2>1, <2>4 DEF Stored
  <1> QED BY <1>1, SessionInvariant, PTL

\* The review form that came last works while there is something to decide, and so
\* does every other one unless pages were asked for without the cookie
\* (ensureCSRFCookie, validateCSRF).
THEOREM FormsKeepWorking == Spec => []FormsWork
  <1>1. IInv => FormsWork
    <2> SUFFICES ASSUME IInv, NEW t \in Tabs, tab[t].pc = "form", now < PendingTTL, t \in latest \/ ~bare
                 PROVE  validateCSRF(t)
      BY DEF FormsWork
    <2>1. Browser /\ now \in Nat /\ PendingTTL \in Nat /\ cookie.until \in Nat
      BY OutputAssumption DEF IInv, TypeOK, OutTypeOK, ReviewTypeOK
    <2>2. tab[t].token # 0 /\ cookie.until >= PendingTTL
      BY <2>1 DEF Browser
    <2>3. tab[t].token = cookie.value
      BY <2>1, <2>2 DEF Browser, Out
    <2>4. now < cookie.until
      BY <2>1, <2>2
    <2> QED BY <2>2, <2>3, <2>4 DEF validateCSRF, Sent
  <1> QED BY <1>1, SessionInvariant, PTL

\* What the client tells its caller is what happened (main, exit_code and
\* report_output_state of the client against the recorded status).
THEOREM CallerIsToldTruth == Spec => []CallerToldTruth
  <1>1. IInv => CallerToldTruth
    BY DEF IInv, Client
  <1> QED BY <1>1, SessionInvariant, PTL

=============================================================================
