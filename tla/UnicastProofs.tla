---------------------------- MODULE UnicastProofs ---------------------------
(***************************************************************************)
(* The objects of bdUnicastConnection, for any two peers, any limits of    *)
(* the repetitions and any number of tags.  The first invariant is about   *)
(* one object at a time: it is of the right type and its listeners know    *)
(* the state it is in (Sound); every handler, timer and call of the class  *)
(* keeps it.  The chunks of a packet are handled by a fold, so what        *)
(* FoldLeft does is proved first.  The second one adds the other end:      *)
(* which tags an end may hold and say (Matches), so that two ends that are *)
(* up agree.                                                               *)
(***************************************************************************)
EXTENDS UnicastConnection, WellFoundedInduction, TLAPS

Less == {p \in Nat \X Nat : p[1] < p[2]}

\* The natural numbers are well founded.
LEMMA LessIsWellFounded == IsWellFoundedOn(Less, Nat)
  BY NatLessThanWellFounded DEF OpToRel, Less

\* A set of numbers that has 0 and every successor has them all: otherwise
\* there would be a least one it lacks.
LEMMA SetInduction ==
  ASSUME NEW T \in SUBSET Nat, 0 \in T, \A n \in T : n + 1 \in T
  PROVE  \A n \in Nat : n \in T
<1> SUFFICES ASSUME Nat \ T # {} PROVE FALSE
  OBVIOUS
<1>1. PICK x \in Nat \ T : \A y \in Nat \ T : ~(<<y, x>> \in Less)
  BY LessIsWellFounded, WFMin, Nat \ T \subseteq Nat
<1>2. \A y \in Nat \ T : ~(y < x)
  BY <1>1 DEF Less
<1>3. x # 0 /\ x - 1 \in Nat /\ (x - 1) + 1 = x
  OBVIOUS
<1> QED
  BY <1>2, <1>3

\* What FoldLeft is over the chunks in s: the last of them is handled last.
LastHandled(g, s, c, chunks, junk) ==
  IF s = {} THEN c
  ELSE HandleChunk(g[s \ {Max(s)}], chunks[Max(s)].type, junk)

Folds(g, n, c, chunks, junk) ==
  g = [s \in SUBSET (1..n) |-> LastHandled(g, s, c, chunks, junk)]

\* The last of some places up to n + 1, if that is one of them.
LEMMA MaxLast ==
  ASSUME NEW n \in Nat, NEW s \in SUBSET (1..n + 1), n + 1 \in s
  PROVE  Max(s) = n + 1
<1>1. \A y \in s : n + 1 >= y
  OBVIOUS
<1>2. \A x \in s : (\A y \in s : x >= y) => x = n + 1
  OBVIOUS
<1> QED
  BY <1>1, <1>2 DEF Max

\* If a function folds the chunks as FoldLeft is defined to, HandleChunks is
\* its value for all the places: the CHOOSE in FoldLeft has something to choose.
LEMMA FoldUnfolds ==
  ASSUME NEW c, NEW chunks, NEW n, n \in Nat, DOMAIN chunks = 1..n, NEW junk
  PROVE  (\E g : Folds(g, n, c, chunks, junk)) =>
         \E g : Folds(g, n, c, chunks, junk) /\ HandleChunks(c, chunks, junk) = g[1..n]
<1> SUFFICES ASSUME NEW h, Folds(h, n, c, chunks, junk)
             PROVE  \E g : Folds(g, n, c, chunks, junk) /\ HandleChunks(c, chunks, junk) = g[1..n]
  OBVIOUS
<1> DEFINE iter == CHOOSE g : Folds(g, n, c, chunks, junk)
<1>1. Folds(iter, n, c, chunks, junk)
  OBVIOUS
<1>2. HandleChunks(c, chunks, junk) = iter[1..n]
  BY DEF HandleChunks, FoldLeft, MapThenFoldSet, Folds, LastHandled
<1> QED
  BY <1>1, <1>2

\* Of no chunks there is a fold.
LEMMA FoldStarts == ASSUME NEW c, NEW chunks, NEW junk PROVE \E g : Folds(g, 0, c, chunks, junk)
<1> DEFINE g == [s \in SUBSET (1..0) |-> c]
<1>1. \A s \in SUBSET (1..0) : s = {}
  OBVIOUS
<1>2. g = [s \in SUBSET (1..0) |-> LastHandled(g, s, c, chunks, junk)]
  BY <1>1 DEF LastHandled
<1> HIDE DEF g
<1> QED
  BY <1>2 DEF Folds

\* A fold of the first n chunks goes on with one more.
LEMMA FoldGoesOn ==
  ASSUME NEW c, NEW chunks, NEW junk, NEW n \in Nat, NEW g, Folds(g, n, c, chunks, junk)
  PROVE  \E h : Folds(h, n + 1, c, chunks, junk)
<1> DEFINE h == [s \in SUBSET (1..n + 1) |->
                   IF n + 1 \in s THEN HandleChunk(g[s \ {n + 1}], chunks[n + 1].type, junk) ELSE g[s]]
<1>1. \A s \in SUBSET (1..n + 1) : n + 1 \notin s => s \in SUBSET (1..n)
  OBVIOUS
<1>2. /\ h = [s \in SUBSET (1..n + 1) |-> h[s]]
      /\ \A s \in SUBSET (1..n + 1) :
            h[s] = IF n + 1 \in s THEN HandleChunk(g[s \ {n + 1}], chunks[n + 1].type, junk) ELSE g[s]
  OBVIOUS
<1> HIDE DEF h
<1>3. ASSUME NEW s \in SUBSET (1..n + 1) PROVE h[s] = LastHandled(h, s, c, chunks, junk)
  <2>1. CASE n + 1 \in s
    <3>1. Max(s) = n + 1 /\ s # {}
      BY <2>1, MaxLast
    <3>2. h[s \ {n + 1}] = g[s \ {n + 1}]
      <4>1. s \ {n + 1} \in SUBSET (1..n + 1) /\ n + 1 \notin s \ {n + 1}
        OBVIOUS
      <4> QED
        BY <1>2, <4>1
    <3>3. h[s] = HandleChunk(g[s \ {n + 1}], chunks[n + 1].type, junk)
      BY <1>2, <2>1
    <3> QED
      BY <3>1, <3>2, <3>3 DEF LastHandled
  <2>2. CASE n + 1 \notin s
    <3>1. s \in SUBSET (1..n) /\ h[s] = g[s]
      BY <1>1, <1>2, <2>2
    <3>2. g[s] = LastHandled(g, s, c, chunks, junk)
      <4>1. \A t \in SUBSET (1..n) : g[t] = LastHandled(g, t, c, chunks, junk)
        BY DEF Folds
      <4> QED
        BY <3>1, <4>1
    <3>3. h[s \ {Max(s)}] = g[s \ {Max(s)}]
      <4>1. s \ {Max(s)} \in SUBSET (1..n + 1) /\ n + 1 \notin s \ {Max(s)}
        BY <2>2
      <4> QED
        BY <1>2, <4>1
    <3> QED
      BY <3>1, <3>2, <3>3 DEF LastHandled
  <2> QED
    BY <2>1, <2>2
<1>4. h = [s \in SUBSET (1..n + 1) |-> LastHandled(h, s, c, chunks, junk)]
  <2> DEFINE k == [s \in SUBSET (1..n + 1) |-> LastHandled(h, s, c, chunks, junk)]
  <2>1. k = [s \in SUBSET (1..n + 1) |-> k[s]] /\ \A s \in SUBSET (1..n + 1) : k[s] = h[s]
    BY <1>3
  <2> HIDE DEF k
  <2>2. h = k
    BY <1>2, <2>1
  <2> QED
    BY <2>2 DEF k
<1> QED
  BY <1>4 DEF Folds

\* What every chunk keeps of the object, all the chunks of a packet keep.
LEMMA ChunksKeep ==
  ASSUME NEW G, NEW c \in G, NEW chunks \in Seq(Chunks), NEW junk,
         \A d \in G : \A i \in 1..Len(chunks) : HandleChunk(d, chunks[i].type, junk) \in G
  PROVE  HandleChunks(c, chunks, junk) \in G
<1> DEFINE n == Len(chunks)
           T == {m \in Nat : \E g : Folds(g, m, c, chunks, junk)}
<1>0. n \in Nat /\ DOMAIN chunks = 1..n
  OBVIOUS
<1>1. 0 \in T /\ \A m \in T : m + 1 \in T
  BY FoldStarts, FoldGoesOn
<1>2. n \in T
  <2>1. T \in SUBSET Nat
    OBVIOUS
  <2> HIDE DEF T, n
  <2> QED
    BY <1>0, <1>1, <2>1, SetInduction
<1> HIDE DEF n
<1>3. PICK g : Folds(g, n, c, chunks, junk) /\ HandleChunks(c, chunks, junk) = g[1..n]
  BY <1>0, <1>2, FoldUnfolds
<1>4. \A s \in SUBSET (1..n) : g[s] = LastHandled(g, s, c, chunks, junk)
  BY <1>3 DEF Folds
<1> DEFINE U == {m \in Nat : m <= n => g[1..m] \in G}
<1>5. 0 \in U
  <2>1. 1..0 = {} /\ 1..0 \in SUBSET (1..n)
    OBVIOUS
  <2> QED
    BY <1>4, <2>1 DEF LastHandled
<1>6. ASSUME NEW m \in U PROVE m + 1 \in U
  <2> SUFFICES ASSUME m + 1 <= n PROVE g[1..m + 1] \in G
    BY <1>6
  <2>1. m \in Nat /\ m + 1 \in 1..m + 1 /\ 1..m + 1 \in SUBSET (1..n) /\ (1..m + 1) \ {m + 1} = 1..m /\ m + 1 \in 1..n
        /\ m <= n /\ 1..m + 1 \in SUBSET (1..m + 1)
    BY <1>0
  <2>2. Max(1..m + 1) = m + 1 /\ 1..m + 1 # {}
    BY <2>1, MaxLast
  <2>3. g[1..m + 1] = HandleChunk(g[1..m], chunks[m + 1].type, junk)
    BY <1>4, <2>1, <2>2 DEF LastHandled
  <2>4. g[1..m] \in G
    BY <1>6, <2>1
  <2> QED
    BY <2>1, <2>3, <2>4 DEF n
<1>7. n \in U
  <2>1. U \in SUBSET Nat
    OBVIOUS
  <2> HIDE DEF U
  <2> QED
    BY <1>0, <1>5, <1>6, <2>1, SetInduction
<1> QED
  BY <1>0, <1>3, <1>7
-----------------------------------------------------------------------------
\* The objects a connection can be, and those whose listeners know the state
\* and whose guard is on in a shutdown.
Counts == 0..CounterRange - 1

Objects ==
  [state : States, localTag : Tags, peerTag : Tags,
   initResends : Counts, cookieResends : Counts, shutdownResends : Counts,
   initTimer : Timers, shutdownTimer : Timers, guard : Guards,
   outQueue : Seq(Chunks), unsent : 0..1,
   told : {"nothing", "connected", "reconnected", "disconnected", "failed"}]

Sound == {c \in Objects : /\ c.state \in Up <=> c.told \in {"connected", "reconnected"}
                          /\ c.state \in ShuttingDown => c.guard # "off"}

USE DEF ShuttingDown

\* A counter stays within its byte, because it comes round.
LEMMA CountedUp == ASSUME NEW n \in Counts PROVE CountUp(n) \in Counts
  BY ConnectionAssumption DEF Counts, CountUp

\* The chunks the code builds are chunks.
LEMMA ChunkKinds ==
  /\ \A t \in HeaderOnly \cup {"DATA"} : Chunk(t) \in Chunks
  /\ \A t \in Tags : [type |-> "INIT", initTag |-> t] \in Chunks
  /\ \A k \in Cookies : [type |-> "INIT_ACK", cookie |-> k] \in Chunks /\ [type |-> "COOKIE_ECHO", cookie |-> k] \in Chunks
  BY DEF Chunks, Chunk

\* A chunk of a kind that has a tag or a cookie has one of the right type.
LEMMA ChunkParts ==
  ASSUME NEW ch \in Chunks
  PROVE  /\ ch.type = "INIT" => ch.initTag \in Tags
         /\ ch.type \in {"INIT_ACK", "COOKIE_ECHO"} => ch.cookie \in Cookies
  BY DEF Chunks, HeaderOnly

\* A chunk put in the queue changes neither the state nor what was told.
LEMMA Enqueued ==
  ASSUME NEW c \in Sound, NEW ch \in Chunks
  PROVE  /\ Enqueue(c, ch) \in Sound /\ Enqueue(c, ch).state = c.state
         /\ Enqueue(c, ch).localTag = c.localTag
<1>1. Append(c.outQueue, ch) \in Seq(Chunks)
  BY DEF Sound, Objects
<1> QED
  BY <1>1 DEF Enqueue, Sound, Objects

\* close: the listeners are told, unless they never heard of a connection.
LEMMA Closed == ASSUME NEW c \in Sound PROVE Close(c) \in Sound /\ Close(c).state = "CLOSED"
  BY DEF Close, Sound, Objects, States, Up, Opening

\* A connection that is entered is told.
LEMMA Entered == ASSUME NEW c \in Sound PROVE Enter(c) \in Sound
  BY DEF Enter, Sound, Objects, States, Up

\* sendInit, whether it sends, gives up or waits.
LEMMA InitSent == ASSUME NEW c \in Sound PROVE SendInit(c) \in Sound /\ SendInit(c).state = c.state
<1> DEFINE counted == [c EXCEPT !.initResends = CountUp(@)]
           timed == [counted EXCEPT !.initTimer = "running"]
<1>1. counted \in Sound /\ counted.state = c.state
  <2>1. CountUp(c.initResends) \in Counts
    BY CountedUp DEF Sound, Objects
  <2> QED
    BY <2>1 DEF Sound, Objects
<1>2. timed \in Sound /\ timed.state = c.state
  BY <1>1 DEF Sound, Objects, Timers
<1>3. [type |-> "INIT", initTag |-> c.localTag] \in Chunks
  BY ChunkKinds DEF Sound, Objects
<1> HIDE DEF counted, timed
<1>4. SendInit(c) = IF MaySendInit(c) THEN Enqueue(timed, [type |-> "INIT", initTag |-> c.localTag]) ELSE counted
  BY DEF SendInit, counted, timed
<1> QED
  BY <1>1, <1>2, <1>3, <1>4, Enqueued

\* sendShutdown, whether it sends or waits.
LEMMA ShutdownSent ==
  ASSUME NEW c \in Sound, NEW type \in HeaderOnly
  PROVE  SendShutdown(c, type) \in Sound /\ SendShutdown(c, type).state = c.state
<1> DEFINE counted == [c EXCEPT !.shutdownResends = CountUp(@)]
           timed == [counted EXCEPT !.shutdownTimer = "running"]
<1>1. counted \in Sound /\ counted.state = c.state
  <2>1. CountUp(c.shutdownResends) \in Counts
    BY CountedUp DEF Sound, Objects
  <2> QED
    BY <2>1 DEF Sound, Objects
<1>2. timed \in Sound /\ timed.state = c.state
  BY <1>1 DEF Sound, Objects, Timers
<1>3. Chunk(type) \in Chunks
  BY ChunkKinds
<1> HIDE DEF counted, timed
<1>4. SendShutdown(c, type) = IF MaySendShutdown(c) THEN Enqueue(timed, Chunk(type)) ELSE counted
  BY DEF SendShutdown, counted, timed
<1> QED
  BY <1>1, <1>2, <1>3, <1>4, Enqueued

\* Either the shutdown is sent and the state goes on among those in which the
\* connection is up, or the object closes.
LEMMA ShutdownSentOrClosed ==
  ASSUME NEW c \in Sound, NEW type \in HeaderOnly, NEW state \in States,
         state = c.state \/ (c.state \in ShuttingDown /\ state \in Up)
  PROVE  SendShutdownOrClose(c, type, state) \in Sound
<1> DEFINE d == SendShutdown(c, type)
<1>1. d \in Sound /\ d.state = c.state /\ Close(d) \in Sound
  BY ShutdownSent, Closed
<1> HIDE DEF d
<1>2. [d EXCEPT !.state = state] \in Sound
  BY <1>1 DEF Sound, Objects
<1> QED
  BY <1>1, <1>2 DEF SendShutdownOrClose, d
-----------------------------------------------------------------------------
\* The handlers.

\* handleInit.
LEMMA InitHandled ==
  ASSUME NEW c \in Sound, NEW ch \in Chunks, ch.type = "INIT", NEW fresh, DrawsTag(c, ch) => fresh \in Tags
  PROVE  HandleInit(c, ch, fresh) \in Sound
<1> DEFINE ties == c.state \in {"COOKIE_ECHOED", "SHUTDOWN_RECEIVED"}
           d == [c EXCEPT !.peerTag = IF c.state = "SHUTDOWN_ACK_SENT" THEN ch.initTag ELSE @]
           k == [localTag |-> IF DrawsTag(c, ch) THEN fresh ELSE c.localTag,
                 peerTag |-> ch.initTag,
                 localTieTag |-> IF ties THEN c.localTag ELSE 0,
                 peerTieTag |-> IF ties THEN c.peerTag ELSE 0]
<1>1. ch.initTag \in Tags /\ 0 \in Tags
  BY ChunkParts, ConnectionAssumption DEF Tags
<1>2. d \in Sound
  BY <1>1 DEF Sound, Objects
<1>3. k \in Cookies
  BY <1>1 DEF Cookies, Sound, Objects
<1> HIDE DEF d, k
<1>4. Enqueue(d, [type |-> "INIT_ACK", cookie |-> k]) \in Sound
  BY <1>2, <1>3, ChunkKinds, Enqueued
<1>5. HandleInit(c, ch, fresh) = c \/ HandleInit(c, ch, fresh) = Enqueue(d, [type |-> "INIT_ACK", cookie |-> k])
  BY DEF HandleInit, d, k
<1> QED
  BY <1>4, <1>5

\* handleInitAck.
LEMMA InitAckHandled ==
  ASSUME NEW c \in Sound, NEW ch \in Chunks, ch.type = "INIT_ACK", NEW vtag
  PROVE  HandleInitAck(c, ch, vtag) \in Sound
<1> DEFINE tagged == TakePeerTag(c, ch)
           counted == [tagged EXCEPT !.cookieResends = CountUp(@)]
           echoed == [counted EXCEPT !.initTimer = "off", !.state = "COOKIE_ECHOED"]
           echo == [type |-> "COOKIE_ECHO", cookie |-> ch.cookie]
<1>1. ch.cookie \in Cookies
  BY ChunkParts
<1>2. tagged \in Sound /\ tagged.state = c.state
  BY <1>1 DEF TakePeerTag, Sound, Objects, Cookies
<1>3. counted \in Sound /\ counted.state = c.state
  <2> HIDE DEF tagged
  <2>1. CountUp(tagged.cookieResends) \in Counts
    BY <1>2, CountedUp DEF Sound, Objects
  <2> QED
    BY <1>2, <2>1 DEF Sound, Objects
<1> HIDE DEF tagged, counted
<1>4. c.state = "COOKIE_WAIT" => echoed \in Sound
  BY <1>3 DEF Sound, Objects, Timers, States, Opening, Up
<1> HIDE DEF echoed
<1>5. echo \in Chunks
  BY <1>1, ChunkKinds
<1> HIDE DEF echo
<1>6. c.state = "COOKIE_WAIT" => Enqueue(echoed, echo) \in Sound
  BY <1>4, <1>5, Enqueued
<1>7. HandleInitAck(c, ch, vtag) = IF c.state # "COOKIE_WAIT" \/ vtag # c.localTag THEN c
                                   ELSE IF ch.cookie.localTag = 0 THEN tagged
                                   ELSE IF c.cookieResends >= MaxInits THEN counted ELSE Enqueue(echoed, echo)
  BY DEF HandleInitAck, tagged, counted, echoed, echo
<1> QED
  BY <1>2, <1>3, <1>6, <1>7

\* sendCookieAck.
LEMMA CookieAckSent == ASSUME NEW c \in Sound PROVE SendCookieAck(c) \in Sound
  BY ChunkKinds, Enqueued DEF SendCookieAck, HeaderOnly

\* handleCookieEcho: the peer restarted, both started, the echo was repeated.
LEMMA CookieEchoHandled ==
  ASSUME NEW c \in Sound, NEW k \in Cookies
  PROVE  HandleCookieEcho(c, k) \in Sound
<1>0. k.localTag \in Tags /\ k.peerTag \in Tags /\ "ESTABLISHED" \in States /\ "ESTABLISHED" \in Up
  BY DEF Cookies, States, Up
<1>1. CASE c.state = "CLOSED"
  <2> DEFINE d == [c EXCEPT !.localTag = k.localTag, !.peerTag = k.peerTag, !.state = "ESTABLISHED"]
             e == SendCookieAck(d)
  <2>1. [e EXCEPT !.told = "connected"] \in Sound
    <3>1. d \in Objects /\ d.state = "ESTABLISHED"
      BY <1>0 DEF Sound, Objects
    <3> HIDE DEF d
    <3>2. Append(d.outQueue, Chunk("COOKIE_ACK")) \in Seq(Chunks)
      BY <3>1, ChunkKinds DEF Objects, HeaderOnly
    <3>3. e \in Objects /\ e.state = "ESTABLISHED"
      BY <3>1, <3>2 DEF SendCookieAck, Enqueue, Objects
    <3> HIDE DEF e
    <3> QED
      BY <1>0, <3>3 DEF Sound, Objects
  <2> QED
    BY <1>1, <2>1 DEF HandleCookieEcho
<1>2. CASE c.state # "CLOSED" /\ PeerRestarted(c, k)
  <2> DEFINE r == [c EXCEPT !.outQueue = <<>>, !.unsent = 0, !.initResends = 0, !.cookieResends = 0,
                            !.shutdownResends = 0, !.told = "reconnected"]
             d == [r EXCEPT !.localTag = k.localTag, !.peerTag = k.peerTag, !.state = "ESTABLISHED"]
  <2>1. r \in Objects /\ r.told = "reconnected"
    <3>1. 0 \in Counts /\ <<>> \in Seq(Chunks) /\ 0 \in 0..1
      BY ConnectionAssumption DEF Counts
    <3> QED
      BY <3>1 DEF Sound, Objects
  <2> HIDE DEF r
  <2>2. d \in Sound
    BY <1>0, <2>1 DEF Sound, Objects
  <2> HIDE DEF d
  <2>3. HandleCookieEcho(c, k) = SendCookieAck(d)
    <3>1. ~BothStarted(c, k) /\ ~SameConnection(c, k)
      BY <1>2 DEF PeerRestarted, BothStarted, SameConnection
    <3>2. d = [r EXCEPT !.localTag = k.localTag, !.peerTag = k.peerTag, !.state = "ESTABLISHED"]
      BY DEF d
    <3> QED
      BY Zenon, <1>2, <3>1, <3>2 DEF HandleCookieEcho, r
  <2> QED
    BY <2>2, <2>3, CookieAckSent
<1>3. CASE c.state # "CLOSED" /\ ~PeerRestarted(c, k) /\ BothStarted(c, k)
  <2> DEFINE d == Enter(c)
             t == [d EXCEPT !.peerTag = k.peerTag, !.initTimer = "off"]
  <2>1. d \in Sound
    BY Entered
  <2> HIDE DEF d
  <2>2. t \in Sound
    BY <1>0, <2>1 DEF Sound, Objects, Timers
  <2> HIDE DEF t
  <2>3. HandleCookieEcho(c, k) = SendCookieAck(t)
    BY <1>3 DEF HandleCookieEcho, PeerRestarted, BothStarted, SameConnection, t, d
  <2> QED
    BY <2>2, <2>3, CookieAckSent
<1>4. CASE c.state # "CLOSED" /\ ~PeerRestarted(c, k) /\ ~BothStarted(c, k) /\ SameConnection(c, k)
  <2> DEFINE d == Enter(c)
             t == [d EXCEPT !.initTimer = "off"]
  <2>1. d \in Sound
    BY Entered
  <2> HIDE DEF d
  <2>2. t \in Sound
    BY <2>1 DEF Sound, Objects, Timers
  <2> HIDE DEF t
  <2>3. HandleCookieEcho(c, k) = SendCookieAck(t)
    BY <1>4 DEF HandleCookieEcho, t, d
  <2> QED
    BY <2>2, <2>3, CookieAckSent
<1>5. CASE c.state # "CLOSED" /\ ~PeerRestarted(c, k) /\ ~BothStarted(c, k) /\ ~SameConnection(c, k)
  BY <1>5 DEF HandleCookieEcho
<1> QED
  BY <1>1, <1>2, <1>3, <1>4, <1>5

InFlight == [tag : Tags, chunks : Seq(Chunks) \ {<<>>}]

\* The first chunk of a packet.
LEMMA FirstHandled ==
  ASSUME NEW c \in Sound, NEW p \in InFlight, NEW fresh, DrawsTag(c, Head(p.chunks)) => fresh \in Tags
  PROVE  HandleFirst(c, p, fresh) \in Sound
<1> DEFINE ch == Head(p.chunks)
<1>1. ch \in Chunks
  BY DEF InFlight
<1> HIDE DEF ch
<1>2. CASE ch.type = "INIT"
  <2>1. HandleInit(c, ch, fresh) \in Sound
    BY <1>1, <1>2, InitHandled DEF ch
  <2> QED
    BY <1>2, <2>1 DEF HandleFirst, ch
<1>3. CASE ch.type = "INIT_ACK"
  <2>1. HandleInitAck(c, ch, p.tag) \in Sound
    BY <1>1, <1>3, InitAckHandled
  <2> QED
    BY <1>3, <2>1 DEF HandleFirst, ch
<1>4. CASE ch.type = "COOKIE_ECHO"
  <2>1. HandleCookieEcho(c, ch.cookie) \in Sound
    BY <1>1, <1>4, ChunkParts, CookieEchoHandled
  <2> QED
    BY <1>4, <2>1 DEF HandleFirst, ch
<1>5. CASE ch.type = "COOKIE_ACK"
  <2>1. HandleCookieAck(c, p.tag) \in Sound
    BY Entered DEF HandleCookieAck
  <2> QED
    BY <1>5, <2>1 DEF HandleFirst, ch
<1>6. CASE ch.type \notin {"INIT", "INIT_ACK", "COOKIE_ECHO", "COOKIE_ACK"}
  BY <1>6 DEF HandleFirst, ch
<1> QED
  BY <1>2, <1>3, <1>4, <1>5, <1>6

\* A shutdown that is complete closes the object.
LEMMA IsStopped == ASSUME NEW c \in Sound PROVE Stopped(c) \in Sound
<1> DEFINE d == Close(c)
<1>1. d \in Sound
  BY Closed
<1> HIDE DEF d
<1> QED
  BY <1>1 DEF Stopped, d, Sound, Objects, Timers

\* Starting the guard of a shutdown tells nobody anything.
LEMMA Guarded == ASSUME NEW c \in Sound PROVE [c EXCEPT !.guard = "running"] \in Sound
  BY DEF Sound, Objects, Guards, Timers

\* handleShutdown, in each state.
LEMMA ShutdownHandled == ASSUME NEW c \in Sound, NEW junk PROVE HandleShutdown(c, junk) \in Sound
<1> DEFINE received == [c EXCEPT !.state = "SHUTDOWN_RECEIVED"]
           answered == SendShutdown(received, "SHUTDOWN_ACK")
<1>1. c.state \in ShuttingDown => received \in Sound
  BY DEF Sound, Objects, States, Up
<1>0. c.state = "ESTABLISHED" => [received EXCEPT !.guard = "running"] \in Sound
  BY DEF Sound, Objects, States, Up, Guards, Timers
<1> HIDE DEF received
<1>2. c.state \in ShuttingDown => answered \in Sound
  BY <1>1, ShutdownSent DEF HeaderOnly
<1> HIDE DEF answered
<1>3. CASE c.state = "SHUTDOWN_SENT"
  <2>1. HandleShutdown(c, junk) = IF MaySendShutdown(c) THEN [answered EXCEPT !.guard = "running"] ELSE answered
    BY <1>3 DEF HandleShutdown, received, answered
  <2>2. answered \in Sound /\ [answered EXCEPT !.guard = "running"] \in Sound
    BY <1>2, <1>3, Guarded DEF Up
  <2> QED
    BY <2>1, <2>2
<1>4. CASE c.state = "ESTABLISHED"
  <2>1. HandleShutdown(c, junk) = [received EXCEPT !.guard = "running"]
    BY <1>4 DEF HandleShutdown, received
  <2> QED
    BY <1>0, <1>4, <2>1
<1>5. CASE c.state \notin {"SHUTDOWN_SENT", "ESTABLISHED"}
  <2>1. HandleShutdown(c, junk) = IF junk THEN [c EXCEPT !.guard = "running"] ELSE c
    BY <1>5 DEF HandleShutdown
  <2> QED
    BY <2>1, Guarded
<1> QED
  BY <1>3, <1>4, <1>5

\* Every other chunk.
LEMMA ChunkHandled == ASSUME NEW c \in Sound, NEW type, NEW junk PROVE HandleChunk(c, type, junk) \in Sound
<1>1. Chunk("SHUTDOWN_COMPLETE") \in Chunks /\ Chunk("HEARTBEAT_ACK") \in Chunks
  BY ChunkKinds DEF HeaderOnly
<1>2. HandleHeartbeat(c) \in Sound
  BY <1>1, Enqueued DEF HandleHeartbeat
<1>3. HandleShutdown(c, junk) \in Sound
  BY ShutdownHandled
<1>4. HandleShutdownAck(c) \in Sound
  <2>1. Enqueue(c, Chunk("SHUTDOWN_COMPLETE")) \in Sound
    BY <1>1, Enqueued
  <2>2. Stopped(Enqueue(c, Chunk("SHUTDOWN_COMPLETE"))) \in Sound
    BY <2>1, IsStopped
  <2> QED
    BY <2>2 DEF HandleShutdownAck
<1>5. HandleShutdownComplete(c) \in Sound
  BY IsStopped DEF HandleShutdownComplete
<1> QED
  BY <1>2, <1>3, <1>4, <1>5 DEF HandleChunk

\* All the chunks of a packet, the first one and then the fold.
LEMMA Handled ==
  ASSUME NEW c \in Sound, NEW p \in InFlight, NEW fresh, DrawsTag(c, Head(p.chunks)) => fresh \in Tags, NEW junk
  PROVE  Handle(c, p, fresh, junk) \in Sound
<1> DEFINE first == HandleFirst(c, p, fresh)
           ours == first.localTag = p.tag
           all == IF ours THEN HandleChunks(first, p.chunks, junk) ELSE first
<1>1. first \in Sound
  BY FirstHandled
<1> HIDE DEF first
<1>2. all \in Sound
  <2>1. p.chunks \in Seq(Chunks)
    BY DEF InFlight
  <2>2. HandleChunks(first, p.chunks, junk) \in Sound
    BY <1>1, <2>1, ChunkHandled, ChunksKeep
  <2> QED
    BY <1>1, <2>2
<1> HIDE DEF all
<1>3. all.state = "SHUTDOWN_SENT" => SendShutdownOrClose(all, "SHUTDOWN", "SHUTDOWN_SENT") \in Sound
  BY <1>2, ShutdownSentOrClosed DEF HeaderOnly, States, Up
<1>4. Handle(c, p, fresh, junk) \in {all, SendShutdownOrClose(all, "SHUTDOWN", "SHUTDOWN_SENT")}
      /\ (Handle(c, p, fresh, junk) # all => all.state = "SHUTDOWN_SENT")
  BY DEF Handle, all, first
<1> QED
  BY <1>2, <1>3, <1>4

\* receive: a late guard, a packet that is not valid, and one that is handled.
LEMMA Received ==
  ASSUME NEW c \in Sound, NEW p \in InFlight, NEW fresh, NEW junk,
         c.guard # "late" /\ Valid(p) /\ DrawsTag(c, Head(p.chunks)) => fresh \in Tags
  PROVE  Receive(c, p, fresh, junk) \in Sound
<1>1. Close(c) \in Sound
  BY Closed
<1>2. CASE c.guard # "late" /\ Valid(p)
  <2>1. Handle(c, p, fresh, junk) \in Sound
    BY <1>2, Handled
  <2> QED
    BY <1>2, <2>1 DEF Receive
<1>3. CASE ~(c.guard # "late" /\ Valid(p))
  BY <1>1, <1>3 DEF Receive
<1> QED
  BY <1>2, <1>3
-----------------------------------------------------------------------------
\* What is sent.

\* The least of some numbers is one of them.
LEMMA MinIn == ASSUME NEW S \in SUBSET Nat, S # {} PROVE Min(S) \in S
<1>1. PICK x \in S : \A y \in S : ~(<<y, x>> \in Less)
  BY LessIsWellFounded, WFMin
<1>2. \A y \in S : ~(y < x)
  BY <1>1 DEF Less
<1>3. \A y \in S : x <= y
  BY <1>2
<1> QED
  BY <1>3 DEF Min

\* The INIT and COOKIE_ECHO that getDataToSend repeats, and when it gives up.
LEMMA Repeated == ASSUME NEW c \in Sound, NEW late PROVE Repeat(c, late) \in Sound
<1>1. SendInit(c) \in Sound /\ Close(SendInit(c)) \in Sound
  BY InitSent, Closed
<1>2. SendShutdownOrClose(c, "SHUTDOWN_ACK", c.state) \in Sound
  <2>1. c.state \in States
    BY DEF Sound, Objects
  <2> QED
    BY <2>1, ShutdownSentOrClosed DEF HeaderOnly
<1> QED
  BY <1>1, <1>2 DEF Repeat

\* An INIT_ACK leaves the queue for a packet of its own.
LEMMA LoneTaken ==
  ASSUME NEW c \in Sound, NEW i \in Lone(c.outQueue)
  PROVE  WithoutLone(c, i) \in Sound /\ LonePacket(c, i) \in InFlight
<1> DEFINE q == c.outQueue
<1>1. q \in Seq(Chunks) /\ i \in 1..Len(q) /\ q[i].type = "INIT_ACK" /\ q[i] \in Chunks
  BY DEF Lone, Sound, Objects
<1>2. q[i].cookie \in Cookies
  BY <1>1, ChunkParts
<1>3. LonePacket(c, i) \in InFlight
  <2>1. q[i].cookie.peerTag \in Tags
    BY <1>2 DEF Cookies
  <2>2. <<q[i]>> \in Seq(Chunks) \ {<<>>}
    BY <1>1
  <2> QED
    BY <2>1, <2>2 DEF LonePacket, InFlight
<1>4. SubSeq(q, i + 1, Len(q)) \o SubSeq(q, 1, i - 1) \in Seq(Chunks)
  <2> HIDE DEF q
  <2>1. SubSeq(q, i + 1, Len(q)) \in Seq(Chunks) /\ SubSeq(q, 1, i - 1) \in Seq(Chunks)
    BY <1>1
  <2> QED
    BY <2>1
<1>5. WithoutLone(c, i) \in Sound
  BY <1>4 DEF WithoutLone, Sound, Objects
<1> QED
  BY <1>3, <1>5

\* What getDataToSend puts in a packet, and the shutdown it advances.
LEMMA Filled ==
  ASSUME NEW c \in Sound, NEW timedOut \in BOOLEAN, NEW beat \in BOOLEAN
  PROVE  Fill(c, timedOut, beat)[1] \in Sound /\ Fill(c, timedOut, beat)[2] \in Seq(Chunks)
<1> DEFINE data == DataOf(c, timedOut)
           chunks == c.outQueue \o data
           emptied == [c EXCEPT !.outQueue = <<>>]
           filled == AddData(c, timedOut)
           next == IF chunks = <<>> THEN AdvanceShutdown(filled) ELSE filled
           heart == chunks = <<>> /\ beat /\ next.state = "ESTABLISHED"
<1>1. chunks \in Seq(Chunks)
  <2>1. c.outQueue \in Seq(Chunks) /\ c.unsent \in Nat
    BY DEF Sound, Objects
  <2>2. Chunk("DATA") \in Chunks
    BY ChunkKinds
  <2>3. data \in Seq(Chunks)
    BY <2>1, <2>2 DEF DataOf
  <2> HIDE DEF data
  <2> QED
    BY <2>1, <2>3
<1> HIDE DEF chunks, data
<1>2. filled \in Sound
  <2>1. emptied \in Sound
    <3>1. <<>> \in Seq(Chunks)
      OBVIOUS
    <3> QED
      BY <3>1 DEF Sound, Objects
  <2> HIDE DEF emptied
  <2>2. Close(emptied) \in Sound /\ [emptied EXCEPT !.unsent = 0] \in Sound
    <3>1. [emptied EXCEPT !.unsent = 0] \in Sound
      BY <2>1 DEF Sound, Objects
    <3> QED
      BY <2>1, <3>1, Closed
  <2>3. filled = IF c.state = "SHUTDOWN_ACK_SENT" THEN emptied
                 ELSE IF timedOut THEN Close(emptied) ELSE [emptied EXCEPT !.unsent = 0]
    BY DEF AddData, emptied
  <2> HIDE DEF filled
  <2> QED
    BY <2>1, <2>2, <2>3
<1> HIDE DEF filled
<1>3. next \in Sound
  <2>1. /\ filled.state = "SHUTDOWN_RECEIVED" => SendShutdownOrClose(filled, "SHUTDOWN_ACK", "SHUTDOWN_ACK_SENT") \in Sound
        /\ filled.state = "SHUTDOWN_PENDING" => SendShutdownOrClose(filled, "SHUTDOWN", "SHUTDOWN_SENT") \in Sound
    BY <1>2, ShutdownSentOrClosed DEF HeaderOnly, States, Up
  <2>2. AdvanceShutdown(filled) \in Sound
    BY <1>2, <2>1 DEF AdvanceShutdown
  <2> QED
    BY <1>2, <2>2
<1> HIDE DEF next
<1>4. <<Chunk("HEARTBEAT")>> \in Seq(Chunks)
  <2>1. Chunk("HEARTBEAT") \in Chunks
    BY ChunkKinds DEF HeaderOnly
  <2> QED
    BY <2>1
<1>5. Fill(c, timedOut, beat) = <<next, IF heart THEN <<Chunk("HEARTBEAT")>> ELSE chunks>>
  BY DEF Fill, next, filled, chunks, data
<1> QED
  BY <1>1, <1>3, <1>4, <1>5
-----------------------------------------------------------------------------
\* The steps.

UCInv ==
  /\ conn \in [Peers -> Sound]
  /\ net \in [Peers -> Seq(InFlight)]
  /\ lastTag \in Tags /\ calls \in 0..MaxCalls

\* There are two ends.
LEMMA OtherIsPeer == ASSUME NEW e \in Peers PROVE Other(e) \in Peers /\ Other(e) # e
<1>1. \E f \in Peers : f # e
  BY ConnectionAssumption
<1> QED
  BY <1>1 DEF Other

\* A fresh object.
LEMMA New == ASSUME NEW t \in Tags PROVE NewConnection(t) \in Sound
<1>1. 0 \in Tags /\ 0 \in Counts /\ <<>> \in Seq(Chunks)
  BY ConnectionAssumption DEF Tags, Counts
<1> QED
  BY <1>1 DEF NewConnection, Sound, Objects, States, Up, Timers, Guards

\* An object replaced by a sound one.
LEMMA Became ==
  ASSUME UCInv, NEW e \in Peers, NEW c \in Sound, Become(e, c)
  PROVE  conn' \in [Peers -> Sound]
  BY DEF UCInv, Become

\* A packet that is sent is in flight, if there is room.
LEMMA Transmitted ==
  ASSUME UCInv, NEW e \in Peers, NEW tag \in Tags, NEW chunks \in Seq(Chunks), Transmit(e, tag, chunks)
  PROVE  net' \in [Peers -> Seq(InFlight)]
<1> DEFINE p == [tag |-> tag, chunks |-> chunks]
<1>1. Other(e) \in Peers
  BY OtherIsPeer
<1>2. CASE chunks = <<>> \/ Len(net[Other(e)]) = MaxInFlight
  BY <1>2 DEF Transmit, UCInv
<1>3. CASE ~(chunks = <<>> \/ Len(net[Other(e)]) = MaxInFlight)
  <2>1. p \in InFlight
    BY <1>3 DEF InFlight
  <2>2. net' = [net EXCEPT ![Other(e)] = Append(@, p)]
    BY <1>3 DEF Transmit
  <2> HIDE DEF p
  <2>3. Append(net[Other(e)], p) \in Seq(InFlight)
    BY <1>1, <2>1 DEF UCInv
  <2> QED
    BY <2>2, <2>3 DEF UCInv
<1> QED
  BY <1>2, <1>3

\* getDataToSend.
LEMMA FlushKeeps ==
  ASSUME UCInv, NEW e \in Peers, NEW late, NEW timedOut \in BOOLEAN, NEW beat \in BOOLEAN,
         FlushWith(e, late, timedOut, beat)
  PROVE  conn' \in [Peers -> Sound] /\ net' \in [Peers -> Seq(InFlight)]
<1> DEFINE c == Repeat(conn[e], late)
           lone == Lone(c.outQueue)
<1>1. conn[e] \in Sound
  BY DEF UCInv
<1>2. CASE conn[e].guard = "late"
  <2>1. Become(e, Close(conn[e])) /\ UNCHANGED net
    BY <1>2 DEF FlushWith
  <2>2. Close(conn[e]) \in Sound
    BY <1>1, Closed
  <2> QED
    BY <2>1, <2>2, Became DEF UCInv
<1>3. c \in Sound
  BY <1>1, Repeated
<1> HIDE DEF c
<1>4. CASE conn[e].guard # "late" /\ lone # {}
  <2> DEFINE i == Min(lone)
  <2>1. i \in lone
    <3>1. c.outQueue \in Seq(Chunks)
      BY <1>3 DEF Sound, Objects
    <3>2. lone \in SUBSET Nat
      BY <3>1 DEF Lone
    <3> HIDE DEF lone
    <3> QED
      BY <1>4, <3>2, MinIn
  <2>2. Become(e, WithoutLone(c, i)) /\ Transmit(e, LonePacket(c, i).tag, LonePacket(c, i).chunks)
    BY <1>4 DEF FlushWith, c
  <2> HIDE DEF i
  <2>3. WithoutLone(c, i) \in Sound /\ LonePacket(c, i) \in InFlight
    BY <1>3, <2>1, LoneTaken
  <2>4. LonePacket(c, i).tag \in Tags /\ LonePacket(c, i).chunks \in Seq(Chunks)
    BY <2>3 DEF InFlight
  <2> QED
    BY <2>2, <2>3, <2>4, Became, Transmitted
<1>5. CASE conn[e].guard # "late" /\ lone = {}
  <2> DEFINE f == Fill(c, timedOut, beat)
  <2>1. Become(e, f[1]) /\ Transmit(e, conn[e].peerTag, f[2])
    BY <1>5 DEF FlushWith, c
  <2>2. f[1] \in Sound /\ f[2] \in Seq(Chunks)
    BY <1>3, Filled
  <2> HIDE DEF f
  <2>3. conn[e].peerTag \in Tags
    BY <1>1 DEF Sound, Objects
  <2> QED
    BY <2>1, <2>2, <2>3, Became, Transmitted
<1> QED
  BY <1>2, <1>4, <1>5

\* The steps, action by action.
LEMMA UCInvStep == ASSUME UCInv, [UCNext]_ucVars PROVE UCInv'
<1>1. ASSUME NEW e \in Peers, Ordinary(e) \/ Beat(e) \/ Faults(e) PROVE UCInv'
  <2>1. conn[e] \in Sound /\ Other(e) \in Peers
    BY OtherIsPeer DEF UCInv
  <2>2. Call => calls' \in 0..MaxCalls
    BY ConnectionAssumption DEF Call, UCInv
  <2>3. CASE Connect(e)
    <3>1. PICK c : Become(e, c) /\ c = IF MaySendInit(conn[e]) THEN [SendInit(conn[e]) EXCEPT !.state = "COOKIE_WAIT"]
                                       ELSE SendInit(conn[e])
      BY <2>3 DEF Connect
    <3> DEFINE d == SendInit(conn[e])
    <3>2. d \in Sound /\ d.state = "CLOSED"
      BY <2>1, <2>3, InitSent DEF Connect
    <3> HIDE DEF d
    <3>3. [d EXCEPT !.state = "COOKIE_WAIT"] \in Sound
      BY <3>2 DEF Sound, Objects, States, Opening, Up
    <3>4. c \in Sound
      BY <3>1, <3>2, <3>3 DEF d
    <3> QED
      BY <2>2, <2>3, <3>1, <3>4, Became DEF Connect, UCInv
  <2>4. CASE Disconnect(e)
    <3>1. Close(conn[e]) \in Sound
      BY <2>1, Closed
    <3>2. conn[e].state = "ESTABLISHED" => StartShutdown(conn[e]) \in Sound
      BY <2>1 DEF StartShutdown, Sound, Objects, States, Up, Guards, Timers
    <3>3. conn' \in [Peers -> Sound]
      BY <2>4, <3>1, <3>2, Became DEF Disconnect
    <3> QED
      BY <2>2, <2>4, <3>3 DEF Disconnect, UCInv
  <2>5. CASE CloseByStore(e)
    <3>1. conn' \in [Peers -> Sound]
      BY <2>1, <2>5, Closed, Became DEF CloseByStore
    <3> QED
      BY <2>2, <2>5, <3>1 DEF CloseByStore, UCInv
  <2>6. CASE SendMessage(e)
    <3>1. [conn[e] EXCEPT !.unsent = 1] \in Sound
      BY <2>1 DEF Sound, Objects
    <3>2. conn' \in [Peers -> Sound]
      BY <2>6, <3>1, Became DEF SendMessage
    <3> QED
      BY <2>6, <3>2 DEF SendMessage, UCInv
  <2>7. CASE ReceivePacket(e)
    <3> DEFINE p == Head(net[e])
               draws == conn[e].guard # "late" /\ Valid(p) /\ DrawsTag(conn[e], Head(p.chunks))
    <3>1. p \in InFlight /\ Tail(net[e]) \in Seq(InFlight)
      BY <2>7 DEF ReceivePacket, UCInv
    <3>2. PICK junk \in BOOLEAN : Become(e, Receive(conn[e], p, lastTag + 1, junk))
      BY <2>7 DEF ReceivePacket
    <3>3. /\ draws => lastTag < MaxTag
          /\ lastTag' = IF draws THEN lastTag + 1 ELSE lastTag
          /\ net' = [net EXCEPT ![e] = Tail(@)] /\ UNCHANGED calls
      BY <2>7 DEF ReceivePacket
    <3>4. (draws => lastTag + 1 \in Tags) /\ lastTag' \in Tags
      <4> HIDE DEF draws
      <4> QED
        BY <3>3, ConnectionAssumption DEF UCInv, Tags
    <3>5. Receive(conn[e], p, lastTag + 1, junk) \in Sound
      <4> HIDE DEF p
      <4> QED
        BY <2>1, <3>1, <3>4, Received
    <3>6. conn' \in [Peers -> Sound]
      BY <3>2, <3>5, Became
    <3> HIDE DEF p, draws
    <3> QED
      BY <3>1, <3>3, <3>4, <3>6 DEF UCInv
  <2>8. CASE Flush(e) \/ Resend(e) \/ Beat(e) \/ Silence(e)
    <3>1. UNCHANGED <<lastTag, calls>>
      BY <2>8 DEF Flush, Resend, Beat, Silence
    <3>2. conn' \in [Peers -> Sound] /\ net' \in [Peers -> Seq(InFlight)]
      BY <2>8, FlushKeeps DEF Flush, Resend, Beat, Silence
    <3> QED
      BY <3>1, <3>2 DEF UCInv
  <2>9. CASE GuardLate(e)
    <3>1. [conn[e] EXCEPT !.guard = "late"] \in Sound
      BY <2>1 DEF Sound, Objects, Guards
    <3>2. conn' \in [Peers -> Sound]
      BY <2>9, <3>1, Became DEF GuardLate
    <3> QED
      BY <2>9, <3>2 DEF GuardLate, UCInv
  <2>10. CASE Lose(e)
    <3>1. Tail(net[e]) \in Seq(InFlight)
      BY <2>10 DEF Lose, UCInv
    <3> QED
      BY <2>10, <3>1 DEF Lose, UCInv
  <2>11. CASE Replace(e)
    <3>1. lastTag + 1 \in Tags
      BY <2>11, ConnectionAssumption DEF Replace, UCInv, Tags
    <3>2. conn' \in [Peers -> Sound]
      BY <2>11, <3>1, New, Became DEF Replace
    <3> QED
      BY <2>2, <2>11, <3>1, <3>2 DEF Replace, UCInv
  <2> QED
    BY <1>1, <2>3, <2>4, <2>5, <2>6, <2>7, <2>8, <2>9, <2>10, <2>11 DEF Ordinary, Faults
<1>2. CASE UNCHANGED ucVars
  BY <1>2 DEF ucVars, UCInv
<1> QED
  BY <1>1, <1>2 DEF UCNext

\* Both objects are new, and nothing is on its way.
LEMMA UCInvStarts == ASSUME UCInit PROVE UCInv
<1>1. \A t \in 1..2 : t \in Tags
  BY ConnectionAssumption DEF Tags
<1>2. \A t \in 1..2 : NewConnection(t) \in Sound
  BY <1>1, New
<1>3. conn \in [Peers -> Sound]
  <2>1. conn \in [Peers -> {NewConnection(t) : t \in 1..2}]
    BY DEF UCInit
  <2> QED
    BY <1>2, <2>1
<1>4. net \in [Peers -> Seq(InFlight)]
  <2>1. <<>> \in Seq(InFlight)
    OBVIOUS
  <2> QED
    BY <2>1 DEF UCInit
<1> QED
  BY <1>3, <1>4, ConnectionAssumption DEF UCInit, UCInv, Tags

\* The invariant: each object is one the listeners of which know its state, and
\* each packet on its way is made of chunks.
THEOREM UCInvHolds == UCSpec => []UCInv
<1> QED
  BY UCInvStarts, UCInvStep, PTL DEF UCSpec

\* The elements of a sequence.
LEMMA RangeIn == ASSUME NEW V, NEW s \in Seq(V) PROVE Range(s) \subseteq V
  BY DEF Range

\* UCTypeOK: every field of an object keeps its type, no resend counter leaves
\* its byte, and no packet on its way is empty.
THEOREM UCTypesHold == UCSpec => []UCTypeOK
<1>1. UCInv => UCTypeOK
  <2> SUFFICES ASSUME UCInv PROVE UCTypeOK
    OBVIOUS
  <2>1. ASSUME NEW e \in Peers
        PROVE  /\ conn[e].state \in States
               /\ conn[e].localTag \in Tags /\ conn[e].peerTag \in Tags
               /\ {conn[e].initResends, conn[e].cookieResends, conn[e].shutdownResends} \subseteq 0 .. CounterRange - 1
               /\ {conn[e].initTimer, conn[e].shutdownTimer} \subseteq Timers
               /\ conn[e].guard \in Guards
               /\ conn[e].unsent \in 0 .. 1
               /\ conn[e].outQueue \in Seq(Chunks)
    <3>1. conn[e] \in Sound
      BY DEF UCInv
    <3> QED
      BY <3>1 DEF Sound, Objects, Counts
  <2>2. ASSUME NEW e \in Peers, NEW p \in Range(net[e])
        PROVE  p.tag \in Tags /\ p.chunks # <<>> /\ Range(p.chunks) \subseteq Chunks
    <3>1. net[e] \in Seq(InFlight)
      BY DEF UCInv
    <3>2. p \in InFlight
      BY <3>1, RangeIn
    <3>3. p.tag \in Tags /\ p.chunks # <<>> /\ p.chunks \in Seq(Chunks)
      BY <3>2 DEF InFlight
    <3> QED
      BY <3>3, RangeIn
  <2>3. \A e \in Peers : Range(conn[e].outQueue) \subseteq Chunks
    BY <2>1, RangeIn
  <2> QED
    BY <2>1, <2>2, <2>3 DEF UCTypeOK, UCInv
<1> QED
  BY <1>1, UCInvHolds, PTL

\* ListenersKnow: what the listeners were told last is what the connection is,
\* after every handler, timer and call.
THEOREM ListenersKnowHolds == UCSpec => []ListenersKnow
<1>1. UCInv => ListenersKnow
  BY DEF UCInv, ListenersKnow, Sound
<1> QED
  BY <1>1, UCInvHolds, PTL

\* ShutdownGuarded: in every state of a shutdown the guard runs or has run out,
\* whatever of the peer's answers came, in whatever order.
THEOREM ShutdownGuardedHolds == UCSpec => []ShutdownGuarded
<1>1. UCInv => ShutdownGuarded
  BY DEF UCInv, ShutdownGuarded, Sound
<1> QED
  BY <1>1, UCInvHolds, PTL
-----------------------------------------------------------------------------
(***************************************************************************)
(* The agreement of the two ends.  While no tag is drawn each end keeps    *)
(* the one it began with, so what an end may hold and may say is fixed by  *)
(* its own tag and the other one's: what it puts in its queue names these  *)
(* two (Ours), and it takes no other tag for its peer's (Matches).         *)
(***************************************************************************)
Ours(mine, theirs) ==
  {ch \in Chunks :
     /\ ch.type = "INIT" => ch.initTag = mine
     /\ ch.type = "INIT_ACK" => ch.cookie.localTag = mine /\ ch.cookie.peerTag = theirs
     /\ ch.type = "COOKIE_ECHO" => ch.cookie.localTag = theirs /\ ch.cookie.peerTag = mine}

Taken == Up \cup {"COOKIE_ECHOED"}

Matches(mine, theirs) ==
  {c \in Sound :
     /\ c.localTag = mine /\ c.peerTag \in {0, theirs}
     /\ c.state \in Taken => c.peerTag = theirs
     /\ c.outQueue \in Seq(Ours(mine, theirs))}

\* A chunk without tags is anybody's.
LEMMA PlainChunks ==
  ASSUME NEW mine, NEW theirs, NEW t \in HeaderOnly \cup {"DATA"}
  PROVE  Chunk(t) \in Ours(mine, theirs)
<1>1. Chunk(t) \in Chunks
  BY ChunkKinds
<1>2. Chunk(t).type = t /\ t \notin {"INIT", "INIT_ACK", "COOKIE_ECHO"}
  BY DEF Chunk, HeaderOnly
<1> QED
  BY <1>1, <1>2 DEF Ours

\* An object that keeps its tag and its queue matches on, if it takes no tag
\* but the other end's and has taken it where it has to.
LEMMA StillMatches ==
  ASSUME NEW mine, NEW theirs, NEW c \in Matches(mine, theirs), NEW d \in Sound,
         d.localTag = c.localTag, d.outQueue = c.outQueue, d.peerTag \in {c.peerTag, theirs},
         d.state \in Taken => d.peerTag = theirs \/ c.state \in Taken
  PROVE  d \in Matches(mine, theirs)
  BY DEF Matches

\* A chunk put in the queue.
LEMMA MatchEnqueued ==
  ASSUME NEW mine, NEW theirs, NEW c \in Matches(mine, theirs), NEW ch \in Ours(mine, theirs)
  PROVE  /\ Enqueue(c, ch) \in Matches(mine, theirs)
         /\ Enqueue(c, ch).state = c.state /\ Enqueue(c, ch).peerTag = c.peerTag
<1>1. c \in Sound /\ ch \in Chunks /\ c.outQueue \in Seq(Ours(mine, theirs))
  BY DEF Matches, Ours
<1>2. Enqueue(c, ch) \in Sound
  BY <1>1, Enqueued
<1>3. Append(c.outQueue, ch) \in Seq(Ours(mine, theirs))
  BY <1>1
<1>4. /\ Enqueue(c, ch).state = c.state /\ Enqueue(c, ch).peerTag = c.peerTag
      /\ Enqueue(c, ch).localTag = c.localTag /\ Enqueue(c, ch).outQueue = Append(c.outQueue, ch)
  BY <1>1 DEF Enqueue, Sound, Objects
<1> QED
  BY <1>2, <1>3, <1>4 DEF Matches

\* close.
LEMMA MatchClosed ==
  ASSUME NEW mine, NEW theirs, NEW c \in Matches(mine, theirs)
  PROVE  Close(c) \in Matches(mine, theirs)
<1>1. c \in Sound /\ Close(c) \in Sound /\ Close(c).state = "CLOSED"
  BY Closed DEF Matches
<1>2. Close(c).localTag = c.localTag /\ Close(c).outQueue = c.outQueue /\ Close(c).peerTag = c.peerTag
  BY <1>1 DEF Close, Sound, Objects
<1> QED
  BY <1>1, <1>2, StillMatches DEF Taken, Up

\* An end that has taken the other one's tag may enter.
LEMMA MatchEntered ==
  ASSUME NEW mine, NEW theirs, NEW c \in Matches(mine, theirs), c.peerTag = theirs
  PROVE  Enter(c) \in Matches(mine, theirs)
<1>1. c \in Sound /\ Enter(c) \in Sound
  BY Entered DEF Matches
<1>2. Enter(c).localTag = c.localTag /\ Enter(c).outQueue = c.outQueue /\ Enter(c).peerTag = c.peerTag
  BY <1>1 DEF Enter, Sound, Objects
<1> QED
  BY <1>1, <1>2, StillMatches

\* sendInit says the tag of its end.
LEMMA MatchInitSent ==
  ASSUME NEW mine, NEW theirs, NEW c \in Matches(mine, theirs)
  PROVE  SendInit(c) \in Matches(mine, theirs) /\ SendInit(c).state = c.state
<1> DEFINE counted == [c EXCEPT !.initResends = CountUp(@)]
           timed == [counted EXCEPT !.initTimer = "running"]
           init == [type |-> "INIT", initTag |-> c.localTag]
<1>0. c \in Sound /\ c.localTag = mine
  BY DEF Matches
<1>1. counted \in Sound /\ counted.state = c.state /\ counted.localTag = c.localTag /\ counted.peerTag = c.peerTag
      /\ counted.outQueue = c.outQueue
  <2>1. CountUp(c.initResends) \in Counts
    BY <1>0, CountedUp DEF Sound, Objects
  <2> QED
    BY <1>0, <2>1 DEF Sound, Objects
<1>2. timed \in Sound /\ timed.state = c.state /\ timed.localTag = c.localTag /\ timed.peerTag = c.peerTag
      /\ timed.outQueue = c.outQueue
  <2> HIDE DEF counted
  <2> QED
    BY <1>1 DEF Sound, Objects, Timers
<1>3. init \in Ours(mine, theirs)
  <2>1. init \in Chunks
    BY <1>0, ChunkKinds DEF Sound, Objects
  <2> QED
    BY <1>0, <2>1 DEF Ours
<1>4. SendInit(c) = IF MaySendInit(c) THEN Enqueue(timed, init) ELSE counted
  BY DEF SendInit
<1> HIDE DEF counted, timed, init
<1>5. counted \in Matches(mine, theirs) /\ timed \in Matches(mine, theirs)
  BY <1>1, <1>2, StillMatches
<1> QED
  BY <1>1, <1>2, <1>3, <1>4, <1>5, MatchEnqueued

\* sendShutdown and sendShutdownAck.
LEMMA MatchShutdownSent ==
  ASSUME NEW mine, NEW theirs, NEW c \in Matches(mine, theirs), NEW type \in HeaderOnly
  PROVE  /\ SendShutdown(c, type) \in Matches(mine, theirs)
         /\ SendShutdown(c, type).state = c.state
<1> DEFINE counted == [c EXCEPT !.shutdownResends = CountUp(@)]
           timed == [counted EXCEPT !.shutdownTimer = "running"]
<1>0. c \in Sound
  BY DEF Matches
<1>1. counted \in Sound /\ counted.state = c.state /\ counted.localTag = c.localTag /\ counted.peerTag = c.peerTag
      /\ counted.outQueue = c.outQueue
  <2>1. CountUp(c.shutdownResends) \in Counts
    BY <1>0, CountedUp DEF Sound, Objects
  <2> QED
    BY <1>0, <2>1 DEF Sound, Objects
<1>2. timed \in Sound /\ timed.state = c.state /\ timed.localTag = c.localTag /\ timed.peerTag = c.peerTag
      /\ timed.outQueue = c.outQueue
  <2> HIDE DEF counted
  <2> QED
    BY <1>1 DEF Sound, Objects, Timers
<1>3. SendShutdown(c, type) = IF MaySendShutdown(c) THEN Enqueue(timed, Chunk(type)) ELSE counted
  BY DEF SendShutdown
<1> HIDE DEF counted, timed
<1>4. counted \in Matches(mine, theirs) /\ timed \in Matches(mine, theirs)
  BY <1>1, <1>2, StillMatches
<1> QED
  BY <1>1, <1>2, <1>3, <1>4, PlainChunks, MatchEnqueued

\* The next state of a shutdown, or the end.
LEMMA MatchShutdownSentOrClosed ==
  ASSUME NEW mine, NEW theirs, NEW c \in Matches(mine, theirs), NEW type \in HeaderOnly, NEW state \in States,
         state = c.state \/ (c.state \in ShuttingDown /\ state \in Up)
  PROVE  SendShutdownOrClose(c, type, state) \in Matches(mine, theirs)
<1> DEFINE d == SendShutdown(c, type)
           s == [d EXCEPT !.state = state]
<1>1. d \in Matches(mine, theirs) /\ d.state = c.state
  BY MatchShutdownSent
<1>2. SendShutdownOrClose(c, type, state) = IF MaySendShutdown(c) THEN s ELSE Close(d)
  BY DEF SendShutdownOrClose
<1> HIDE DEF d
<1>3. d \in Sound
  BY <1>1 DEF Matches
<1>4. s \in Sound /\ s.state = state /\ s.localTag = d.localTag /\ s.peerTag = d.peerTag /\ s.outQueue = d.outQueue
  BY <1>1, <1>3 DEF Sound, Objects
<1> HIDE DEF s
<1>5. s \in Matches(mine, theirs)
  BY <1>1, <1>4, StillMatches DEF Taken
<1> QED
  BY <1>1, <1>2, <1>5, MatchClosed
-----------------------------------------------------------------------------
\* The handlers, given what the other end says.

\* handleInit answers with a cookie of the two tags, if it draws none.
LEMMA MatchInitHandled ==
  ASSUME NEW mine, NEW theirs, NEW c \in Matches(mine, theirs), NEW ch \in Ours(theirs, mine), ch.type = "INIT",
         NEW fresh, ~DrawsTag(c, ch)
  PROVE  HandleInit(c, ch, fresh) \in Matches(mine, theirs)
<1> DEFINE ties == c.state \in {"COOKIE_ECHOED", "SHUTDOWN_RECEIVED"}
           d == [c EXCEPT !.peerTag = IF c.state = "SHUTDOWN_ACK_SENT" THEN ch.initTag ELSE @]
           k == [localTag |-> IF DrawsTag(c, ch) THEN fresh ELSE c.localTag,
                 peerTag |-> ch.initTag,
                 localTieTag |-> IF ties THEN c.localTag ELSE 0,
                 peerTieTag |-> IF ties THEN c.peerTag ELSE 0]
           answer == [type |-> "INIT_ACK", cookie |-> k]
<1>0. c \in Sound /\ c.localTag = mine /\ ch \in Chunks /\ ch.initTag = theirs /\ theirs \in Tags /\ 0 \in Tags
  BY ChunkParts, ConnectionAssumption DEF Matches, Ours, Tags
<1>1. d \in Sound /\ d.localTag = c.localTag /\ d.outQueue = c.outQueue /\ d.peerTag \in {c.peerTag, theirs}
      /\ d.state = c.state
  BY <1>0 DEF Sound, Objects
<1>2. k \in Cookies /\ k.localTag = mine /\ k.peerTag = theirs
  BY <1>0 DEF Cookies, Sound, Objects
<1>3. HandleInit(c, ch, fresh) = c \/ HandleInit(c, ch, fresh) = Enqueue(d, answer)
  BY DEF HandleInit
<1> HIDE DEF d, k
<1>4. answer \in Ours(mine, theirs)
  <2>1. answer \in Chunks
    BY <1>2, ChunkKinds
  <2> QED
    BY <1>2, <2>1 DEF Ours
<1> HIDE DEF answer
<1>5. d \in Matches(mine, theirs)
  BY <1>1, StillMatches
<1> QED
  BY <1>3, <1>4, <1>5, MatchEnqueued

\* handleInitAck takes the other end's tag and echoes a cookie of the two.
LEMMA MatchInitAckHandled ==
  ASSUME NEW mine, NEW theirs, NEW c \in Matches(mine, theirs), NEW ch \in Ours(theirs, mine), ch.type = "INIT_ACK",
         NEW vtag
  PROVE  HandleInitAck(c, ch, vtag) \in Matches(mine, theirs)
<1> DEFINE tagged == TakePeerTag(c, ch)
           counted == [tagged EXCEPT !.cookieResends = CountUp(@)]
           echoed == [counted EXCEPT !.initTimer = "off", !.state = "COOKIE_ECHOED"]
           echo == [type |-> "COOKIE_ECHO", cookie |-> ch.cookie]
<1>0. c \in Sound /\ ch \in Chunks /\ ch.cookie \in Cookies /\ ch.cookie.localTag = theirs /\ ch.cookie.peerTag = mine
      /\ theirs \in Tags
  BY ChunkParts DEF Matches, Ours, Cookies
<1>1. tagged \in Sound /\ tagged.state = c.state /\ tagged.localTag = c.localTag /\ tagged.outQueue = c.outQueue
      /\ tagged.peerTag = theirs
  BY <1>0 DEF TakePeerTag, Sound, Objects
<1>2. HandleInitAck(c, ch, vtag) = IF c.state # "COOKIE_WAIT" \/ vtag # c.localTag THEN c
                                   ELSE IF ch.cookie.localTag = 0 THEN tagged
                                   ELSE IF c.cookieResends >= MaxInits THEN counted ELSE Enqueue(echoed, echo)
  BY DEF HandleInitAck
<1> HIDE DEF tagged
<1>3. counted \in Sound /\ counted.state = c.state /\ counted.localTag = c.localTag /\ counted.outQueue = c.outQueue
      /\ counted.peerTag = theirs
  <2>1. CountUp(tagged.cookieResends) \in Counts
    BY <1>1, CountedUp DEF Sound, Objects
  <2> QED
    BY <1>1, <2>1 DEF Sound, Objects
<1> HIDE DEF counted
<1>4. c.state = "COOKIE_WAIT" =>
        echoed \in Sound /\ echoed.localTag = c.localTag /\ echoed.outQueue = c.outQueue /\ echoed.peerTag = theirs
  BY <1>3 DEF Sound, Objects, Timers, States, Opening, Up
<1> HIDE DEF echoed
<1>5. echo \in Ours(mine, theirs)
  <2>1. echo \in Chunks
    BY <1>0, ChunkKinds
  <2> QED
    BY <1>0, <2>1 DEF Ours
<1> HIDE DEF echo
<1>6. tagged \in Matches(mine, theirs) /\ counted \in Matches(mine, theirs)
  BY <1>1, <1>3, StillMatches
<1>7. c.state = "COOKIE_WAIT" => Enqueue(echoed, echo) \in Matches(mine, theirs)
  BY <1>4, <1>5, StillMatches, MatchEnqueued
<1> QED
  BY <1>2, <1>6, <1>7

\* sendCookieAck.
LEMMA MatchCookieAckSent ==
  ASSUME NEW mine, NEW theirs, NEW c \in Matches(mine, theirs)
  PROVE  SendCookieAck(c) \in Matches(mine, theirs)
  BY PlainChunks, MatchEnqueued DEF SendCookieAck, HeaderOnly

\* handleCookieEcho: the cookie has the two tags, so nobody looks restarted.
LEMMA MatchCookieEchoHandled ==
  ASSUME NEW mine, NEW theirs, NEW c \in Matches(mine, theirs), NEW k \in Cookies,
         k.localTag = mine, k.peerTag = theirs
  PROVE  HandleCookieEcho(c, k) \in Matches(mine, theirs)
<1>0. c \in Sound /\ c.localTag = mine /\ HandleCookieEcho(c, k) \in Sound /\ ~PeerRestarted(c, k) /\ theirs \in Tags
  BY CookieEchoHandled DEF Matches, PeerRestarted, Cookies
<1>1. CASE c.state = "CLOSED"
  <2> DEFINE d == [c EXCEPT !.localTag = k.localTag, !.peerTag = k.peerTag, !.state = "ESTABLISHED"]
             f == [SendCookieAck(d) EXCEPT !.told = "connected"]
  <2>1. HandleCookieEcho(c, k) = f
    BY <1>1 DEF HandleCookieEcho
  <2>2. f.localTag = mine /\ f.peerTag = theirs /\ f.outQueue = Append(c.outQueue, Chunk("COOKIE_ACK"))
    BY <1>0 DEF SendCookieAck, Enqueue, Sound, Objects
  <2> HIDE DEF f
  <2>3. Append(c.outQueue, Chunk("COOKIE_ACK")) \in Seq(Ours(mine, theirs))
    <3>1. Chunk("COOKIE_ACK") \in Ours(mine, theirs)
      BY PlainChunks DEF HeaderOnly
    <3>2. c.outQueue \in Seq(Ours(mine, theirs))
      BY DEF Matches
    <3> QED
      BY <3>1, <3>2
  <2> QED
    BY <1>0, <2>1, <2>2, <2>3 DEF Matches
<1>2. CASE c.state # "CLOSED" /\ BothStarted(c, k)
  <2> DEFINE d == Enter(c)
             t == [d EXCEPT !.peerTag = k.peerTag, !.initTimer = "off"]
  <2>1. HandleCookieEcho(c, k) = SendCookieAck(t)
    BY <1>0, <1>2 DEF HandleCookieEcho, SameConnection
  <2>2. d \in Sound /\ d.localTag = c.localTag /\ d.outQueue = c.outQueue
    BY <1>0, Entered DEF Enter, Sound, Objects
  <2> HIDE DEF d
  <2>3. t \in Sound /\ t.localTag = c.localTag /\ t.outQueue = c.outQueue /\ t.peerTag = theirs
    BY <1>0, <2>2 DEF Sound, Objects, Timers
  <2> HIDE DEF t
  <2>4. t \in Matches(mine, theirs)
    BY <2>3, StillMatches
  <2> QED
    BY <2>1, <2>4, MatchCookieAckSent
<1>3. CASE c.state # "CLOSED" /\ ~BothStarted(c, k) /\ SameConnection(c, k)
  <2> DEFINE d == Enter(c)
             t == [d EXCEPT !.initTimer = "off"]
  <2>1. HandleCookieEcho(c, k) = SendCookieAck(t)
    BY <1>0, <1>3 DEF HandleCookieEcho
  <2>2. d \in Matches(mine, theirs)
    BY <1>3, MatchEntered DEF SameConnection
  <2> HIDE DEF d
  <2>3. t \in Sound /\ t.localTag = d.localTag /\ t.outQueue = d.outQueue /\ t.peerTag = d.peerTag /\ t.state = d.state
    BY <2>2 DEF Matches, Sound, Objects, Timers
  <2> HIDE DEF t
  <2>4. t \in Matches(mine, theirs)
    BY <2>2, <2>3, StillMatches
  <2> QED
    BY <2>1, <2>4, MatchCookieAckSent
<1>4. CASE c.state # "CLOSED" /\ ~BothStarted(c, k) /\ ~SameConnection(c, k)
  BY <1>0, <1>4 DEF HandleCookieEcho
<1> QED
  BY <1>1, <1>2, <1>3, <1>4

\* The packets an end has been sent, made of what the other one says.
Heard(mine, theirs) == [tag : Tags, chunks : Seq(Ours(theirs, mine)) \ {<<>>}]

\* The first chunk of a packet.
LEMMA MatchFirstHandled ==
  ASSUME NEW mine, NEW theirs, NEW c \in Matches(mine, theirs), NEW p \in Heard(mine, theirs),
         NEW fresh, ~DrawsTag(c, Head(p.chunks))
  PROVE  HandleFirst(c, p, fresh) \in Matches(mine, theirs)
<1> DEFINE ch == Head(p.chunks)
<1>1. ch \in Ours(theirs, mine) /\ ch \in Chunks
  <2>1. ch \in Ours(theirs, mine)
    BY DEF Heard
  <2> QED
    BY <2>1 DEF Ours
<1> HIDE DEF ch
<1>2. CASE ch.type = "INIT"
  <2>1. HandleInit(c, ch, fresh) \in Matches(mine, theirs)
    BY <1>1, <1>2, MatchInitHandled DEF ch
  <2> QED
    BY <1>2, <2>1 DEF HandleFirst, ch
<1>3. CASE ch.type = "INIT_ACK"
  <2>1. HandleInitAck(c, ch, p.tag) \in Matches(mine, theirs)
    BY <1>1, <1>3, MatchInitAckHandled
  <2> QED
    BY <1>3, <2>1 DEF HandleFirst, ch
<1>4. CASE ch.type = "COOKIE_ECHO"
  <2>1. ch.cookie \in Cookies /\ ch.cookie.localTag = mine /\ ch.cookie.peerTag = theirs
    BY <1>1, <1>4, ChunkParts DEF Ours
  <2>2. HandleCookieEcho(c, ch.cookie) \in Matches(mine, theirs)
    BY <2>1, MatchCookieEchoHandled
  <2> QED
    BY <1>4, <2>2 DEF HandleFirst, ch
<1>5. CASE ch.type = "COOKIE_ACK"
  <2>1. c.state = "COOKIE_ECHOED" => c.peerTag = theirs
    BY DEF Matches, Taken
  <2>2. HandleCookieAck(c, p.tag) \in Matches(mine, theirs)
    BY <2>1, MatchEntered DEF HandleCookieAck
  <2> QED
    BY <1>5, <2>2 DEF HandleFirst, ch
<1>6. CASE ch.type \notin {"INIT", "INIT_ACK", "COOKIE_ECHO", "COOKIE_ACK"}
  BY <1>6 DEF HandleFirst, ch
<1> QED
  BY <1>2, <1>3, <1>4, <1>5, <1>6

\* The end of a shutdown.
LEMMA MatchStopped ==
  ASSUME NEW mine, NEW theirs, NEW c \in Matches(mine, theirs)
  PROVE  Stopped(c) \in Matches(mine, theirs)
<1> DEFINE d == Close(c)
           s == [d EXCEPT !.shutdownTimer = "off"]
<1>1. d \in Matches(mine, theirs) /\ Stopped(c) = s
  BY MatchClosed DEF Stopped
<1> HIDE DEF d
<1>2. s \in Sound /\ s.localTag = d.localTag /\ s.outQueue = d.outQueue /\ s.peerTag = d.peerTag /\ s.state = d.state
  BY <1>1 DEF Matches, Sound, Objects, Timers
<1> HIDE DEF s
<1> QED
  BY <1>1, <1>2, StillMatches

\* Starting the guard.
LEMMA MatchGuarded ==
  ASSUME NEW mine, NEW theirs, NEW c \in Matches(mine, theirs)
  PROVE  [c EXCEPT !.guard = "running"] \in Matches(mine, theirs)
<1> DEFINE s == [c EXCEPT !.guard = "running"]
<1>1. s \in Sound /\ s.localTag = c.localTag /\ s.outQueue = c.outQueue /\ s.peerTag = c.peerTag /\ s.state = c.state
  BY DEF Matches, Sound, Objects, Timers, Guards
<1> HIDE DEF s
<1>2. s \in Matches(mine, theirs)
  BY <1>1, StillMatches
<1> QED
  BY <1>2 DEF s

\* handleShutdown.
LEMMA MatchShutdownHandled ==
  ASSUME NEW mine, NEW theirs, NEW c \in Matches(mine, theirs), NEW junk
  PROVE  HandleShutdown(c, junk) \in Matches(mine, theirs)
<1> DEFINE received == [c EXCEPT !.state = "SHUTDOWN_RECEIVED"]
           answered == SendShutdown(received, "SHUTDOWN_ACK")
<1>1. c.state \in ShuttingDown => received \in Matches(mine, theirs)
  <2> SUFFICES ASSUME c.state \in ShuttingDown PROVE received \in Matches(mine, theirs)
    OBVIOUS
  <2>1. received \in Sound /\ received.localTag = c.localTag /\ received.outQueue = c.outQueue
        /\ received.peerTag = c.peerTag
    BY DEF Matches, Sound, Objects, States, Up
  <2> HIDE DEF received
  <2> QED
    BY <2>1, StillMatches DEF Taken
<1>0. c.state = "ESTABLISHED" => [received EXCEPT !.guard = "running"] \in Matches(mine, theirs)
  <2> SUFFICES ASSUME c.state = "ESTABLISHED"
               PROVE  [received EXCEPT !.guard = "running"] \in Matches(mine, theirs)
    OBVIOUS
  <2> DEFINE s == [received EXCEPT !.guard = "running"]
  <2>1. s \in Sound /\ s.localTag = c.localTag /\ s.outQueue = c.outQueue /\ s.peerTag = c.peerTag
    BY DEF Matches, Sound, Objects, States, Up, Guards, Timers
  <2>0. c.state \in Taken
    BY DEF Taken, Up
  <2> HIDE DEF s
  <2>2. s \in Matches(mine, theirs)
    BY <2>0, <2>1, StillMatches
  <2> QED
    BY <2>2 DEF s
<1> HIDE DEF received
<1>2. c.state \in ShuttingDown => answered \in Matches(mine, theirs)
  BY <1>1, MatchShutdownSent DEF HeaderOnly
<1> HIDE DEF answered
<1>3. CASE c.state = "SHUTDOWN_SENT"
  <2>1. HandleShutdown(c, junk) = IF MaySendShutdown(c) THEN [answered EXCEPT !.guard = "running"] ELSE answered
    BY <1>3 DEF HandleShutdown, received, answered
  <2>2. answered \in Matches(mine, theirs) /\ [answered EXCEPT !.guard = "running"] \in Matches(mine, theirs)
    BY <1>2, <1>3, MatchGuarded DEF Up
  <2> QED
    BY <2>1, <2>2
<1>4. CASE c.state = "ESTABLISHED"
  <2>1. HandleShutdown(c, junk) = [received EXCEPT !.guard = "running"]
    BY <1>4 DEF HandleShutdown, received
  <2> QED
    BY <1>0, <1>4, <2>1
<1>5. CASE c.state \notin {"SHUTDOWN_SENT", "ESTABLISHED"}
  <2>1. HandleShutdown(c, junk) = IF junk THEN [c EXCEPT !.guard = "running"] ELSE c
    BY <1>5 DEF HandleShutdown
  <2> QED
    BY <2>1, MatchGuarded
<1> QED
  BY <1>3, <1>4, <1>5

\* Every other chunk: none of them has a tag.
LEMMA MatchChunkHandled ==
  ASSUME NEW mine, NEW theirs, NEW c \in Matches(mine, theirs), NEW type, NEW junk
  PROVE  HandleChunk(c, type, junk) \in Matches(mine, theirs)
<1>1. Chunk("SHUTDOWN_COMPLETE") \in Ours(mine, theirs) /\ Chunk("HEARTBEAT_ACK") \in Ours(mine, theirs)
  BY PlainChunks DEF HeaderOnly
<1>2. HandleHeartbeat(c) \in Matches(mine, theirs)
  BY <1>1, MatchEnqueued DEF HandleHeartbeat
<1>3. HandleShutdown(c, junk) \in Matches(mine, theirs)
  BY MatchShutdownHandled
<1>4. HandleShutdownAck(c) \in Matches(mine, theirs)
  BY <1>1, MatchEnqueued, MatchStopped DEF HandleShutdownAck
<1>5. HandleShutdownComplete(c) \in Matches(mine, theirs)
  BY MatchStopped DEF HandleShutdownComplete
<1> QED
  BY <1>2, <1>3, <1>4, <1>5 DEF HandleChunk

\* A packet that an end receives while no tag is drawn.
LEMMA MatchReceived ==
  ASSUME NEW mine, NEW theirs, NEW c \in Matches(mine, theirs), NEW p \in Heard(mine, theirs), NEW fresh, NEW junk,
         c.guard # "late" /\ Valid(p) => ~DrawsTag(c, Head(p.chunks))
  PROVE  Receive(c, p, fresh, junk) \in Matches(mine, theirs)
<1> DEFINE first == HandleFirst(c, p, fresh)
           ours == first.localTag = p.tag
           all == IF ours THEN HandleChunks(first, p.chunks, junk) ELSE first
           sent == SendShutdownOrClose(all, "SHUTDOWN", "SHUTDOWN_SENT")
<1>1. Close(c) \in Matches(mine, theirs)
  BY MatchClosed
<1>2. CASE c.guard # "late" /\ Valid(p)
  <2>1. first \in Matches(mine, theirs)
    BY <1>2, MatchFirstHandled
  <2>2. Receive(c, p, fresh, junk) \in {all, sent}
        /\ (Receive(c, p, fresh, junk) # all => all.state = "SHUTDOWN_SENT")
    BY <1>2 DEF Receive, Handle
  <2> HIDE DEF first
  <2>3. all \in Matches(mine, theirs)
    <3>1. p.chunks \in Seq(Chunks)
      <4>1. Ours(theirs, mine) \subseteq Chunks
        BY DEF Ours
      <4>2. p.chunks \in Seq(Ours(theirs, mine))
        BY DEF Heard
      <4> QED
        BY <4>1, <4>2
    <3>2. HandleChunks(first, p.chunks, junk) \in Matches(mine, theirs)
      BY <2>1, <3>1, MatchChunkHandled, ChunksKeep
    <3> QED
      BY <2>1, <3>2
  <2> HIDE DEF all
  <2>4. all.state = "SHUTDOWN_SENT" => sent \in Matches(mine, theirs)
    BY <2>3, MatchShutdownSentOrClosed DEF HeaderOnly, States, Up
  <2> QED
    BY <2>2, <2>3, <2>4
<1>3. CASE ~(c.guard # "late" /\ Valid(p))
  BY <1>1, <1>3 DEF Receive
<1> QED
  BY <1>2, <1>3
-----------------------------------------------------------------------------
\* What is sent.

\* What getDataToSend repeats.
LEMMA MatchRepeated ==
  ASSUME NEW mine, NEW theirs, NEW c \in Matches(mine, theirs), NEW late
  PROVE  Repeat(c, late) \in Matches(mine, theirs)
<1>1. SendInit(c) \in Matches(mine, theirs) /\ Close(SendInit(c)) \in Matches(mine, theirs)
  BY MatchInitSent, MatchClosed
<1>2. SendShutdownOrClose(c, "SHUTDOWN_ACK", c.state) \in Matches(mine, theirs)
  <2>1. c.state \in States
    BY DEF Matches, Sound, Objects
  <2> QED
    BY <2>1, MatchShutdownSentOrClosed DEF HeaderOnly
<1> QED
  BY <1>1, <1>2 DEF Repeat

\* An INIT_ACK in a packet of its own.
LEMMA MatchLoneTaken ==
  ASSUME NEW mine, NEW theirs, NEW c \in Matches(mine, theirs), NEW i \in Lone(c.outQueue)
  PROVE  /\ WithoutLone(c, i) \in Matches(mine, theirs)
         /\ LonePacket(c, i).chunks \in Seq(Ours(mine, theirs))
<1> DEFINE q == c.outQueue
           d == WithoutLone(c, i)
           rest == SubSeq(q, i + 1, Len(q)) \o SubSeq(q, 1, i - 1)
<1>1. c \in Sound /\ q \in Seq(Ours(mine, theirs)) /\ i \in 1..Len(q)
  BY DEF Lone, Matches
<1>2. d \in Sound /\ d.outQueue = rest /\ d.state = c.state /\ d.localTag = c.localTag /\ d.peerTag = c.peerTag
  <2>1. d \in Sound
    BY <1>1, LoneTaken
  <2> QED
    BY <1>1, <2>1 DEF WithoutLone, Sound, Objects
<1> HIDE DEF d
<1>3. rest \in Seq(Ours(mine, theirs))
  <2> HIDE DEF q
  <2>1. SubSeq(q, i + 1, Len(q)) \in Seq(Ours(mine, theirs)) /\ SubSeq(q, 1, i - 1) \in Seq(Ours(mine, theirs))
    BY <1>1
  <2> QED
    BY <2>1
<1> HIDE DEF rest
<1>4. d \in Matches(mine, theirs)
  BY <1>2, <1>3 DEF Matches
<1>5. LonePacket(c, i).chunks \in Seq(Ours(mine, theirs))
  <2>1. <<q[i]>> \in Seq(Ours(mine, theirs))
    BY <1>1
  <2> QED
    BY <2>1 DEF LonePacket
<1> QED
  BY <1>4, <1>5 DEF d

\* A queue that is sent, with the data behind it.
LEMMA MatchFilled ==
  ASSUME NEW mine, NEW theirs, NEW c \in Matches(mine, theirs), NEW timedOut \in BOOLEAN, NEW beat \in BOOLEAN
  PROVE  /\ Fill(c, timedOut, beat)[1] \in Matches(mine, theirs)
         /\ Fill(c, timedOut, beat)[2] \in Seq(Ours(mine, theirs))
<1> DEFINE data == DataOf(c, timedOut)
           chunks == c.outQueue \o data
           emptied == [c EXCEPT !.outQueue = <<>>]
           sent == [emptied EXCEPT !.unsent = 0]
           filled == AddData(c, timedOut)
           next == IF chunks = <<>> THEN AdvanceShutdown(filled) ELSE filled
           heart == chunks = <<>> /\ beat /\ next.state = "ESTABLISHED"
<1>0. c \in Sound
  BY DEF Matches
<1>1. chunks \in Seq(Ours(mine, theirs))
  <2>1. c.outQueue \in Seq(Ours(mine, theirs)) /\ c.unsent \in Nat
    BY <1>0 DEF Matches, Sound, Objects
  <2>2. Chunk("DATA") \in Ours(mine, theirs)
    BY PlainChunks
  <2>3. data \in Seq(Ours(mine, theirs))
    BY <2>1, <2>2 DEF DataOf
  <2> HIDE DEF data
  <2> QED
    BY <2>1, <2>3
<1>2. Fill(c, timedOut, beat) = <<next, IF heart THEN <<Chunk("HEARTBEAT")>> ELSE chunks>>
  BY DEF Fill
<1> HIDE DEF chunks, data
<1>3. emptied \in Matches(mine, theirs)
  <2>1. <<>> \in Seq(Chunks) /\ <<>> \in Seq(Ours(mine, theirs))
    OBVIOUS
  <2>2. emptied \in Sound /\ emptied.outQueue = <<>> /\ emptied.state = c.state /\ emptied.localTag = c.localTag
        /\ emptied.peerTag = c.peerTag
    BY <1>0, <2>1 DEF Sound, Objects
  <2> HIDE DEF emptied
  <2> QED
    BY <2>1, <2>2 DEF Matches
<1>4. filled \in {emptied, Close(emptied), sent}
  BY DEF AddData
<1> HIDE DEF emptied, filled
<1>5. sent \in Matches(mine, theirs)
  <2>1. sent \in Sound /\ sent.outQueue = emptied.outQueue /\ sent.state = emptied.state
        /\ sent.localTag = emptied.localTag /\ sent.peerTag = emptied.peerTag
    BY <1>3 DEF Matches, Sound, Objects
  <2> HIDE DEF sent
  <2> QED
    BY <1>3, <2>1, StillMatches
<1> HIDE DEF sent
<1>6. filled \in Matches(mine, theirs)
  BY <1>3, <1>4, <1>5, MatchClosed
<1>7. next \in Matches(mine, theirs)
  <2>1. /\ filled.state = "SHUTDOWN_RECEIVED" =>
             SendShutdownOrClose(filled, "SHUTDOWN_ACK", "SHUTDOWN_ACK_SENT") \in Matches(mine, theirs)
        /\ filled.state = "SHUTDOWN_PENDING" =>
             SendShutdownOrClose(filled, "SHUTDOWN", "SHUTDOWN_SENT") \in Matches(mine, theirs)
    BY <1>6, MatchShutdownSentOrClosed DEF HeaderOnly, States, Up
  <2>2. AdvanceShutdown(filled) \in Matches(mine, theirs)
    BY <1>6, <2>1 DEF AdvanceShutdown
  <2> QED
    BY <1>6, <2>2
<1> HIDE DEF next
<1>8. <<Chunk("HEARTBEAT")>> \in Seq(Ours(mine, theirs))
  <2>1. Chunk("HEARTBEAT") \in Ours(mine, theirs)
    BY PlainChunks DEF HeaderOnly
  <2> QED
    BY <2>1
<1> QED
  BY <1>1, <1>2, <1>7, <1>8
-----------------------------------------------------------------------------
\* The steps, while the ends keep the tags they began with.
Mine(e) == conn[e].localTag
Theirs(e) == conn[Other(e)].localTag

MatchInv ==
  /\ UCInv /\ lastTag >= 2
  /\ NoTagDrawn => \A e \in Peers : /\ conn[e] \in Matches(Mine(e), Theirs(e))
                                    /\ net[e] \in Seq(Heard(Mine(e), Theirs(e)))

\* The other end of the other end.
LEMMA OtherOther == ASSUME NEW e \in Peers PROVE Other(Other(e)) = e
<1>1. PICK a \in Peers, b \in Peers : a # b /\ Peers = {a, b}
  BY ConnectionAssumption
<1> QED
  BY <1>1, OtherIsPeer

\* An end that goes on matching keeps its tag, and the other end is as it was.
LEMMA OneMatches ==
  ASSUME MatchInv, NoTagDrawn, NEW e \in Peers, NEW c \in Matches(Mine(e), Theirs(e)), Become(e, c)
  PROVE  \A f \in Peers : /\ conn'[f] \in Matches(Mine(f), Theirs(f))
                          /\ conn'[f].localTag = Mine(f)
<1>1. conn \in [Peers -> Sound] /\ \A f \in Peers : conn[f] \in Matches(Mine(f), Theirs(f))
  BY DEF MatchInv, UCInv
<1>2. \A f \in Peers : conn'[f] = IF f = e THEN c ELSE conn[f]
  BY <1>1 DEF Become
<1> QED
  BY <1>1, <1>2 DEF Matches

\* What is sent is what the other end may hear.
LEMMA MatchTransmitted ==
  ASSUME MatchInv, NoTagDrawn, NEW e \in Peers, NEW tag \in Tags, NEW chunks \in Seq(Ours(Mine(e), Theirs(e))),
         Transmit(e, tag, chunks)
  PROVE  \A f \in Peers : net'[f] \in Seq(Heard(Mine(f), Theirs(f)))
<1> DEFINE o == Other(e)
           p == [tag |-> tag, chunks |-> chunks]
<1>1. o \in Peers /\ Other(o) = e /\ Mine(o) = Theirs(e) /\ Theirs(o) = Mine(e)
  BY OtherIsPeer, OtherOther DEF Mine, Theirs
<1>2. DOMAIN net = Peers /\ \A f \in Peers : net[f] \in Seq(Heard(Mine(f), Theirs(f)))
  BY DEF MatchInv, UCInv
<1>3. CASE chunks = <<>> \/ Len(net[o]) = MaxInFlight
  BY <1>2, <1>3 DEF Transmit
<1>4. CASE ~(chunks = <<>> \/ Len(net[o]) = MaxInFlight)
  <2>1. p \in Heard(Mine(o), Theirs(o))
    BY <1>1, <1>4 DEF Heard
  <2>2. net' = [net EXCEPT ![o] = Append(@, p)]
    BY <1>4 DEF Transmit
  <2> HIDE DEF p, o
  <2>3. Append(net[o], p) \in Seq(Heard(Mine(o), Theirs(o)))
    BY <1>1, <1>2, <2>1
  <2>4. \A f \in Peers : net'[f] = IF f = o THEN Append(net[o], p) ELSE net[f]
    BY <1>2, <2>2
  <2> QED
    BY <1>2, <2>3, <2>4
<1> QED
  BY <1>3, <1>4

\* getDataToSend.
LEMMA MatchFlushed ==
  ASSUME MatchInv, NoTagDrawn, NEW e \in Peers, NEW late, NEW timedOut \in BOOLEAN, NEW beat \in BOOLEAN,
         FlushWith(e, late, timedOut, beat)
  PROVE  /\ \E c \in Matches(Mine(e), Theirs(e)) : Become(e, c)
         /\ \A f \in Peers : net'[f] \in Seq(Heard(Mine(f), Theirs(f)))
<1> DEFINE c == Repeat(conn[e], late)
           lone == Lone(c.outQueue)
<1>1. conn[e] \in Matches(Mine(e), Theirs(e)) /\ conn[e] \in Sound
      /\ \A f \in Peers : net[f] \in Seq(Heard(Mine(f), Theirs(f)))
  BY DEF MatchInv, UCInv
<1>2. CASE conn[e].guard = "late"
  <2>1. Become(e, Close(conn[e])) /\ UNCHANGED net
    BY <1>2 DEF FlushWith
  <2> QED
    BY <1>1, <2>1, MatchClosed
<1>3. c \in Matches(Mine(e), Theirs(e))
  BY <1>1, MatchRepeated
<1>4. CASE conn[e].guard # "late" /\ lone # {}
  <2> DEFINE i == Min(lone)
  <2>1. Become(e, WithoutLone(c, i)) /\ Transmit(e, LonePacket(c, i).tag, LonePacket(c, i).chunks)
    BY <1>4 DEF FlushWith
  <2> HIDE DEF c
  <2>2. i \in lone
    <3>1. lone \in SUBSET Nat
      BY <1>3 DEF Lone, Matches
    <3> HIDE DEF lone
    <3> QED
      BY <1>4, <3>1, MinIn
  <2> HIDE DEF i
  <2>3. WithoutLone(c, i) \in Matches(Mine(e), Theirs(e)) /\ LonePacket(c, i).chunks \in Seq(Ours(Mine(e), Theirs(e)))
    BY <1>3, <2>2, MatchLoneTaken
  <2>4. LonePacket(c, i).tag \in Tags
    <3>1. LonePacket(c, i) \in InFlight
      BY <1>3, <2>2, LoneTaken DEF Matches
    <3> QED
      BY <3>1 DEF InFlight
  <2> QED
    BY <2>1, <2>3, <2>4, MatchTransmitted
<1>5. CASE conn[e].guard # "late" /\ lone = {}
  <2> DEFINE f == Fill(c, timedOut, beat)
  <2>1. Become(e, f[1]) /\ Transmit(e, conn[e].peerTag, f[2])
    BY <1>5 DEF FlushWith
  <2> HIDE DEF c
  <2>2. f[1] \in Matches(Mine(e), Theirs(e)) /\ f[2] \in Seq(Ours(Mine(e), Theirs(e)))
    BY <1>3, MatchFilled
  <2> HIDE DEF f
  <2>3. conn[e].peerTag \in Tags
    BY <1>1 DEF Sound, Objects
  <2> QED
    BY <2>1, <2>2, <2>3, MatchTransmitted
<1> QED
  BY <1>2, <1>4, <1>5

\* What one end does, if no tag is drawn.
LEMMA MatchMoves ==
  ASSUME MatchInv, NoTagDrawn, lastTag' = lastTag, NEW e \in Peers, Ordinary(e) \/ Beat(e) \/ Faults(e)
  PROVE  /\ \E c \in Matches(Mine(e), Theirs(e)) : Become(e, c)
         /\ \A f \in Peers : net'[f] \in Seq(Heard(Mine(f), Theirs(f)))
<1> DEFINE M == Matches(Mine(e), Theirs(e))
           Hears == \A f \in Peers : net'[f] \in Seq(Heard(Mine(f), Theirs(f)))
<1>1. /\ conn[e] \in M /\ conn[e] \in Sound /\ net[e] \in Seq(Heard(Mine(e), Theirs(e)))
      /\ DOMAIN net = Peers /\ (UNCHANGED net => Hears)
  BY DEF MatchInv, UCInv
<1>2. (\E c \in M : Become(e, c)) <=> \E c \in Matches(Mine(e), Theirs(e)) : Become(e, c)
  OBVIOUS
<1> SUFFICES (\E c \in M : Become(e, c)) /\ Hears
  OBVIOUS
<1>3. net' = [net EXCEPT ![e] = Tail(@)] /\ net[e] # <<>> => Hears
  <2> SUFFICES ASSUME net' = [net EXCEPT ![e] = Tail(@)], net[e] # <<>>, NEW f \in Peers
               PROVE  net'[f] \in Seq(Heard(Mine(f), Theirs(f)))
    OBVIOUS
  <2>1. Tail(net[e]) \in Seq(Heard(Mine(e), Theirs(e)))
    BY <1>1
  <2>2. net[f] \in Seq(Heard(Mine(f), Theirs(f)))
    BY DEF MatchInv
  <2>3. net'[f] = IF f = e THEN Tail(net[e]) ELSE net[f]
    BY <1>1
  <2> QED
    BY <2>1, <2>2, <2>3
<1>4. CASE Connect(e)
  <2> DEFINE d == SendInit(conn[e])
             w == [d EXCEPT !.state = "COOKIE_WAIT"]
  <2>1. d \in M /\ d.state = "CLOSED"
    BY <1>1, <1>4, MatchInitSent DEF Connect
  <2>2. (Become(e, w) \/ Become(e, d)) /\ UNCHANGED net
    BY <1>4 DEF Connect
  <2> HIDE DEF d
  <2>3. w \in M
    <3>1. w \in Sound /\ w.localTag = d.localTag /\ w.peerTag = d.peerTag /\ w.outQueue = d.outQueue
          /\ w.state = "COOKIE_WAIT"
      BY <2>1 DEF Matches, Sound, Objects, States, Opening, Up
    <3> HIDE DEF w
    <3> QED
      BY <2>1, <3>1, StillMatches DEF Taken, Up
  <2> HIDE DEF w, M, Hears
  <2> QED
    BY <1>1, <2>1, <2>2, <2>3
<1>5. CASE Disconnect(e)
  <2> DEFINE s == StartShutdown(conn[e])
  <2>1. Close(conn[e]) \in M
    BY <1>1, MatchClosed
  <2>2. ((conn[e].state = "ESTABLISHED" /\ Become(e, s)) \/ Become(e, Close(conn[e]))) /\ UNCHANGED net
    BY <1>5 DEF Disconnect
  <2>3. conn[e].state = "ESTABLISHED" => s \in M
    <3>1. conn[e].state = "ESTABLISHED" =>
            s \in Sound /\ s.localTag = conn[e].localTag /\ s.peerTag = conn[e].peerTag /\ s.outQueue = conn[e].outQueue
      BY <1>1 DEF StartShutdown, Sound, Objects, States, Up, Guards, Timers
    <3> HIDE DEF s
    <3> QED
      BY <1>1, <3>1, StillMatches DEF Taken, Up
  <2> HIDE DEF s, M, Hears
  <2> QED
    BY <1>1, <2>1, <2>2, <2>3
<1>6. CASE CloseByStore(e)
  BY <1>1, <1>6, MatchClosed DEF CloseByStore
<1>7. CASE SendMessage(e)
  <2> DEFINE s == [conn[e] EXCEPT !.unsent = 1]
  <2>1. s \in Sound /\ s.localTag = conn[e].localTag /\ s.peerTag = conn[e].peerTag /\ s.outQueue = conn[e].outQueue
        /\ s.state = conn[e].state
    BY <1>1 DEF Sound, Objects
  <2>2. Become(e, s) /\ UNCHANGED net
    BY <1>7 DEF SendMessage
  <2> HIDE DEF s
  <2>3. s \in M
    BY <1>1, <2>1, StillMatches
  <2> HIDE DEF M, Hears
  <2> QED
    BY <1>1, <2>2, <2>3
<1>8. CASE ReceivePacket(e)
  <2> DEFINE p == Head(net[e])
             draws == conn[e].guard # "late" /\ Valid(p) /\ DrawsTag(conn[e], Head(p.chunks))
  <2>1. /\ net[e] # <<>> /\ net' = [net EXCEPT ![e] = Tail(@)]
        /\ lastTag' = IF draws THEN lastTag + 1 ELSE lastTag
        /\ \E junk \in BOOLEAN : Become(e, Receive(conn[e], p, lastTag + 1, junk))
    BY <1>8 DEF ReceivePacket
  <2>2. p \in Heard(Mine(e), Theirs(e))
    BY <1>1, <2>1
  <2>3. ~draws
    <3> HIDE DEF draws
    <3> QED
      BY <2>1 DEF NoTagDrawn
  <2>4. \A junk \in BOOLEAN : Receive(conn[e], p, lastTag + 1, junk) \in M
    <3> HIDE DEF p
    <3> QED
      BY <1>1, <2>2, <2>3, MatchReceived
  <2> HIDE DEF M, Hears, p, draws
  <2> QED
    BY <1>3, <2>1, <2>4
<1>9. CASE Flush(e) \/ Resend(e) \/ Beat(e) \/ Silence(e)
  BY <1>9, MatchFlushed DEF Flush, Resend, Beat, Silence
<1>10. CASE GuardLate(e)
  <2> DEFINE s == [conn[e] EXCEPT !.guard = "late"]
  <2>1. s \in Sound /\ s.localTag = conn[e].localTag /\ s.peerTag = conn[e].peerTag /\ s.outQueue = conn[e].outQueue
        /\ s.state = conn[e].state
    BY <1>1 DEF Sound, Objects, Guards
  <2>2. Become(e, s) /\ UNCHANGED net
    BY <1>10 DEF GuardLate
  <2> HIDE DEF s
  <2>3. s \in M
    BY <1>1, <2>1, StillMatches
  <2> HIDE DEF M, Hears
  <2> QED
    BY <1>1, <2>2, <2>3
<1>11. CASE Lose(e)
  <2>1. Become(e, conn[e])
    BY <1>11 DEF Lose, Become, MatchInv, UCInv
  <2>2. net[e] # <<>> /\ net' = [net EXCEPT ![e] = Tail(@)]
    BY <1>11 DEF Lose
  <2> HIDE DEF M, Hears
  <2> QED
    BY <1>1, <1>3, <2>1, <2>2
<1>12. CASE Replace(e)
  <2>1. lastTag' = lastTag + 1
    BY <1>12 DEF Replace
  <2> QED
    BY <2>1 DEF NoTagDrawn
<1> HIDE DEF M, Hears
<1> QED
  BY <1>4, <1>5, <1>6, <1>7, <1>8, <1>9, <1>10, <1>11, <1>12 DEF Ordinary, Faults

\* A tag that is drawn is never given back, and nobody changes the tag it has.
LEMMA MatchStep == ASSUME MatchInv, [UCNext]_ucVars PROVE MatchInv'
<1>1. UCInv'
  BY UCInvStep DEF MatchInv
<1>2. CASE UNCHANGED ucVars
  BY <1>1, <1>2 DEF ucVars, MatchInv, NoTagDrawn, Mine, Theirs
<1>3. ASSUME NEW e \in Peers, Ordinary(e) \/ Beat(e) \/ Faults(e) PROVE MatchInv'
  <2>1. lastTag' \in {lastTag, lastTag + 1} /\ lastTag \in Nat /\ lastTag >= 2
    <3>1. lastTag \in Nat /\ lastTag >= 2
      BY ConnectionAssumption DEF MatchInv, UCInv, Tags
    <3>2. ReceivePacket(e) => lastTag' \in {lastTag, lastTag + 1}
      BY DEF ReceivePacket
    <3>3. Replace(e) => lastTag' \in {lastTag, lastTag + 1}
      BY DEF Replace
    <3>4. ~ReceivePacket(e) /\ ~Replace(e) => lastTag' = lastTag
      BY <1>3 DEF Ordinary, Faults, Connect, Disconnect, CloseByStore, SendMessage, Flush, Resend, Beat, Silence,
                  GuardLate, Lose
    <3> QED
      BY <3>1, <3>2, <3>3, <3>4
  <2>2. ASSUME lastTag' = 2
        PROVE  \A f \in Peers : /\ conn'[f] \in Matches(conn'[f].localTag, conn'[Other(f)].localTag)
                                /\ net'[f] \in Seq(Heard(conn'[f].localTag, conn'[Other(f)].localTag))
    <3>1. NoTagDrawn /\ lastTag' = lastTag
      BY <2>1, <2>2 DEF NoTagDrawn
    <3>2. PICK c \in Matches(Mine(e), Theirs(e)) : Become(e, c)
      BY <1>3, <3>1, MatchMoves
    <3>3. \A f \in Peers : conn'[f] \in Matches(Mine(f), Theirs(f)) /\ conn'[f].localTag = Mine(f)
      BY <3>1, <3>2, OneMatches
    <3>4. \A f \in Peers : net'[f] \in Seq(Heard(Mine(f), Theirs(f)))
      BY <1>3, <3>1, MatchMoves
    <3>5. \A f \in Peers : conn'[Other(f)].localTag = Theirs(f)
      BY <3>3, OtherIsPeer DEF Mine, Theirs
    <3> QED
      BY <3>3, <3>4, <3>5
  <2>3. lastTag' >= 2
    BY <2>1
  <2> QED
    BY <1>1, <2>2, <2>3 DEF MatchInv, NoTagDrawn, Mine, Theirs
<1> QED
  BY <1>2, <1>3 DEF UCNext

\* While no tag is drawn, each end matches and hears what the other one says.
THEOREM MatchInvHolds == UCSpec => []MatchInv
<1>1. UCInit => MatchInv
  <2> SUFFICES ASSUME UCInit PROVE MatchInv
    OBVIOUS
  <2>1. UCInv /\ lastTag >= 2
    BY UCInvStarts DEF UCInit
  <2>2. ASSUME NEW e \in Peers
        PROVE  conn[e] \in Matches(Mine(e), Theirs(e)) /\ net[e] \in Seq(Heard(Mine(e), Theirs(e)))
    <3>1. PICK t \in 1..2 : conn[e] = NewConnection(t)
      BY DEF UCInit
    <3>2. conn[e].state = "CLOSED" /\ conn[e].peerTag = 0 /\ conn[e].outQueue = <<>>
      BY <3>1 DEF NewConnection
    <3>3. conn[e] \in Sound /\ <<>> \in Seq(Ours(Mine(e), Theirs(e)))
      BY <2>1 DEF UCInv
    <3>4. conn[e] \in Matches(Mine(e), Theirs(e))
      BY <3>2, <3>3 DEF Matches, Taken, Up, Mine
    <3>5. net[e] = <<>> /\ <<>> \in Seq(Heard(Mine(e), Theirs(e)))
      BY DEF UCInit
    <3> QED
      BY <3>4, <3>5
  <2> QED
    BY <2>1, <2>2 DEF MatchInv
<1> QED
  BY <1>1, MatchStep, PTL DEF UCSpec

\* BothAgree: while no tag is drawn beyond the first two, two ends that are up
\* have each other's tags, for any number of calls, repetitions, losses and
\* packets in flight and however the two openings and shutdowns cross.
THEOREM BothAgreeHolds == UCSpec => []BothAgree
<1>1. MatchInv => BothAgree
  <2> SUFFICES ASSUME MatchInv, NoTagDrawn, BothUp PROVE Agreed
    BY DEF BothAgree
  <2> QED
    BY DEF MatchInv, BothUp, Agreed, Matches, Taken, Theirs
<1> QED
  BY <1>1, MatchInvHolds, PTL
=============================================================================
