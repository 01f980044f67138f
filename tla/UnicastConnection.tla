-------------------------- MODULE UnicastConnection -------------------------
(***************************************************************************)
(* bdConnection/bdUnicastConnection: the connection two peers keep above   *)
(* their DTLS association: a handshake by cookies, unreliable data, and a  *)
(* shutdown with a guard.  Packets arrive in order and at most once (the   *)
(* association below refuses the others) or are lost.  m_cookieTimer is    *)
(* never started in the code, so no cookie is echoed again; the reliable   *)
(* window keeps nothing (bdReliableSendWindow::add), so it is empty.       *)
(***************************************************************************)
EXTENDS Integers, SequencesExt

CONSTANTS Peers,         \* the two ends
          MaxInits,      \* 200 in the code, for INIT and for COOKIE_ECHO
          MaxShutdowns,  \* 5 in the code
          CounterRange,  \* 256: a resend counter is a bdUByte8
          MaxTag,        \* bound: random tags drawn
          MaxCalls,      \* bound: calls of connect, disconnect and the like
          MaxInFlight    \* bound: packets on their way to one end

ASSUME ConnectionAssumption ==
    /\ \E a, b \in Peers : a # b /\ Peers = {a, b}
    /\ MaxInits \in Nat /\ MaxShutdowns \in Nat
    /\ CounterRange \in Nat /\ CounterRange > MaxInits
    /\ CounterRange > MaxShutdowns
    /\ MaxTag \in Nat /\ MaxTag >= 2
    /\ MaxCalls \in Nat /\ MaxInFlight \in Nat \ {0}

VARIABLES conn,     \* the connection object of each end
          net,      \* the packets on their way to each end
          lastTag,  \* the random generator: tags 1..lastTag are used up
          calls     \* calls made from outside

ucVars == <<conn, net, lastTag, calls>>

Other(e) == CHOOSE f \in Peers : f # e
Tags == 0 .. MaxTag

\* The order of the enumeration bdUnicastConnectionStatus.
Up == {"ESTABLISHED", "SHUTDOWN_PENDING", "SHUTDOWN_SENT",
       "SHUTDOWN_RECEIVED", "SHUTDOWN_ACK_SENT"}
Opening == {"COOKIE_WAIT", "COOKIE_ECHOED"}
States == {"CLOSED"} \cup Opening \cup Up

\* A stopwatch that is reset reads zero: it never passes its limit.  One that
\* runs may have passed it whenever it is read.
Timers == {"off", "running"}
Guards == Timers \cup {"late"}

Cookies == [localTag : Tags, peerTag : Tags, localTieTag : Tags,
            peerTieTag : Tags]
HeaderOnly == {"COOKIE_ACK", "HEARTBEAT", "HEARTBEAT_ACK", "SHUTDOWN",
               "SHUTDOWN_ACK", "SHUTDOWN_COMPLETE"}
Chunks == [type : HeaderOnly \cup {"DATA"}]
          \cup [type : {"INIT"}, initTag : Tags]
          \cup [type : {"INIT_ACK", "COOKIE_ECHO"}, cookie : Cookies]
Packets == [tag : Tags, chunks : Seq(Chunks)]
Chunk(t) == [type |-> t]

\* reset and the constructor; told is what the listeners heard last.
NewConnection(tag) ==
    [state |-> "CLOSED", localTag |-> tag, peerTag |-> 0,
     initResends |-> 0, cookieResends |-> 0, shutdownResends |-> 0,
     initTimer |-> "off", shutdownTimer |-> "off", guard |-> "off",
     outQueue |-> <<>>, unsent |-> 0, told |-> "nothing"]

-----------------------------------------------------------------------------
(* The operations on one object, as functions of its state.                *)

Enqueue(c, chunk) == [c EXCEPT !.outQueue = Append(@, chunk)]

\* Mutant: a counter that does not come round.
CountUpWide(n) == n + 1
CountUp(n) == (n + 1) % CounterRange

Close(c) ==
    IF c.state = "CLOSED" THEN c
    ELSE [c EXCEPT !.state = "CLOSED",
                   !.told = IF c.state \in Up THEN "disconnected"
                                              ELSE "failed"]

\* A refused attempt is counted too, so that the counter comes round.
MaySendInit(c) == c.initResends < MaxInits
SendInit(c) ==
    LET counted == [c EXCEPT !.initResends = CountUp(@)]
    IN  IF MaySendInit(c)
        THEN Enqueue([counted EXCEPT !.initTimer = "running"],
                     [type |-> "INIT", initTag |-> c.localTag])
        ELSE counted

\* sendShutdown and sendShutdownAck share a counter and a timer.
MaySendShutdown(c) == c.shutdownResends < MaxShutdowns
SendShutdown(c, type) ==
    LET counted == [c EXCEPT !.shutdownResends = CountUp(@)]
    IN  IF MaySendShutdown(c)
        THEN Enqueue([counted EXCEPT !.shutdownTimer = "running"], Chunk(type))
        ELSE counted

\* The new state when the chunk could be sent, closed otherwise.
SendShutdownOrClose(c, type, state) ==
    IF MaySendShutdown(c) THEN [SendShutdown(c, type) EXCEPT !.state = state]
                          ELSE Close(SendShutdown(c, type))

\* Mutant: case D and case B do not tell the listeners.
EnterSilently(c) == [c EXCEPT !.state = "ESTABLISHED"]

Enter(c) ==
    IF c.state = "ESTABLISHED" THEN c
    ELSE [c EXCEPT !.state = "ESTABLISHED", !.told = "connected"]

-----------------------------------------------------------------------------
(* The handlers of the chunks that open a connection.                      *)

OffersCookie(c) == c.state \in Opening \cup {"SHUTDOWN_RECEIVED",
                                             "SHUTDOWN_ACK_SENT"}
DrawsTag(c, chunk) == chunk.type = "INIT" /\ c.state = "SHUTDOWN_RECEIVED"

\* A closed connection does not answer: somebody must have called connect.
HandleInit(c, chunk, fresh) ==
    IF chunk.initTag = 0 \/ ~OffersCookie(c) THEN c
    ELSE LET ties == c.state \in {"COOKIE_ECHOED", "SHUTDOWN_RECEIVED"}
         IN  Enqueue([c EXCEPT !.peerTag =
                          IF c.state = "SHUTDOWN_ACK_SENT" THEN chunk.initTag
                                                           ELSE @],
                     [type |-> "INIT_ACK",
                      cookie |-> [localTag |-> IF DrawsTag(c, chunk) THEN fresh
                                               ELSE c.localTag,
                                  peerTag |-> chunk.initTag,
                                  localTieTag |-> IF ties THEN c.localTag
                                                  ELSE 0,
                                  peerTieTag |-> IF ties THEN c.peerTag
                                                 ELSE 0]])

\* Mutant: the tag that the peer offers is not taken over.
KeepPeerTag(c, chunk) == c
TakePeerTag(c, chunk) == [c EXCEPT !.peerTag = chunk.cookie.localTag]

\* The chunk's initTag is its cookie's localTag; a resend counter that is
\* used up leaves the connection waiting, with the peer's tag taken over.
HandleInitAck(c, chunk, vtag) ==
    IF c.state # "COOKIE_WAIT" \/ vtag # c.localTag THEN c
    ELSE LET tagged == TakePeerTag(c, chunk)
             counted == [tagged EXCEPT !.cookieResends = CountUp(@)]
         IN  IF chunk.cookie.localTag = 0 THEN tagged
             ELSE IF c.cookieResends >= MaxInits THEN counted
             ELSE Enqueue([counted EXCEPT !.initTimer = "off",
                                          !.state = "COOKIE_ECHOED"],
                          [type |-> "COOKIE_ECHO", cookie |-> chunk.cookie])

\* Cases A, B and D of the source; C and E change nothing.
PeerRestarted(c, k) == /\ c.localTag # k.localTag /\ c.peerTag # k.peerTag
                       /\ c.localTag = k.localTieTag
                       /\ c.peerTag = k.peerTieTag
BothStarted(c, k) == /\ c.localTag = k.localTag
                     /\ c.peerTag # k.peerTag \/ k.peerTieTag = 0
SameConnection(c, k) == c.localTag = k.localTag /\ c.peerTag = k.peerTag

SendCookieAck(c) == Enqueue(c, Chunk("COOKIE_ACK"))

HandleCookieEcho(c, k) ==
    LET adopt(d) == [d EXCEPT !.localTag = k.localTag, !.peerTag = k.peerTag,
                              !.state = "ESTABLISHED"]
    IN  CASE c.state = "CLOSED" ->
               [SendCookieAck(adopt(c)) EXCEPT !.told = "connected"]
          [] c.state # "CLOSED" /\ PeerRestarted(c, k) ->
               SendCookieAck(adopt([c EXCEPT !.outQueue = <<>>, !.unsent = 0,
                                 !.initResends = 0, !.cookieResends = 0,
                                 !.shutdownResends = 0,
                                 !.told = "reconnected"]))
          [] c.state # "CLOSED" /\ BothStarted(c, k) ->
               SendCookieAck([Enter(c) EXCEPT !.peerTag = k.peerTag,
                                              !.initTimer = "off"])
          [] c.state # "CLOSED" /\ SameConnection(c, k)
                                /\ ~BothStarted(c, k) ->
               SendCookieAck([Enter(c) EXCEPT !.initTimer = "off"])
          [] OTHER -> c

HandleCookieAck(c, vtag) ==
    IF vtag = c.localTag /\ c.state = "COOKIE_ECHOED" THEN Enter(c) ELSE c

\* The first chunk of a packet, before the packet's tag is looked at.
HandleFirst(c, p, fresh) ==
    LET chunk == Head(p.chunks)
    IN  CASE chunk.type = "INIT" -> HandleInit(c, chunk, fresh)
          [] chunk.type = "INIT_ACK" -> HandleInitAck(c, chunk, p.tag)
          [] chunk.type = "COOKIE_ECHO" -> HandleCookieEcho(c, chunk.cookie)
          [] chunk.type = "COOKIE_ACK" -> HandleCookieAck(c, p.tag)
          [] OTHER -> c

-----------------------------------------------------------------------------
(* The other chunks, of a packet with the connection's own tag.            *)

\* In a state where it is not expected the guard is started or not: the local
\* that decides is not written (junk stands for what it happens to hold).
HandleShutdown(c, junk) ==
    LET guarded(d) == [d EXCEPT !.guard = "running"]
        received == [c EXCEPT !.state = "SHUTDOWN_RECEIVED"]
    IN  CASE c.state = "SHUTDOWN_SENT" ->
               LET answered == SendShutdown(received, "SHUTDOWN_ACK")
               IN  IF MaySendShutdown(c) THEN guarded(answered) ELSE answered
          [] c.state = "ESTABLISHED" -> guarded(received)
          [] OTHER -> IF junk THEN guarded(c) ELSE c

Stopped(c) == [Close(c) EXCEPT !.shutdownTimer = "off"]

HandleShutdownAck(c) ==
    IF c.state \in {"SHUTDOWN_ACK_SENT", "SHUTDOWN_SENT"}
    THEN Stopped(Enqueue(c, Chunk("SHUTDOWN_COMPLETE"))) ELSE c

HandleShutdownComplete(c) ==
    IF c.state = "SHUTDOWN_ACK_SENT" THEN Stopped(c) ELSE c

HandleHeartbeat(c) ==
    IF c.outQueue = <<>> THEN Enqueue(c, Chunk("HEARTBEAT_ACK")) ELSE c

HandleChunk(c, type, junk) ==
    CASE type = "HEARTBEAT" -> HandleHeartbeat(c)
      [] type = "SHUTDOWN" -> HandleShutdown(c, junk)
      [] type = "SHUTDOWN_ACK" -> HandleShutdownAck(c)
      [] type = "SHUTDOWN_COMPLETE" -> HandleShutdownComplete(c)
      [] OTHER -> c

\* bdPacket::deserialize: a chunk needs more than four bytes left, so that one
\* of four bytes at the end spoils its packet.
Valid(p) == p.chunks # <<>> /\ Last(p.chunks).type \notin HeaderOnly

\* The chunks of a packet in their order; the first one has been handled if it
\* is of the handshake, and then is of no kind that is handled here.
HandleChunks(c, chunks, junk) ==
    FoldLeft(LAMBDA d, ch : HandleChunk(d, ch.type, junk), c, chunks)

Handle(c, p, fresh, junk) ==
    LET first == HandleFirst(c, p, fresh)
        ours == first.localTag = p.tag
        all == IF ours THEN HandleChunks(first, p.chunks, junk) ELSE first
        dataHandled == ours /\ \E ch \in Range(p.chunks) : ch.type = "DATA"
    IN  IF all.state = "SHUTDOWN_SENT" /\ dataHandled
        THEN SendShutdownOrClose(all, "SHUTDOWN", "SHUTDOWN_SENT")
        ELSE all

Receive(c, p, fresh, junk) ==
    IF c.guard = "late" THEN Close(c)
    ELSE IF Valid(p) THEN Handle(c, p, fresh, junk) ELSE c

-----------------------------------------------------------------------------
(* getDataToSend: the packet it fills, and the object afterwards.          *)

\* Nothing waits to be sent: what a timer that ran out repeats.  The test of
\* the shutdown timer's state holds in every state, so that a SHUTDOWN that
\* is not answered is followed by a SHUTDOWN_ACK.
Repeat(c, late) ==
    IF c.outQueue # <<>> THEN c
    ELSE IF late = "init" /\ c.initTimer = "running"
    THEN IF MaySendInit(c) THEN SendInit(c) ELSE Close(SendInit(c))
    ELSE IF late = "shutdown" /\ c.shutdownTimer = "running"
    THEN SendShutdownOrClose(c, "SHUTDOWN_ACK", c.state)
    ELSE c

\* An INIT_ACK goes alone; what stood before it goes to the end of the queue.
Lone(q) == {i \in DOMAIN q : q[i].type = "INIT_ACK"}
LonePacket(c, i) == [tag |-> c.outQueue[i].cookie.peerTag,
                     chunks |-> <<c.outQueue[i]>>]
WithoutLone(c, i) ==
    [c EXCEPT !.outQueue = SubSeq(@, i + 1, Len(@)) \o SubSeq(@, 1, i - 1)]

\* The data follows the queue in the packet; timedOut: the peer was silent for
\* half an hour.  SHUTDOWN_ACK_SENT sends no data and looks at no time.
AddData(c, timedOut) ==
    LET emptied == [c EXCEPT !.outQueue = <<>>]
    IN  IF c.state = "SHUTDOWN_ACK_SENT" THEN emptied
        ELSE IF timedOut THEN Close(emptied)
        ELSE [emptied EXCEPT !.unsent = 0]
DataOf(c, timedOut) ==
    IF c.state = "SHUTDOWN_ACK_SENT" \/ timedOut THEN <<>>
    ELSE [i \in 1 .. c.unsent |-> Chunk("DATA")]

AdvanceShutdown(c) ==
    CASE c.state = "SHUTDOWN_RECEIVED" ->
           SendShutdownOrClose(c, "SHUTDOWN_ACK", "SHUTDOWN_ACK_SENT")
      [] c.state = "SHUTDOWN_PENDING" ->
           SendShutdownOrClose(c, "SHUTDOWN", "SHUTDOWN_SENT")
      [] OTHER -> c

\* <<object, chunks>> of a flush without a lone chunk.
Fill(c, timedOut, beat) ==
    LET chunks == c.outQueue \o DataOf(c, timedOut)
        filled == AddData(c, timedOut)
        next == IF chunks = <<>> THEN AdvanceShutdown(filled) ELSE filled
        heart == chunks = <<>> /\ beat /\ next.state = "ESTABLISHED"
    IN  <<next, IF heart THEN <<Chunk("HEARTBEAT")>> ELSE chunks>>

-----------------------------------------------------------------------------
UCInit == /\ conn \in {f \in [Peers -> {NewConnection(t) : t \in 1 .. 2}] :
                           \A a, b \in Peers :
                               f[a].localTag = f[b].localTag => a = b}
          /\ net = [e \in Peers |-> <<>>]
          /\ lastTag = 2 /\ calls = 0

Become(e, c) == conn' = [conn EXCEPT ![e] = c]

\* A packet that does not fit into the network is lost.
Transmit(e, tag, chunks) ==
    net' = IF chunks = <<>> \/ Len(net[Other(e)]) = MaxInFlight THEN net
           ELSE [net EXCEPT ![Other(e)] =
                     Append(@, [tag |-> tag, chunks |-> chunks])]

Call == calls < MaxCalls /\ calls' = calls + 1

Connect(e) ==
    /\ Call
    /\ conn[e].state = "CLOSED"
    /\ LET c == conn[e]
       IN  Become(e, IF MaySendInit(c)
                     THEN [SendInit(c) EXCEPT !.state = "COOKIE_WAIT"]
                     ELSE SendInit(c))
    /\ UNCHANGED <<net, lastTag>>

\* Mutant: the guard is not started.
StartShutdownUnguarded(c) == [c EXCEPT !.state = "SHUTDOWN_PENDING"]
StartShutdown(c) == [c EXCEPT !.state = "SHUTDOWN_PENDING",
                              !.guard = "running"]

Disconnect(e) ==
    /\ Call
    /\ \/ /\ conn[e].state \in Opening
          /\ Become(e, Close(conn[e]))
       \/ /\ conn[e].state = "ESTABLISHED"
          /\ Become(e, StartShutdown(conn[e]))
    /\ UNCHANGED <<net, lastTag>>

\* The store closes a connection whose address or socket went bad.
CloseByStore(e) == /\ Call
                   /\ conn[e].state # "CLOSED"
                   /\ Become(e, Close(conn[e]))
                   /\ UNCHANGED <<net, lastTag>>

SendMessage(e) == /\ conn[e].state = "ESTABLISHED" /\ conn[e].unsent = 0
                  /\ Become(e, [conn[e] EXCEPT !.unsent = 1])
                  /\ UNCHANGED <<net, lastTag, calls>>

ReceivePacket(e) ==
    /\ net[e] # <<>>
    /\ LET p == Head(net[e])
           draws == /\ conn[e].guard # "late" /\ Valid(p)
                    /\ DrawsTag(conn[e], Head(p.chunks))
       IN  /\ \E junk \in BOOLEAN :
                 Become(e, Receive(conn[e], p, lastTag + 1, junk))
           /\ draws => lastTag < MaxTag
           /\ lastTag' = IF draws THEN lastTag + 1 ELSE lastTag
    /\ net' = [net EXCEPT ![e] = Tail(@)]
    /\ UNCHANGED calls

Lose(e) == /\ net[e] # <<>>
           /\ net' = [net EXCEPT ![e] = Tail(@)]
           /\ UNCHANGED <<conn, lastTag, calls>>

\* getDataToSend; the tag of the packet is read before anything else happens.
FlushWith(e, late, timedOut, beat) ==
    LET c == Repeat(conn[e], late)
        lone == Lone(c.outQueue)
    IN  IF conn[e].guard = "late"
        THEN Become(e, Close(conn[e])) /\ UNCHANGED net
        ELSE IF lone # {}
        THEN LET i == Min(lone)
                 p == LonePacket(c, i)
             IN  Become(e, WithoutLone(c, i)) /\ Transmit(e, p.tag, p.chunks)
        ELSE LET f == Fill(c, timedOut, beat)
             IN  Become(e, f[1]) /\ Transmit(e, conn[e].peerTag, f[2])

Flush(e)   == FlushWith(e, "none", FALSE, FALSE)
              /\ UNCHANGED <<lastTag, calls>>
Resend(e)  == /\ conn[e].outQueue = <<>>
              /\ \/ /\ conn[e].initTimer = "running"
                    /\ FlushWith(e, "init", FALSE, FALSE)
                 \/ /\ conn[e].shutdownTimer = "running"
                    /\ FlushWith(e, "shutdown", FALSE, FALSE)
              /\ UNCHANGED <<lastTag, calls>>
Beat(e)    == FlushWith(e, "none", FALSE, TRUE)
              /\ UNCHANGED <<lastTag, calls>>
Silence(e) == FlushWith(e, "none", TRUE, FALSE)
              /\ UNCHANGED <<lastTag, calls>>

GuardLate(e) == /\ conn[e].guard = "running"
                /\ Become(e, [conn[e] EXCEPT !.guard = "late"])
                /\ UNCHANGED <<net, lastTag, calls>>

\* The store drops the object and makes another for the same peer.
Replace(e) == /\ Call
              /\ lastTag < MaxTag /\ lastTag' = lastTag + 1
              /\ Become(e, NewConnection(lastTag + 1))
              /\ UNCHANGED net

Ordinary(e) == \/ Connect(e) \/ Disconnect(e) \/ SendMessage(e)
               \/ ReceivePacket(e) \/ Flush(e)
               \/ Resend(e) \/ GuardLate(e)
Faults(e) == CloseByStore(e) \/ Lose(e) \/ Silence(e) \/ Replace(e)
UCNext == \E e \in Peers : Ordinary(e) \/ Beat(e) \/ Faults(e)
UCSpec == UCInit /\ [][UCNext]_ucVars

-----------------------------------------------------------------------------
UCTypeOK ==
    /\ \A e \in Peers :
        /\ conn[e].state \in States
        /\ conn[e].localTag \in Tags /\ conn[e].peerTag \in Tags
        /\ {conn[e].initResends, conn[e].cookieResends,
            conn[e].shutdownResends} \subseteq 0 .. CounterRange - 1
        /\ {conn[e].initTimer, conn[e].shutdownTimer} \subseteq Timers
        /\ conn[e].guard \in Guards
        /\ conn[e].unsent \in 0 .. 1
        /\ Range(conn[e].outQueue) \subseteq Chunks
        /\ \A p \in Range(net[e]) : /\ p.tag \in Tags /\ p.chunks # <<>>
                                    /\ Range(p.chunks) \subseteq Chunks
    /\ lastTag \in Tags /\ calls \in 0 .. MaxCalls

\* What the listeners heard last is what the connection is: they are told of
\* every connection once it is up, and of its end, whichever way it goes.
ListenersKnow == \A e \in Peers :
    conn[e].state \in Up <=> conn[e].told \in {"connected", "reconnected"}

\* Two ends that are up have each other's tags, however their handshakes,
\* losses, calls and resends cross, as long as no object is replaced and no
\* INIT is answered in SHUTDOWN_RECEIVED: these draw a tag after the first two.
Agreed == \A e \in Peers : conn[e].peerTag = conn[Other(e)].localTag
BothUp == \A e \in Peers : conn[e].state \in Up
NoTagDrawn == lastTag = 2
BothAgree == NoTagDrawn /\ BothUp => Agreed

\* "Invalid packet received." (bdUnicastConnection.cpp:269) is said of packets
\* the peer built wrongly: every packet that getDataToSend built is valid.
OwnPacketsValid == \A e \in Peers : \A p \in Range(net[e]) : Valid(p)

\* Whichever way an end has come to shut down, by a disconnect, by the peer's
\* SHUTDOWN or by an answer to it, its guard runs or has run out: since what
\* the peer says of a shutdown may never be understood, the guard alone bounds
\* it, and no handler, retry, restart or replaced object leaves it off.
ShuttingDown == Up \ {"ESTABLISHED"}
ShutdownGuarded == \A e \in Peers :
    conn[e].state \in ShuttingDown => conn[e].guard # "off"
=============================================================================
