-------------------------- MODULE LobbyConnection --------------------------
(***************************************************************************)
(* bdLobby/bdLobbyConnection: messages over one TCP connection to a server.*)
(* A frame is a size of SizeBytes bytes, a byte that says whether the rest  *)
(* is encrypted, and the rest; a size of zero is a keep-alive.  Both        *)
(* directions are streams of bytes: every send and every recv moves as many *)
(* bytes as the socket likes, so a frame may be split anywhere.             *)
(* sendRaw puts bytes without a frame in the same queue.                    *)
(* One thread drives the object; a call is a sequence of steps, one for     *)
(* each call of the socket, and `at' is the place the thread is in.  The    *)
(* listener that pump tells of the connection calls the object from inside  *)
(* pump ("listener"), which pumps again ("nested").                         *)
(***************************************************************************)
EXTENDS Integers, Sequences, SequencesExt

CONSTANTS SizeBytes,         \* BD_MSG_SIZE_BUFFER_SIZE, 4 in the code
          Base,              \* values of a byte, 256 in the code
          MaxRecvSize,       \* m_maxRecvMessageSize
          MaxSendSize,       \* m_maxSendMessageSize
          ServerMessages,    \* what the server sends: [enc, body], body of bytes
          ClientMessages,    \* what the program sends, likewise
          RawMessages,       \* what the listeners send without a frame
          MaxMessages,       \* bound: what the server sends and the queue takes
          MaxOutbound        \* bound: bytes sent when a last keep-alive is due

Bytes == 0 .. Base - 1

\* What the i-th byte of a number counts, from 0.
Weight[i \in Nat] == IF i = 0 THEN 1 ELSE Base * Weight[i - 1]

IsMessage(m) == /\ m \in [enc : {0, 1}, body : Seq(Bytes)]
                /\ Len(m.body) > m.enc
                /\ Len(m.body) + 1 < Weight[SizeBytes]

ASSUME LobbyAssumption ==
    /\ SizeBytes \in Nat \ {0} /\ Base \in Nat /\ Base > 2
    /\ MaxRecvSize \in Nat \ {0} /\ MaxSendSize \in Nat
    /\ {MaxMessages, MaxOutbound} \subseteq Nat
    /\ \A m \in ServerMessages \cup ClientMessages : IsMessage(m)

ASSUME RawAssumption == RawMessages \subseteq Seq(Bytes) \ {<<>>}

VARIABLES
    m_status,        \* bdLobbyConnection::Status
    m_handle,        \* the socket is open
    m_recvState,     \* bdLobbyConnection::RecvState
    m_msgSizeBuffer, \* the bytes of the size read so far; m_recvCount of them
    m_messageSize, m_recvEncryptType,
    m_recvMessage,   \* the bytes of the message read so far
    m_outgoing,      \* m_outgoingBuffers: what is left of each
    late,            \* the timers that have run out
    at, inGet,       \* where the thread is; whether it polls for a message
    inbound,         \* bytes the server sent and recv has not returned
    outbound,        \* history: every byte send took
    began,           \* history: how many before the first of each buffer
    peer,            \* the other end of the TCP connection
    cut,             \* history: a keep-alive was sent in part or too late
    told,            \* history: what the listener was called with
    sent,            \* history: what the server sent
    queued,          \* history: every buffer m_outgoingBuffers was given
    dispatched       \* history: what getMessageToDispatch returned

reader == <<m_recvState, m_msgSizeBuffer, m_messageSize, m_recvEncryptType,
            m_recvMessage>>
streams == <<inbound, outbound, began, peer, cut, sent>>
lobbyVars == <<m_status, m_handle, reader, m_outgoing, late, at, inGet,
               streams, told, queued, dispatched>>

-----------------------------------------------------------------------------
\* bdBytePacker of a bdUInt: the least significant byte first.
SizeField(n) == [i \in 1 .. SizeBytes |-> (n \div Weight[i - 1]) % Base]
SizeOf(bytes) ==
    LET sum[i \in 0 .. SizeBytes] ==
            IF i = 0 THEN 0 ELSE sum[i - 1] + bytes[i] * Weight[i - 1]
    IN  sum[SizeBytes]

Frame(m) == SizeField(Len(m.body) + 1) \o <<m.enc>> \o m.body
KeepAlive == SizeField(0)

\* The signature of an encrypted message is its first byte here.
Signature == Base - 1
Decrypts(m) == m.enc = 0 \/ Head(m.body) = Signature

LobbyInit ==
    /\ m_status = "NOT_CONNECTED" /\ m_handle = TRUE
    /\ m_recvState = "INIT" /\ m_msgSizeBuffer = <<>> /\ m_messageSize = 0
    /\ m_recvEncryptType = 0 /\ m_recvMessage = <<>>
    /\ m_outgoing = <<>> /\ late = {} /\ at = "idle" /\ inGet = FALSE
    /\ inbound = <<>> /\ outbound = <<>> /\ began = <<>>
    /\ peer = "open" /\ cut = FALSE
    /\ told = <<>> /\ sent = <<>> /\ queued = <<>> /\ dispatched = <<>>

-----------------------------------------------------------------------------
\* callListenersConnect(true): both timers start again.
Connected == /\ m_status' = "CONNECTED"
             /\ told' = Append(told, "onConnect")
             /\ late' = {}
             /\ UNCHANGED m_handle

\* Mutant: close asks nothing and tells the listener whatever the state.
CloseAlwaysTells ==
    /\ told' = Append(told, IF m_status = "CONNECTING" THEN "onConnectFailed"
                                                       ELSE "onDisconnect")
    /\ m_status' = "DISCONNECTED" /\ m_handle' = FALSE

\* bdLobbyConnection::close
Close ==
    /\ told' = CASE m_status = "CONNECTING" -> Append(told, "onConnectFailed")
                 [] m_status = "DISCONNECTED" -> told
                 [] OTHER -> Append(told, "onDisconnect")
    /\ m_status' = "DISCONNECTED" /\ m_handle' = FALSE

\* Back from pump: to the listener that called it, or to the program, whose
\* poll goes on to read while the connection is up.
Return == \/ at = "nested" /\ at' = "listener" /\ UNCHANGED inGet
          \/ /\ at # "nested" /\ inGet' = FALSE
             /\ at' = IF inGet /\ m_status' = "CONNECTED" THEN "recv" ELSE "idle"

\* While CONNECTING pump begins with the connection, else with the queue; the
\* listener is not called while CONNECTING.
StartPump(get) ==
    \/ at = "listener" /\ at' = "nested" /\ UNCHANGED inGet
    \/ /\ at = "idle" /\ inGet' = get
       /\ at' = IF m_status = "CONNECTING" THEN "connect" ELSE "send"

\* connect on a new object: the socket says would-block, success or an error.
Connect ==
    /\ at = "idle" /\ m_status = "NOT_CONNECTED"
    /\ \/ /\ m_status' = "CONNECTING"
          /\ UNCHANGED <<m_handle, told, late>>
       \/ Connected
       \/ /\ m_status' = "DISCONNECTED" /\ m_handle' = FALSE
          /\ told' = Append(told, "onConnectFailed")
          /\ UNCHANGED late
    /\ UNCHANGED <<reader, m_outgoing, at, inGet, streams, queued, dispatched>>

\* Where the program's own code runs.
Free == at \in {"idle", "listener"}

\* disconnect
Disconnect ==
    /\ Free /\ Close
    /\ UNCHANGED <<reader, m_outgoing, late, at, inGet, streams, queued,
                   dispatched>>

\* One message more, from either side.
OneMore == Len(queued) + Len(sent) < MaxMessages

Enqueue(bytes) == /\ OneMore
                  /\ m_outgoing' = Append(m_outgoing, bytes)
                  /\ queued' = Append(queued, bytes)

\* sendTask: refused when the message, its signature not counted, is too large
\* and unless CONNECTED or CONNECTING, but it pumps either way.
SendTask(m) ==
    /\ Free
    /\ IF /\ Len(m.body) - m.enc <= MaxSendSize
          /\ m_status \in {"CONNECTED", "CONNECTING"}
       THEN Enqueue(Frame(m))
       ELSE UNCHANGED <<m_outgoing, queued>>
    /\ StartPump(FALSE)
    /\ UNCHANGED <<m_status, m_handle, reader, late, streams, told, dispatched>>

\* sendRaw: no frame, and nothing is asked of the size or the status.
SendRaw(bytes) ==
    /\ Free
    /\ Enqueue(bytes)
    /\ StartPump(FALSE)
    /\ UNCHANGED <<m_status, m_handle, reader, late, streams, told, dispatched>>

\* getMessageToDispatch, which pumps first.
Poll == /\ at = "idle" /\ m_status # "DISCONNECTED"
        /\ StartPump(TRUE)
        /\ UNCHANGED <<m_status, m_handle, reader, m_outgoing, late, streams,
                       told, queued, dispatched>>

\* pump while CONNECTING: select waits until the connection is decided, and
\* the listener that is told it is up runs before the queue is sent.
PumpConnecting ==
    /\ at = "connect"
    /\ \/ Connected /\ at' = "listener" /\ UNCHANGED inGet
       \/ Close /\ UNCHANGED late /\ Return
    /\ UNCHANGED <<reader, m_outgoing, streams, queued, dispatched>>

ListenerReturns ==
    /\ at = "listener" /\ at' = "send"
    /\ UNCHANGED <<m_status, m_handle, reader, m_outgoing, late, inGet, streams,
                   told, queued, dispatched>>

\* The rest of pump, called from the program or from the listener.
InPump == at \in {"send", "nested"}

\* The buffers that were sent to the end, and whether the next was begun.
Whole == Len(queued) - Len(m_outgoing)
Begun == Len(began) > Whole

\* The socket takes n bytes.
Takes(bytes, n) == outbound' = outbound \o SubSeq(bytes, 1, n)

\* Mutant: a send that would block ends the loop and not the call.
SendsStopped == TRUE

SendsOver == m_status = "CONNECTED" => m_outgoing = <<>>

Established == m_status = "CONNECTED"

\* One turn of the send loop.
SendSome ==
    /\ InPump /\ m_status = "CONNECTED" /\ m_outgoing # <<>>
    /\ \E n \in 1 .. Len(Head(m_outgoing)) :
          /\ Takes(Head(m_outgoing), n)
          /\ m_outgoing' = IF n = Len(Head(m_outgoing)) THEN Tail(m_outgoing)
                           ELSE <<SubSeq(Head(m_outgoing), n + 1,
                                         Len(Head(m_outgoing)))>>
                                \o Tail(m_outgoing)
    /\ began' = IF Begun THEN began ELSE Append(began, Len(outbound))
    /\ late' = late \ {"keepAlive"}
    /\ UNCHANGED <<m_status, m_handle, reader, at, inGet, inbound, peer, cut,
                   sent, told, queued, dispatched>>

\* -2 leaves the rest for a later pump, anything else closes; pump returns.
SendNothing ==
    /\ InPump /\ m_status = "CONNECTED" /\ m_outgoing # <<>>
    /\ Close \/ UNCHANGED <<m_status, m_handle, told>>
    /\ Return
    /\ UNCHANGED <<reader, m_outgoing, late, streams, queued, dispatched>>

\* After 40 seconds without a send: four zero bytes.  What the socket took of
\* them is not looked at, nor whether it would block; an error closes.  Nor is
\* the status: pump sends them on a connection the peer has closed its end of,
\* behind the part of a task that is left there.
SendKeepAlive ==
    /\ InPump /\ SendsOver /\ "keepAlive" \in late
    /\ \/ /\ m_handle
          /\ \E n \in 0 .. SizeBytes :
                /\ Takes(KeepAlive, n)
                /\ cut' = (cut \/ (n > 0 /\ ~(n = SizeBytes /\ Established)))
          /\ late' = late \ {"keepAlive"}
          /\ UNCHANGED <<m_status, m_handle, told, at, inGet>>
       \/ Close /\ Return /\ UNCHANGED <<outbound, cut, late>>
    /\ UNCHANGED <<reader, m_outgoing, inbound, began, peer, sent, queued,
                   dispatched>>

\* Mutant: the timer is only looked at between two messages.
SilentBetween == "receive" \in late /\ m_recvState = "INIT"
Silent == "receive" \in late

\* After 120 seconds in which recv returned nothing the connection is closed.
CheckSilence ==
    /\ InPump /\ SendsOver /\ "keepAlive" \notin late
    /\ IF Silent THEN Close ELSE UNCHANGED <<m_status, m_handle, told>>
    /\ Return
    /\ UNCHANGED <<reader, m_outgoing, late, streams, queued, dispatched>>

-----------------------------------------------------------------------------
\* recvMessageData: one activation for each step.  READ_INIT clears the fields
\* and goes on as READ_SIZE; a change of state repeats the function.
Reading == at = "recv" /\ m_status = "CONNECTED"
SoFar == IF m_recvState = "INIT" THEN <<>> ELSE m_msgSizeBuffer

\* The activation ends the call if the state is the one it started in.
RepeatUnless(same) == at' = IF same THEN "idle" ELSE "recv"

SizeRead(n) == SoFar \o SubSeq(inbound, 1, n)

RecvSize ==
    /\ Reading /\ m_recvState \in {"INIT", "SIZE"}
    /\ \E n \in 1 .. SizeBytes - Len(SoFar) :
        /\ n <= Len(inbound)
        /\ inbound' = SubSeq(inbound, n + 1, Len(inbound))
        /\ m_msgSizeBuffer' = SizeRead(n)
        /\ IF Len(SoFar) + n < SizeBytes
           THEN /\ m_recvState' = "SIZE" /\ m_messageSize' = 0
                /\ late' = late \ {"receive"}
                /\ UNCHANGED <<m_status, m_handle, told>>
           ELSE LET size == SizeOf(SizeRead(n))
                IN  /\ m_messageSize' = size
                    /\ IF size > MaxRecvSize
                       THEN Close /\ m_recvState' = "SIZE" /\ UNCHANGED late
                       ELSE /\ m_recvState' = IF size = 0 THEN "INIT"
                                                          ELSE "ENCRYPT"
                            /\ late' = late \ {"receive"}
                            /\ UNCHANGED <<m_status, m_handle, told>>
        /\ m_recvEncryptType' = IF m_recvState = "INIT" THEN 0
                                                        ELSE m_recvEncryptType
        /\ m_recvMessage' = IF m_recvState = "INIT" THEN <<>> ELSE m_recvMessage
        /\ RepeatUnless(m_recvState' = m_recvState \/ m_status' # "CONNECTED")
    /\ UNCHANGED <<m_outgoing, inGet, outbound, began, peer, cut, sent, queued,
                   dispatched>>

RecvEncrypt ==
    /\ Reading /\ m_recvState = "ENCRYPT" /\ inbound # <<>>
    /\ m_recvEncryptType' = Head(inbound) /\ inbound' = Tail(inbound)
    /\ m_recvMessage' = <<>> /\ m_recvState' = "MESSAGE"
    /\ late' = late \ {"receive"}
    /\ UNCHANGED <<m_status, m_handle, m_msgSizeBuffer, m_messageSize,
                   m_outgoing, at, inGet, outbound, began, peer, cut, sent,
                   told, queued, dispatched>>

\* Mutants: recv is asked for the whole message every time; the byte for the
\* encryption is not taken off the size.
WantedWhole == m_messageSize - 1
WantedOneMore == m_messageSize - Len(m_recvMessage)

\* getAvail of m_recvTransfer.
Wanted == m_messageSize - 1 - Len(m_recvMessage)

RecvMessage ==
    /\ Reading /\ m_recvState = "MESSAGE"
    /\ \E n \in 1 .. Wanted :
        /\ n <= Len(inbound)
        /\ m_recvMessage' = m_recvMessage \o SubSeq(inbound, 1, n)
        /\ inbound' = SubSeq(inbound, n + 1, Len(inbound))
        /\ m_recvState' = IF n = Wanted THEN "COMPLETE" ELSE "MESSAGE"
        /\ RepeatUnless(n < Wanted)
    /\ late' = late \ {"receive"}
    /\ UNCHANGED <<m_status, m_handle, m_msgSizeBuffer, m_messageSize,
                   m_recvEncryptType, m_outgoing, inGet, outbound, began, peer,
                   cut, sent, told, queued, dispatched>>

\* recv returns an error, or 0 when the peer has closed and all is read.
\* READ_INIT is READ_SIZE by now, so the function is called once more; of the
\* errors only a connection reset closes, the others are logged.
RecvNothing ==
    /\ Reading /\ m_recvState # "COMPLETE"
    /\ IF m_recvState = "INIT"
       THEN /\ m_recvState' = "SIZE" /\ m_msgSizeBuffer' = <<>>
            /\ m_messageSize' = 0 /\ m_recvEncryptType' = 0
            /\ m_recvMessage' = <<>> /\ at' = "recv"
            /\ UNCHANGED <<m_status, m_handle, told>>
       ELSE /\ \/ /\ peer # "closed" \/ inbound # <<>>
                  /\ UNCHANGED <<m_status, m_handle, told>>
               \/ peer = "reset" /\ Close
               \/ /\ peer = "closed" /\ inbound = <<>>
                  /\ told' = Append(told, "onDisconnect")
                  /\ m_status' = "DISCONNECTED" /\ UNCHANGED m_handle
            /\ at' = "idle"
            /\ UNCHANGED reader
    /\ UNCHANGED <<m_outgoing, late, inGet, streams, queued, dispatched>>

\* The rest of getMessageToDispatch.  The message is decrypted in place; when
\* its signature is wrong the state stays READ_COMPLETE.
Message == [enc |-> m_recvEncryptType, body |-> m_recvMessage]
Dispatch ==
    /\ Reading /\ m_recvState = "COMPLETE"
    /\ IF Decrypts(Message)
       THEN /\ dispatched' = Append(dispatched, Message)
            /\ m_recvState' = "INIT"
       ELSE UNCHANGED <<dispatched, m_recvState>>
    /\ at' = "idle"
    /\ UNCHANGED <<m_status, m_handle, m_msgSizeBuffer, m_messageSize,
                   m_recvEncryptType, m_recvMessage, m_outgoing, late, inGet,
                   streams, told, queued>>

-----------------------------------------------------------------------------
(* The server, the network and the clock.                                  *)

\* What the server sends to a connection that is given up makes no difference.
OnlyStreams == UNCHANGED <<m_status, m_handle, reader, m_outgoing, late, at,
                           inGet, outbound, began, cut, told, queued,
                           dispatched>>

ServerSend(m) == /\ Established /\ peer = "open" /\ OneMore
                 /\ sent' = Append(sent, m) /\ inbound' = inbound \o Frame(m)
                 /\ UNCHANGED peer /\ OnlyStreams
ServerKeepAlive == /\ Established /\ peer = "open" /\ Len(inbound) < SizeBytes
                   /\ inbound' = inbound \o KeepAlive
                   /\ UNCHANGED <<peer, sent>> /\ OnlyStreams
ServerCloses == /\ Established /\ peer = "open" /\ peer' = "closed"
                /\ UNCHANGED <<inbound, sent>> /\ OnlyStreams
\* A reset throws away what was not yet read.
Reset == /\ Established /\ peer = "open" /\ peer' = "reset" /\ inbound' = <<>>
         /\ UNCHANGED sent /\ OnlyStreams

\* The two stopwatches run from onConnect on and are never stopped.
TimersRun == told # <<>> /\ told[1] = "onConnect"
QuietFor40 == /\ at = "idle" /\ TimersRun /\ Len(outbound) <= MaxOutbound
              /\ late' = late \cup {"keepAlive"}
              /\ UNCHANGED <<m_status, m_handle, reader, m_outgoing, at, inGet,
                             streams, told, queued, dispatched>>
SilentFor120 == /\ at = "idle" /\ TimersRun
                /\ late' = late \cup {"receive"}
                /\ UNCHANGED <<m_status, m_handle, reader, m_outgoing, at, inGet,
                               streams, told, queued, dispatched>>

Calls == \/ Connect \/ Disconnect
         \/ \E m \in ClientMessages : SendTask(m)
         \/ \E bytes \in RawMessages : SendRaw(bytes)
Pumping == \/ PumpConnecting \/ ListenerReturns \/ SendSome \/ SendNothing
           \/ SendKeepAlive \/ CheckSilence
Receiving == RecvSize \/ RecvEncrypt \/ RecvMessage \/ RecvNothing \/ Dispatch
Outside == \/ \E m \in ServerMessages : ServerSend(m)
           \/ ServerKeepAlive \/ ServerCloses \/ Reset
           \/ QuietFor40 \/ SilentFor120

LobbyNext == Calls \/ Poll \/ Pumping \/ Receiving \/ Outside
LobbySpec == LobbyInit /\ [][LobbyNext]_lobbyVars

\* recv will return nothing, or the reader does not call it any more.
NothingToRead == inbound = <<>> \/ m_recvState = "COMPLETE"

\* The program polls in every frame, whatever it sends between, and its listener
\* returns; a socket that stays up does not refuse for ever, in either direction;
\* 120 seconds without a byte go by in the end.
LobbyFairSpec ==
    /\ LobbySpec
    /\ WF_lobbyVars(Pumping \/ Receiving)
    /\ SF_lobbyVars(Poll \/ ListenerReturns)
    /\ SF_lobbyVars(SendSome)
    /\ SF_lobbyVars(RecvSize \/ RecvEncrypt \/ RecvMessage)
    /\ SF_lobbyVars(NothingToRead /\ SilentFor120)

-----------------------------------------------------------------------------
LobbyTypeOK ==
    /\ m_status \in {"NOT_CONNECTED", "CONNECTING", "CONNECTED",
                     "DISCONNECTED"}
    /\ m_recvState \in {"INIT", "SIZE", "ENCRYPT", "MESSAGE", "COMPLETE"}
    /\ m_msgSizeBuffer \in Seq(Bytes) /\ Len(m_msgSizeBuffer) <= SizeBytes
    /\ m_messageSize \in Nat /\ m_recvEncryptType \in Bytes
    /\ m_recvMessage \in Seq(Bytes) /\ Len(m_recvMessage) <= MaxRecvSize
    /\ m_outgoing \in Seq(Seq(Bytes) \ {<<>>})
    /\ late \subseteq {"keepAlive", "receive"}
    /\ at \in {"idle", "connect", "listener", "nested", "send", "recv"}
    /\ {m_handle, inGet, cut} \subseteq BOOLEAN
    /\ inbound \in Seq(Bytes) /\ outbound \in Seq(Bytes) /\ began \in Seq(Nat)
    /\ peer \in {"open", "closed", "reset"}
    /\ told \in Seq({"onConnect", "onConnectFailed", "onDisconnect"})
    /\ sent \in Seq(ServerMessages) /\ queued \in Seq(Seq(Bytes) \ {<<>>})

\* The listener hears of the connection what is true of it: once that it is up
\* or could not be, once that it is over, and nothing after that, whichever of
\* pump, recvMessageData, close and disconnect ends it and however often.
ListenerToldOnce ==
    told \in CASE m_status \in {"NOT_CONNECTED", "CONNECTING"} -> {<<>>}
               [] m_status = "CONNECTED" -> {<<"onConnect">>}
               [] OTHER -> {<<"onConnect", "onDisconnect">>, <<"onDisconnect">>,
                            <<"onConnectFailed">>}

\* What of the k-th buffer was sent, where it ends, and where the next begins.
SentOf(k) == Len(queued[k]) - IF k <= Whole THEN 0 ELSE Len(Head(m_outgoing))
EndOf(k) == IF k = 0 THEN 0 ELSE began[k] + SentOf(k)
StartOf(k) == IF k <= Len(began) THEN began[k] ELSE Len(outbound)

\* There is nothing else between two places than some whole keep-alives.
KeepAlivesOnly(from, to) ==
    \E n \in 0 .. Len(outbound) : to = from + n * SizeBytes

\* The server gets what was queued, framed by sendTask or put there by sendRaw,
\* each buffer in one piece and in order, however the bytes were split, called
\* from wherever, and nothing but the zeros of keep-alives between them; these
\* are whole and never behind a buffer that is sent in part, unless the socket
\* took one only in part, or was given one after the peer had closed.
ServerGetsTheQueue ==
    /\ Len(began) \in Whole .. Len(queued) /\ Len(began) <= Whole + 1
    /\ \A k \in 1 .. Len(began) :
          \A i \in 1 .. SentOf(k) : outbound[began[k] + i] = queued[k][i]
    /\ \A k \in 0 .. Len(began) :
          /\ EndOf(k) <= StartOf(k + 1)
          /\ \A i \in EndOf(k) + 1 .. StartOf(k + 1) : outbound[i] = 0
          /\ ~cut => KeepAlivesOnly(EndOf(k), StartOf(k + 1))
    /\ ~cut /\ Begun => EndOf(Len(began)) = Len(outbound)

\* The connection keeps the promise of LobbyChannel.
Channel == INSTANCE LobbyChannel
    WITH Messages <- ServerMessages, got <- dispatched,
         Readable <- {m \in ServerMessages : Decrypts(m)},
         phase <- CASE m_status = "NOT_CONNECTED" -> "new"
                    [] m_status = "CONNECTING" -> "opening"
                    [] m_status = "CONNECTED" -> "up"
                    [] OTHER -> "down"
ImplementsChannel == Channel!ChannelSpec

\* What the server sent comes out or the connection is given up: a message in
\* pieces, a peer that vanished (of the errors of recv only one closes) and a
\* reader that waits behind a message it cannot decrypt all end in one of the
\* two, the last by the timer of 120 seconds.
AllSentComesOut ==
    Len(dispatched) < Len(sent)
        ~> Len(dispatched) = Len(sent) \/ m_status = "DISCONNECTED"
=============================================================================
