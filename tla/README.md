# A verification of demonware

Demonware is the network library of a game: sockets with encrypted
associations between players, connections over them, NAT traversal, and the
client side of a lobby server. This directory models the parts of it that
have state and a protocol, model-checks them with TLC on small instances, and
proves the main invariants with TLAPS for every value of the constants.

The library has no tests and no protocol document. The reference is its code
under `src/src/` and `src/include/demonware/`; where a property is taken from
what the program says of itself, it is from a log message or an assertion
(`bdAssert` only logs in this build, so a failed assertion stops nothing in any
model). Lines are given as `file:line`.

## The system

| Component | State it keeps | Operations | What makes it correct | Modelled |
|---|---|---|---|---|
| `bdSequenceNumber`, `bdSequenceNumberStore` (`bdCore/bdContainers`) | last number, bitmap of the 32 up to it | widen a 16-bit counter, `check`, `reset` | a number is accepted once; what is in reach and fresh is accepted | `SequenceNumber`, `SequenceNumberStore`, `StoreClient`, `ReplayFilter` |
| `bdDTLSAssociation` (`bdSocket/bdDTLS`) | state, two tags, resend counters, the cookie to echo, the shared key, the store | `connect`, `pump`, `receiveFrom` with one handler per packet, `sendTo` | the two ends agree on the tags of one handshake; retries are never given back; each datagram is delivered once | `DTLSAssociation`, `DTLSData` |
| `bdUnicastConnection`, `bdPacket`, chunks (`bdConnection`) | state, tags, timers, resend counters, queue of chunks, listeners | `connect`, `disconnect`, `close`, `send`, `receive`, `getDataToSend`, `reset` | listeners know the state; ends agree; an end that shuts down is guarded; own packets are understood | `UnicastConnection` (reliable window left out) |
| `bdRemoteTaskManager`, `bdRemoteTask`, the dispatch of `bdLobbyService` | list of tasks in the order sent, two maps for asynchronous results, a status per task | `startTask`, `cancelTask`, timeouts, replies, pushed results, clean-up, reconnection | a reply reaches the task it answers; a settled task stays settled; every task of `startTask` is settled | `RemoteTaskManager` |
| `bdLobbyConnection` | socket, queue of partial transfers, state of the reader, two timers | `connect`, `disconnect`, `sendTask`, `sendRaw`, `pump`, `getMessageToDispatch` | messages survive any split of the streams, in order, both ways; the listener is told once; what cannot come out ends the connection | `LobbyConnection`, `LobbyChannel` |
| `bdAuthService` | status, error code, three keys, a connection, the ticket and the data for the lobby | one request of each kind, `getStatus`, the replies, the callbacks of its connection | one outcome for each request; a result comes from one reply | `AuthService` |
| `bdGetHostByName` | status, count and addresses, shared with a thread | `start`, `run` (the thread), `pump`, `quit` | no thread outlives its lookup; only given addresses are collected | `HostLookup` |
| `bdUPnP`, `bdUPnPDevice` (`bdNet/bdUPnP`) | state of the search, of the conversation with the gateway and of the port; retries | `start`, `pump`, `shutdown` | ends found, failed or with a collision | `UPnP` |
| `bdIPDiscoveryClient`, `bdNATTypeDiscoveryClient` (`bdSocket/bdNAT`) | state, server asked, retries; the type found | `init`, `pump`, `receiveFrom`, `quit` | an open NAT is told only of an open one; a client ends | `NATDiscovery` |
| `bdNet` | status, the lists of names and addresses, the address tried, collisions; the gateway, the lookup, the two clients, the router | `start`, `pump`, `stop` | start comes to an end; every server is asked; a restart takes nothing from the game | `Net`, which composes the three above |
| `bdSocketRouter`, `bdAddressMap`, `bdSecurityKeyMap` | associations by endpoint, addresses by handle, keys by id | `connect`, `disconnect`, `sendTo`, `receiveFrom`, `pump` | an address handle and its association stand and fall together | partly: how it makes and pumps associations (`DTLSAssociation`), how `bdNet` makes and drops it (`Net`) |
| reliable and unreliable windows, connection store, dispatcher, loopback (`bdConnection`) | frames, numbers; a map from address to connection | `add`, `getDataToSend`, `handleAck`; `receiveAll`, `dispatchAll` | order, no loss; one connection per address | no, see below |
| NAT traversal, quality of service, bandwidth arbitrator | requests by identifier, retries, listeners, quotas | `connect`, `pump`, `receiveFrom` | each request ends in one call of its listener | no, see below |
| HTTP wrapper, content streaming, bandwidth test, LAN discovery | one transaction each | start, pump, abort | one outcome for each start | no, see below |
| Lobby service wrappers (matchmaking, storage, stats, ...) | none | serialise the arguments, start one task | that of the task manager | no: no state of their own |
| `bdByteBuffer`, packers, cryptography, memory, sockets, platform | values | pure functions and system calls | round trips | no: no behaviour over time |

How they interact. An application calls `pump` on each object in every frame:
nearly everything runs on that one thread, so what interleaves is the order of
calls, packets and timers, and one handler is one action. The exception is
`bdGetHostByName`, whose thread writes what the pump reads: there one shared
access is one action, but for `quit`, which reads the status and writes CANCELLED over it
in one step (`bdGetHostByName.cpp:71-74`, `:99-107`): if the thread writes its result between
the two the code holds the other status, which is cleared after the join (`:81`) without a look at
it. `bdNet` pumps the gateway, the lookup and the two clients one
after the other in one call and makes the router when they are done; it stops and
restarts itself from inside that call. Below the connection lies the association, which
encrypts and refuses repeated datagrams; below that the network, which loses,
repeats and reorders. `bdConnectionStore` flushes and receives for the
connections, `bdSocketRouter` pumps the associations, `bdLobbyService` pumps
its connection and its task manager; `bdAuthService` makes a lobby connection of its
own. Listeners are called synchronously, from inside the call that changed the state:
`LobbyConnection` has the calls its listeners make from inside `pump`, `AuthService` what its
callbacks do inside `connect` and inside the poll.

What is hard here: handshakes of two ends that cross, with stale packets of
earlier ones; 8- and 16-bit counters that come round; timers that nobody stops;
matching by position and not by identifier; results before their replies;
objects shared with a thread; a stream that is cut anywhere; an index into a list
that is rebuilt under it; callbacks that run before the call that causes them returns;
loops over maps while entries go. PROJECT.json
lists each such place as a hazard with the properties that would catch it.

## Modules

Each module names the source it follows in its header; PROJECT.json maps each
definition to its lines. Definitions called a mutant in a comment are wrong
variants of the definition that follows, kept to test the properties.

**Replay protection.** `SequenceNumber` is `bdSequenceNumber::set`: `Set` widens
a counter of `Range` values around the last number (65536 in the code).
`SequenceNumberStore` is `check` and `reset`, with the bitmap as the set of its
bits. `StoreClient` calls it with any number at any time. `ReplayFilter` is the
abstract specification: a filter with perfect memory of what it accepted.
`StoreClient` implements it (`ImplementsFilter`). `DTLSData` composes both under
`bdDTLSAssociation::sendData` and `verify`: a sender, everything ever sent in
flight, a receiver, and restarts that draw a new tag.

**`DTLSAssociation`.** One record of variables per end, under the names of the
class; `sent` is every packet ever sent, so that `Receive` of any of them is
loss (never chosen), repetition and reordering at once. One action per handler:
`HandleInit`, `HandleInitAck`, `HandleCookieEcho` (the closed state and the
cases A, B, D of the source; C and E change nothing), `HandleCookieAck`,
`HandleError`, and `Connect`, `PumpInit`, `PumpCookie`, `PumpTimeout`,
`Recreate` for what the router and the timers do. Encryption and signatures are
abstracted: a cookie that an end did not make does not exist. Timers may run
out at any time.

**`UnicastConnection`.** The object is a record, the operations are functions
from record to record, and the actions put them together as the methods do: a
`Flush` sends the resends that are due, the chunks that go alone, then data,
then advances a shutdown. The layer below delivers at most once and in order or
loses. A stopwatch is off or running; one that runs may be read as late.

**`RemoteTaskManager`.** The client's list and maps, the statuses, and the
server, which the repository does not hold: it answers in order and pushes the
results of asynchronous tasks at any time after the request has arrived. A
request is written as the task it belongs to, which the code does not send:
that is what makes `OwnAnswer` a question. A reply of which two reads fail counts as done
(`Outcomes`): each read is compared with the one before (`bdRemoteTask.cpp:61-63`). Tasks may
be started and cancelled between the messages of one pump, as a handler does.

**`LobbyConnection`, `LobbyChannel`.** Both directions are streams of bytes; every
`send` and every `recv` moves as many as the socket likes, so one step is one call
of the socket and `at` is the place inside `pump`. The reader is the source's automaton
(`INIT`, `SIZE`, `ENCRYPT`, `MESSAGE`, `COMPLETE`). A size is `SizeBytes` digits to the
base `Base`, a message that decrypts begins with a signature. Two timers may be late
whenever they are read. `LobbyChannel` is the abstract specification: what was sent, what
came out, and whether the channel is up; the connection implements it
(`ImplementsChannel`).

The queue takes buffers. `SendTask` puts a frame there, or refuses one that is too large or
comes when the connection is neither up nor being made, and pumps either way; `SendRaw` puts bytes there without
a frame and asks nothing. Both listeners of the repository use both: `bdAuthService` sends
four zeros and then its request (`bdAuthService.cpp:164-165`), `bdLobbyService` eight bytes
that are no frame and then its login (`bdLobbyService.cpp:418-422`, `:441`). They do so from
inside the pump that tells them the connection is up (`at` is "listener"), so each of these calls pumps
inside that pump ("nested") before it goes on. A task that is sent while the
connection is being made lies in the queue before what the listener sends. So the server
does not read just tasks, and the property is one of buffers: `began` remembers where the first byte
of each went, and `ServerGetsTheQueue` says that the buffers lie in the stream whole and in
the order they were queued, with only zeros of keep-alives between. An empty buffer would
make `send` return 0, which closes; `RawAssumption` has none, as no caller sends one.

**`AuthService`.** One request at a time over a connection that keeps what `LobbyChannel`
promises; its callbacks run inside `Authorize` (connecting may succeed at once) and
inside the poll. Requests are numbered, and what a reply decrypts to is the number of the
request it answers: a ticket of an earlier one is then visible. A reply may be cut
behind any of its parts.

**`HostLookup`.** Two program counters, `thread` and `app`, over the shared
status, count and array. The lookup's part of `bdNetImpl::pump` (`bdNet.cpp`) is cut at each shared
access. What the resolver returns is any number of addresses up to the array's size,
after any time. Memory is taken as the build's processor keeps it: each access is
whole, and writes are seen in program order.

**`Net`.** `bdNetImpl` whole. It extends `HostLookup`, `UPnP` and `NATDiscovery`. A pump
is its beginning (`PumpGateway`, and after a collision `CollisionStop` and
`CollisionStart`), one look at the lookup by the steps of `HostLookup` (`Look`, `Collect`,
`Cleared`, `LookupGoesOn`) between which the thread runs (`Background`), and `PumpEnds`:
one datagram for both clients and what their results decide. `UPnP` and `NATDiscovery`
hold no variables: a client is a record, and an operator gives the set of records that a
pump with these answers and this timer may lead to. A server may answer a request never,
late or any number of times, to whichever client reads it. `Crash` is the step of a
restart that found no port: the pump goes on and reads the socket it has not got
(`bdNet.cpp:219`); nothing follows it.

**Proof modules.** `ReplayProofs` (of `StoreClient` and `DTLSData`), `AssociationProofs`,
`UnicastProofs`, `TaskProofs`, `LobbyProofs`, `AuthProofs`, `HostProofs` and `NetProofs`
extend the module they are about; each begins with what its argument is.

## Runs

| Run | Instance | Question |
|---|---|---|
| `data` | counter of 8 values, window of 3, 9 packets, one restart | every widened number is the sender's; each packet is delivered at most once; the bitmap is the memory of the window, every verdict is the filter's and the store below `verify` implements the filter |
| `data_refused` (violation) | the same with a window of 2 and 10 packets | "is a duplicate" (`bdDTLSAssociation.cpp:130`) is only said of duplicates |
| `dtls` | two ends, one repeat of each packet, three tags, at most 7 different packets | tags are never mixed; an echoed cookie was issued by the end it goes back to; nothing gives a retry back |
| `dtls_calm` | two ends, no fault but repetition and reordering | an opening succeeds and both agree, simultaneous or not |
| `uc` | two ends, one repeat of each kind, three calls, at most 3 chunks and packets that wait | the listeners know the state; both ends agree as long as no tag is drawn anew; an end that shuts down has its guard on |
| `uc_valid` (violation) | the same with two tags | the packets an end builds are valid for its peer |
| `tasks` | three tasks, one of them raw, two connections | alignment, own answers, no missed result, settled stays settled, every task of `startTask` settled |
| `tasks_hang` (violation) | three tasks, one connection | the clean-up passes over pending tasks and the pump returns |
| `lobby` | sizes of two digits to the base 4; the server sends messages that decrypt, do not, and are too large, the program one that fits and one that is refused, and two kinds of bytes without a frame; two messages in all | the connection implements the channel; the server gets what was queued, buffer by buffer; the listener is told once; what was sent comes out or the connection is given up |
| `auth` | two credentials, two requests of any of the five kinds | a busy service has a live connection; what it hands to the lobby is of one reply; requests end |
| `auth_success` (violation) | the same | "Task completed sucessfully" (`bdAuthService.cpp:552`) is said of requests that were answered |
| `net` | two names, one address each, two resends, one collision, no repeat of the search for a gateway | addresses, introducers and an open NAT are what they are taken for; every server is asked before giving up; a restart comes before the servers are asked; a start comes to its end, but for two states it names |

A run called a violation checks one thing the code says of itself and shows that
the program does otherwise; the findings of PROJECT.json quote the line.

Bounds. Sequence numbers: the window and the counter are scaled together; the
numbers go past both ends of the window and past the wrap of the counter, which are the
only places the code tells numbers apart. `Drift` says how far from the last number a
packet may arrive; it is at most half the counter, and beyond it no widening can be
right. Tags: two ends draw one each, the third is for an end that starts again or
answers an INIT while established, so that a stale packet can meet new tags; `MaxTag`
bounds nothing else. Resends: 1 instead of 5, 1 instead of 200 with a counter that
comes round at 2: what matters is a first attempt, a repetition, the refusal and the
wrap. Calls, packets on their way and chunks that wait are bounded in
`UnicastConnection` by `MaxCalls`, `MaxInFlight` and the constraint `MCFewWaiting`;
`MCFewPackets` bounds the packets of the run `dtls`. These two runs check safety only: a
constraint would cut the behaviours of a liveness property. Tasks: three, so that one can be before, at and after the head; two connections, so
that one loses the other's replies. Lobby: two digits, so that a size is split; two
messages in all (`MaxMessages`), so that one stands behind another, in either direction or in both at
once; a third adds nothing, because the reader forgets all of the first, and what is proved
holds for any number. `MaxSendSize` is 2, one less than the body of the message that is refused. `MaxOutbound` is the number of bytes sent after
which no further keep-alive is due: two, so that one is due before the first buffer is sent,
between its parts and behind a keep-alive. Requests: two, so that the second meets what the
first left behind. `bdNet`: two names, so that there is a next one to look up and a next
server to ask; one address in the array, since what a longer answer does is proved
(`HostProofs`); two resends of a discovery request, so that one is the last and one is
not; one collision, so that a second is too many (the code allows 20).

Deadlock is left unchecked where the system may stop: when the bound on tags or
packets is reached, when a calm opening is complete, and when the pump of the
lobby hangs for ever.

## Fairness

- Association: in `dtls_calm`, which asks what happens when packets that change something
  arrive in the end and each half-open end is pumped on. Nothing like it is assumed in
  `dtls`: `bdSocketRouter::pump` walks its associations with `bdHashMap::next`, which leaves
  the iterator where it is, so that a second association is not pumped at all. What is said
  there of the retries (`RetriesRunOut`) is a property of steps.
- Connection: nothing. `bdConnectionStore` walks in the same way and does not come to its
  second connection, so that a shutdown ends is not claimed; that its guard is on is
  (`ShutdownGuarded`).
- Tasks: the program pumps, the connection delivers, the server answers. Results
  of asynchronous tasks need not come.
- Lobby: the program polls in every frame, and its listener returns, whatever either sends
  meanwhile. A socket that stays up does not refuse for
  ever in either direction, and 120 seconds without a byte go by (strong fairness: each of
  them is enabled again and again, not without a break).
- Authentication: the program polls `getStatus`, and a connection that is up brings the
  reply or is given up, which is what `AllSentComesOut` shows of `LobbyConnection`.
- `bdNet`: the application pumps (each step of a pump is weakly fair), the thread is
  scheduled, the resolver comes back (after timeouts of its own). The timers of the
  gateway and of the two clients are read again and again and are late in some of the
  pumps (strong fairness). Whether the lookup's own timeout passes, and what any answer
  is, is left open.

## What is proved

All theorems hold for every value of the constants that satisfies the named
assumptions of the module: any window, counter range, number of packets and
restarts; any limits of resends and number of tags, two ends (of a connection at least
two tags, one for the object each end begins with); any sets of tasks and
number of connections; any width of the size field, base and messages of a stream; any
credentials and number of requests; any number of names, size of the array, resends, collisions and
repeats of the search for a gateway.

- `ReplayProofs`, the store. `ClientTypeOK` and `WindowIsMemory` together are
  inductive: a shift of the bitmap is a shift of what it remembers, and what leaves it
  is below the window. `VerdictIsRight` follows for each step, and with it every step of
  the store is a step of the filter (`StoreImplementsFilter`).
- `ReplayProofs`, the data path. `WideningExact` is arithmetic over the distance of the
  two numbers (`WideningHolds`). `DataInv` adds that every accepted number is at most the
  last and that what was delivered under the present tag was accepted; so nothing is
  delivered twice, restarts included (`DeliveryHolds`). Every step of the data path
  drives the store as `StoreClient` may (`DataDrivesStore`), so `verify` stands on a
  filter with perfect memory (`DataImplementsFilter`).
- `AssociationProofs`. `TagsOfOneCookie` is not inductive: an end that becomes
  established by a COOKIE_ACK has its tags from a cookie it echoed before. The
  invariant adds `EchoKept` (in COOKIE_ECHOED the stored cookie carries the
  end's two tags and was sent) and `CountersBounded` (the counters that allow a
  resend). `CookiesReturn` holds with them: every cookie that is ever echoed, at once or by
  a retry, is one that the end it goes back to issued to the end that echoes it. Of
  `RetriesRunOut` each handler and timer is one case (`RetriesHold`): the counters are reset
  only by a step that leaves the association closed or established.
- `AssociationProofs`, the calm opening (`CalmOpeningAgrees`). Without restarts the tag of
  an end is its own from the moment it leaves CLOSED, and an end that is closed offers the
  tag 0, which it then adopts. So `CalmInv` can say of each packet what it has to do with
  the two ends as they are now: an INIT has its sender's tag, every cookie that is echoed
  the tags both ends use, and a COOKIE_ACK comes from an end that is established; nobody
  looks started again. `BothAgree` is among its parts. The theorem assumes that every key
  is known (`FALSE \notin KeyKnown`), as the run does: an end that does not know its key
  closes while what it has said is still on its way, which is a restart.
- `UnicastProofs`. `ListenersKnow` says of one object what its state and its listeners
  have to do with each other, so the invariant is a set of objects (`Sound`: the types,
  and a listener heard last of a connection exactly while the object is up), and there
  is one lemma for each handler: from a sound object it makes a sound one. What a packet
  of many chunks does is a fold; `FoldLeft` is defined by a CHOOSE over functions, so a
  function that folds is built first (`FoldUnfolds`, `FoldGoesOn`), and then whatever set
  of objects each chunk keeps is kept by all of them (`ChunksKeep`).
- `UnicastProofs`, the two ends. While no tag is drawn an end keeps the one it began with
  (a cookie that is echoed to it names just this tag, so it never looks started again).
  What an end may say is then a set of chunks fixed by its own tag and the other one's
  (`Ours`), and what it may be a set of objects (`Matches`): the peer's tag is 0 or the
  other one's, and is taken in COOKIE_ECHOED and whenever the object is up. Each handler
  keeps `Matches`, given that what it hears is the other end's `Ours`, by one lemma, and
  the fold over the chunks by the same `ChunksKeep`; `BothAgreeHolds` follows for any number
  of calls, losses, repetitions and packets in flight. `ShutdownGuardedHolds` is one
  more part of the set `Sound`.
- `TaskProofs`. The types, `RepliesAligned`, `OwnAnswer`, `NoResultMissed` and that
  `m_asyncTasks` holds a task under its own identifier are inductive together: the
  head of the list is the task of the next reply, so the answer it takes is its
  own. `FinalStays` is proved as an action property from the same invariant.
- `LobbyProofs`, the reader. `ReaderInv` has the types, what the reader has read of a
  message in each of its states, where the thread may be, and what the listener was told
  by then; `LobbyTypeOK` and `ListenerToldOnce` are among its parts.
- `LobbyProofs`, the stream from the server. The number in a size field is a function
  defined by recursion: that it exists, and that a size field is read as the number that was
  written (`SizeOf` after `SizeField`), is shown by a least counterexample (`Recursion`,
  `SetInduction`). The stream is cut into
  keep-alives and frames (`Splits`). The bytes the reader holds and the ones
  before it begin at a cut (`InStream`), so what comes out is the next message that was
  sent: every step of the connection is one of `LobbyChannel` or a stutter
  (`ChannelPromised`).
- `LobbyProofs`, the stream to the server. `QueueKept` says that each buffer begun lies where
  it began, up to what is left of it, with zeros before the next (`Laid`); that what is left
  is the rest of the next buffer and all behind it (`Left`); and that a buffer that is begun ends
  where the stream does while the connection is up or no keep-alive was cut (`AtTheEnd`):
  this is why the send loop may go on where it stopped. A buffer may be queued at any moment, by the
  listener inside the loop's own pump too (`BufferQueued`), bytes of it taken
  (`BufferTaken`), zeros sent when none is begun (`ZerosAdded`). `ServerGetsTheQueueHolds` follows.
- `AuthProofs`. The types, `BusyIsConnected` and `AuthInfoOfOneReply` are inductive
  together: a service that is busy has its connection, and a ticket is of the request
  that is out.
- `HostProofs`. The invariant says for each place of the two threads what holds
  there: `PlacesKept` (which name the pump is at and whether the object is there),
  `ThreadKept` (what the thread has written), `CountedAreReal` (what the count
  covers has been written), `SuccessKept` (a lookup that succeeded stays complete
  until the next name). `ThreadsJoined`, `OnlyRealAddresses` and
  `SuccessIsCollected` are among its parts.

- `NetProofs`. First a refinement: what a step of `Net` does to the variables of
  `HostLookup` is one of its steps or none (`NetImplementsLookup`), given `PumpIsOn` (a
  pump is not at its lookup or its end while `bdNet` is stopped); `ThreadsJoined` and
  `OnlyRealAddresses` carry over. `GatewayFirst` says that while the gateway runs, or has
  found a collision, no server has been asked and the router is only created:
  `RestartBeforeRouter` follows. `DiscoveryInv` relates the index, the list, the clients
  and the router: a client that runs asks the server at the index (`ServersKept`), the
  list holds each address found once (`OrderKept`), a type is only known to a client that
  has ended (`OpenKept`). `NetTypeOK`, `IntroducersKeepAll` and `OpenIsTrue` are among
  its parts. The pumps of the gateway and of the clients are summed up once each, in
  lemmas over the sets of records they lead to (`UPnPPumpedFacts`, `IPPumpFacts`,
  `NATPumpFacts`). `EveryServerAsked` rests on `AskedKept`: the servers before the index
  have been asked, and the one at the index too once its client is there; a list whose
  last server is done has been asked whole. The exception is a client that could not
  begin, which ends `bdNet` at once.

Only model-checked: all liveness (`OpenSucceeds`, `TasksAnswered`, `AllSentComesOut`,
`RequestsEnd`, `NetSettles`), which is out of the prover's reach. Every other property of a passing run is proved.

## What the runs found

- `verify` accepts only a number that jumps over a whole window
  (`bdDTLSAssociation.cpp:122-132`): the packets of an ordinary stream are refused as
  duplicates (`data_refused`). The store below it is right.
- A packet that ends in a chunk of four bytes is refused by its receiver
  (`bdChunk.cpp:14`), so a COOKIE_ACK or a SHUTDOWN alone is never understood
  (`uc_valid`).
- `bdHashMap::next` leaves its iterator where it is, so `bdLobbyService::pump` hangs
  over an asynchronous task that waits (`tasks_hang`). `bdSocketRouter::pump`
  walks its associations the same way; `DTLSAssociation` models one association and
  its peer, pumped each for itself.
- A reply of the authentication server that ends before its ticket is a success, with no
  session key or that of an earlier request (`bdAuthService.cpp:357`, `auth_success`).

Read in the code and in the models, with no run of their own yet: a cookie that
names an existing association makes it established without the shared key
(`bdDTLSAssociation.cpp:322-332`); `disconnect` during a handshake leaves the INIT
timer running, so an INIT can be sent from an established connection
(`bdUnicastConnection.cpp:79`, `:773`); orphaned results of tasks are not discarded
(`bdRemoteTaskManager.cpp:186`); a lookup that timed out blocks `bdNet::pump` until
the resolver comes back (`bdGetHostByName.cpp:77`); `bdNetImpl::stop` destroys the type
client and keeps the pointer, so the next online start never discovers
(`bdNet.cpp:509`), although start's log tells the game to call stop to reset
(`bdNet.cpp:109`); a gateway that cannot be connected to for its description has its failure
overwritten and a timer that never started, so the request is neither sent nor given up
(`bdUPnPDevice.cpp:57-62`, `:470-474`), and one that can no more be connected to after it has told
its address leaves its search waiting: these three are the states in which `NetSettles` says
that a start may stay for ever, and the model reaches them; a send that fails inside `onConnect` leaves `bdAuthService` busy
(`bdAuthService.cpp:152`), a keep-alive that the socket takes in part shifts all
that follows (`bdLobbyConnection.cpp:403`), and one that is due when the server has
closed its end may follow the part of a task, because nothing
looks at the status (`bdLobbyConnection.cpp:399`). `BusyIsConnected` and `RequestsEnd` exclude the first of
these. `cut` remembers the other two: there `ServerGetsTheQueue` still says that the buffers
come whole and in order with only zeros between, and no more that the zeros are whole
keep-alives, which is what a server needs to find the next frame.

Two ends that are both established can have different tags when one of them lost
its state and a cookie of an earlier life arrives: a closed association adopts the
tags of any cookie it once made. No line of the code claims otherwise, so this is
no finding; `BothAgree` is stated for openings without restarts.

Two connections that are both up can have different tags too. An end in
SHUTDOWN_RECEIVED offers a fresh tag to each INIT it is sent
(`bdUnicastConnection.cpp:801`) and a COOKIE_ACK is matched by the local tag alone and not by
the cookie it answers (`:666-684`). So an end that connects anew, echoes a first offer, gives
up, connects again and echoes a second one, takes the acknowledgement of the first for that
of the second, and keeps the second tag. It takes five calls, four tags and several INITs, more
than the run `uc` has; `BothAgree` of `UnicastConnection` therefore speaks of two ends that
draw no tag beyond their first. No line of the code claims more.

## Not modelled

Layouts of packets and messages, encryption, logging and statistics: abstracted
wherever they are used. Times: a timer that runs may run out whenever it is
read. Names that begin with a digit: `bdPlatformSocket::getHostByName` returns the sign
of a comparison for one that is not an address.

Some components have a protocol on paper that this code cannot carry out; a model of
what the code does would be one that stops at its first step:

- Reliable windows: `add` puts the chunk in a temporary and stores nothing
  (`bdReliableSendWindow.cpp:43-47`), so the send window is empty in every state and the
  receive window never gets a chunk.
- `bdConnectionStore` walks its table with `bdHashMap::next`, which leaves its iterator
  where it is (`tasks_hang`): its first pump with a connection never returns.
- `bdSocketRouter::receiveFrom`: the search for a packet's association reads the node of
  an iterator that is null while the map is empty (`bdSocketRouter.cpp:565`, `:610`); the
  map gets its first entry by NAT traversal only. So `bdNet` and the associations are not
  composed by way of the router.
- NAT traversal: the last test of `doHMac` ends in a semicolon
  (`bdNATTravClient.cpp:580`), so no request is signed and no answer accepted.
- `bdQoSProbe`: the loop that sends runs only when sending is not allowed, behind a return
  for that case (`bdQoSProbe.cpp:256`).
- HTTP: an operation is set up as READY (`bdHTTPClient.cpp:452`) and performed in BUSY only
  (`bdHTTPWrapper.cpp:131`); content streaming rests on it.
- `bdBandwidthTest`: the last stage switches inside the case of another
  (`bdBandwidthTest.cpp:499`) and is not reached.
- LAN discovery: the client's update is empty.

The lobby's service wrappers start one task each and keep nothing. The rest of
`bdCore` and `bdPlatform` is pure functions and system calls. A listener of
`LobbyConnection` may call the connection again from inside `onConnect`, as both of the
repository do (`bdAuthService`, `bdLobbyService`); when the connection comes up inside
`connect` what it does follows the step, as the next call of the program; one that calls
again from inside `onConnectFailed` or `onDisconnect` is not modelled.

Most of the repository's C is vendored: LibTomCrypt and LibTomMath (`src/externals`), which
the program calls as pure functions. The program's own code is some 24,600 lines of
`.cpp` and 8,400 of headers, and a good part of these are the wrappers, codecs and values
named above.

## Plan

Done: replay protection, association and data path, unicast connection, task manager,
lobby connection, authentication, lookups, `bdNet`, and for each of them its types and
its safety and action properties proved. What could be added: the agreement of a connection
whose ends have drawn tags, which needs a statement of which of several offers an
acknowledgement answers.
