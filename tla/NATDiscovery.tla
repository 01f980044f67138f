---------------------------- MODULE NATDiscovery ----------------------------
(***************************************************************************)
(* The two clients bdNetImpl asks a server with: bdIPDiscoveryClient for    *)
(* the public address of the socket, bdNATTypeDiscoveryClient for the kind  *)
(* of its NAT.  Both read every datagram of the game's socket.              *)
(*                                                                         *)
(* A request is a pair of its kind and the server it is for; a server may   *)
(* answer one any number of times, at any time, or not at all.  The NAT is  *)
(* open or not; the addresses a NAT that is not open gives to two requests  *)
(* are the same or not.                                                     *)
(***************************************************************************)
EXTENDS Naturals

CONSTANT Resends   \* m_retries and m_NtdcsMaxResends, which have one default

ASSUME ResendsAssumption == Resends \in Nat \ {0}

Nobody == <<>>
NoPacket == <<"none", Nobody>>

\* A client is a record; "none" is the null pointer.
NoIP == [status |-> "none", server |-> Nobody, retries |-> 0]
NoNAT == [state |-> "none", server |-> Nobody, second |-> Nobody, resends |-> 0, type |-> "UNKNOWN"]
\* The pointer bdNetImpl::stop keeps to the client it has quit and destroyed.
DeadNAT == [NoNAT EXCEPT !.state = "UNINITIALIZED"]

Tests == {"RUN_TEST_1", "RUN_TEST_2", "RUN_TEST_3"}

\* The replies that may come while the socket's NAT is of a kind: one that the
\* server sends from its second address and port passes an open one only.
Replies(asked, open) == {NoPacket} \cup {r \in asked : r[1] = "test2" => open}

-----------------------------------------------------------------------------
\* What an operation leaves: the client, and what it has sent.  Of a client
\* that has ended only what bdNetImpl reads is kept.
Result(client, sent) == [client |-> client, sent |-> sent]
IPEnds(status, server) == {Result([NoIP EXCEPT !.status = status, !.server = server], {})}
NATEnds(state, type) == {Result([NoNAT EXCEPT !.state = state, !.type = type], {})}

\* bdIPDiscoveryClient::init
IPInit(server) ==
  LET c == [status |-> "RUNNING", server |-> server, retries |-> 0]
  IN  {Result(c, {<<"ip", server>>})} \cup IPEnds("ERROR", Nobody)

\* bdIPDiscoveryClient::pump.  The client gives up at the first pump after
\* its last repetition, without waiting for the answer to it.
IPPump(c, packet, late) ==
  CASE c.status # "RUNNING" -> {Result(c, {})}
    [] c.status = "RUNNING" /\ packet = <<"ip", c.server>> -> IPEnds("SUCCESS", c.server)
    [] OTHER ->
         IF c.retries >= Resends THEN IPEnds("FAIL", Nobody)
         ELSE IF ~late THEN {Result(c, {})}
         ELSE {Result([c EXCEPT !.retries = @ + 1], {<<"ip", c.server>>})} \cup IPEnds("ERROR", Nobody)

-----------------------------------------------------------------------------
\* sendForTest1, 2 and 3: a send that fails ends the discovery.
Send(c, request) == {Result(c, {request})} \cup NATEnds("ERROR", "UNKNOWN")

\* bdNATTypeDiscoveryClient::init
NATInit(server) ==
  Send([NoNAT EXCEPT !.state = "RUN_TEST_1", !.server = server], <<"test1", server>>)

\* A mutant: the address a reply to test 2 comes from is not looked at.
AnyReply(c, reply) == TRUE
\* The test of handleResponse in test 2: only a reply from the second address,
\* and not from its port, shows an open NAT.
FromElsewhere(c, reply) == reply = <<"test2", c.second>>

\* bdNATTypeDiscoveryClient::handleResponse.  Only test 2 looks at where the
\* reply comes from: test 1 and test 3 take any reply, of any test.
handleResponse(c, reply, open) ==
  CASE c.state = "RUN_TEST_1" ->
         Send([c EXCEPT !.state = "RUN_TEST_2", !.second = reply[2], !.resends = 0], <<"test2", c.server>>)
    [] c.state = "RUN_TEST_2" -> IF FromElsewhere(c, reply) THEN NATEnds("FINI", "OPEN") ELSE {Result(c, {})}
    [] c.state = "RUN_TEST_3" ->
         NATEnds("FINI", "MODERATE") \cup (IF open THEN {} ELSE NATEnds("FINI", "STRICT"))
    [] OTHER -> {Result(c, {})}

\* bdNATTypeDiscoveryClient::pumpActiveTest, when its timer has run out.  Test
\* 3 begins without a request: its first is sent as a repetition.
Repeated(c) == [c EXCEPT !.resends = @ + 1]

pumpActiveTest(c) ==
  LET again == c.resends + 1 < Resends
  IN  CASE c.state = "RUN_TEST_1" /\ again -> Send(Repeated(c), <<"test1", c.server>>)
        [] c.state = "RUN_TEST_2" /\ again -> Send(Repeated(c), <<"test2", c.server>>)
        [] c.state = "RUN_TEST_3" /\ again -> Send(Repeated(c), <<"test3", c.second>>)
        [] c.state = "RUN_TEST_1" /\ ~again -> NATEnds("ERROR", "UNKNOWN")
        [] c.state = "RUN_TEST_2" /\ ~again -> {Result([c EXCEPT !.state = "RUN_TEST_3", !.resends = 0], {})}
        [] c.state = "RUN_TEST_3" /\ ~again -> NATEnds("FINI", "STRICT")
        [] OTHER -> {Result(c, {})}

\* bdNATTypeDiscoveryClient::pump
NATPump(c, packet, late, open) ==
  IF c.state \notin Tests THEN {Result(c, {})}
  ELSE LET heard == IF packet[1] \in {"test1", "test2", "test3"}
                      THEN handleResponse(c, packet, open) ELSE {Result(c, {})}
       IN  IF ~late THEN heard
           ELSE UNION {{Result(r.client, r.sent \cup h.sent) : r \in pumpActiveTest(h.client)} : h \in heard}
=============================================================================
