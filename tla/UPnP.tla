-------------------------------- MODULE UPnP --------------------------------
(***************************************************************************)
(* bdUPnP and the gateway it configures, bdUPnPDevice: from bdNetImpl's     *)
(* pump it looks for a gateway, asks it for its address and for the owner   *)
(* of the game's port, and maps the port when nobody owns it.               *)
(*                                                                         *)
(* The state is one record.  What a pump does to it depends on what the     *)
(* network answers and, when `late`, on a timer that has run out: an        *)
(* operator gives the set of the records it may lead to.                    *)
(***************************************************************************)
EXTENDS Naturals

CONSTANT DiscoveryRetries   \* m_config.m_discoveryRetries

ASSUME DiscoveryAssumption == DiscoveryRetries \in Nat

UPnPStates == {"UNINITIALISED", "INITIALISED", "DISCOVERING_DEVICES", "DISCOVERED_DEVICE",
               "CONFIGURING_DEVICE", "FINISHED", "FAILED"}

\* The device's four conversations: what is sent, and what is then waited for.
Waits == [SENDING_DESCRIPTION_REQ |-> "GETTING_DESCRIPTION",
          SENDING_IP_REQ          |-> "DISCOVERING_IP",
          SENDING_PORT_QUERY_REQ  |-> "DISCOVERING_PORT_MAPPING",
          SENDING_MAPPING_REQ     |-> "MAPPING_PORT"]
\* Where a good answer leads.
Answered == [GETTING_DESCRIPTION      |-> "GOT_DESCRIPTION",
             DISCOVERING_IP           |-> "DISCOVERED_IP",
             DISCOVERING_PORT_MAPPING |-> "DISCOVERED_PORT_MAPPING",
             MAPPING_PORT             |-> "MAPPED_PORT"]
DeviceStates == DOMAIN Waits \cup DOMAIN Answered \cup {Answered[s] : s \in DOMAIN Answered}
                \cup {"UNINITIALISED", "INITIALISED", "FINISHED", "FAILED"}
PortStatuses == {"UNKNOWN", "COLLISION_FOUND", "NOT_MAPPED", "MAPPED"}
RunModes == {"DO_PORT_MAPPING", "EXTERNAL_IP_ONLY"}

\* bdUPnP::bdUPnP
NoUPnP == [state |-> "UNINITIALISED", mode |-> "DO_PORT_MAPPING", device |-> "UNINITIALISED",
           timed |-> FALSE, port |-> "UNKNOWN", cached |-> FALSE, attempts |-> 0]

\* `timed` is whether the device's m_connectTimer runs: from the first
\* connection that could be begun.
UPnPRecords == [state : UPnPStates, mode : RunModes, device : DeviceStates, timed : BOOLEAN,
                port : PortStatuses, cached : BOOLEAN, attempts : 0..DiscoveryRetries + 1]

\* bdUPnP::init, in one of the modes or switched off.  (A game that names no
\* local address goes on like one that has switched it off.)
UPnPStarted(u, config) ==
  IF config = "disabled" THEN [u EXCEPT !.state = "FINISHED"]
  ELSE IF u.state = "UNINITIALISED" THEN [u EXCEPT !.state = "INITIALISED", !.mode = config]
  ELSE u

\* bdUPnP::cleanup, which leaves the count of attempts alone.
CleanedUp(u) == [NoUPnP EXCEPT !.attempts = u.attempts]

\* startShutdown and the pump after it.  The device is pumped once; then its
\* state is compared with a kind of shutdown, and either way of that test
\* cleans up: what the device had just begun, to take its mapping back, is
\* never sent.
UPnPShutDown(u) == IF u.state = "UNINITIALISED" THEN u ELSE CleanedUp(u)

\* The gateway is still asked although nobody can answer: its description was
\* to be fetched over a connection that was not begun, or it can no more be
\* connected to after it has told its address.
Unreachable(u) ==
  \/ u.device = "SENDING_DESCRIPTION_REQ" /\ ~u.timed
  \/ u.device = "DISCOVERED_IP"

isRunning(u) == u.state \notin {"FINISHED", "FAILED", "UNINITIALISED"}
getPortStatus(u) == IF u.device = "FINISHED" THEN u.port ELSE "UNKNOWN"

-----------------------------------------------------------------------------
To(u, states) == {[u EXCEPT !.device = s] : s \in states}

\* pumpSendRequest: the socket is not connected yet, or it is and takes the
\* request, or refuses it.  A socket for which no connection was begun is
\* never connected, and a stopwatch that was never started never runs out.
SendRequest(u, late) ==
  IF ~u.timed THEN {u}
  ELSE To(u, {Waits[u.device], "FAILED"} \cup (IF late THEN {} ELSE {u.device}))

\* pumpReceive goes on until its timer runs out, whatever has come and even
\* when the gateway has hung up; only then is the answer read.
Receive(u, late) ==
  IF ~late THEN {u}
  ELSE LET ports == CASE u.device = "DISCOVERING_PORT_MAPPING" -> PortStatuses \ {"UNKNOWN"}
                      [] u.device = "MAPPING_PORT" -> {"MAPPED"}
                      [] OTHER -> {u.port}
       IN  {[u EXCEPT !.device = Answered[u.device], !.port = p] : p \in ports} \cup To(u, {"FAILED"})

\* bdUPnPDevice::pump.  A failure to connect for the description is written
\* over at once, which leaves the timer off, and one after the address is
\* tried again for ever.
DevicePumped(u, late) ==
  CASE u.device = "INITIALISED" -> {[u EXCEPT !.device = "SENDING_DESCRIPTION_REQ", !.timed = begun] : begun \in BOOLEAN}
    [] u.device \in DOMAIN Waits -> SendRequest(u, late)
    [] u.device \in DOMAIN Answered -> Receive(u, late)
    [] u.device = "GOT_DESCRIPTION" -> To(u, {"SENDING_IP_REQ", "FAILED"})
    [] u.device = "DISCOVERED_IP" ->
         To(u, IF u.mode = "EXTERNAL_IP_ONLY" THEN {"FINISHED"} ELSE {"SENDING_PORT_QUERY_REQ", "DISCOVERED_IP"})
    [] u.device = "DISCOVERED_PORT_MAPPING" ->
         To(u, IF u.port = "NOT_MAPPED" THEN {"SENDING_MAPPING_REQ", "FAILED"} ELSE {"FINISHED"})
    [] u.device = "MAPPED_PORT" -> To(u, {"FINISHED"})
    [] OTHER -> {u}

\* bdUPnP::pump, while it runs.
\* What bdNet does not read once it is over is forgotten: of a gateway that
\* is configured, all but a collision.
Go(u, s) ==
  CASE s = "FAILED"   -> [CleanedUp(u) EXCEPT !.state = s]
    [] s = "FINISHED" -> IF getPortStatus(u) = "COLLISION_FOUND"
                           THEN [CleanedUp(u) EXCEPT !.state = s, !.device = u.device, !.port = u.port]
                           ELSE [CleanedUp(u) EXCEPT !.state = s]
    [] s = "CONFIGURING_DEVICE" -> [u EXCEPT !.state = s, !.cached = FALSE]
    [] OTHER -> [u EXCEPT !.state = s]
AsksAgain(u) == IF u.attempts > DiscoveryRetries THEN "FINISHED" ELSE "INITIALISED"

DiscoveryPumped(u, late) ==
  CASE u.state = "INITIALISED" ->
         {Go([u EXCEPT !.attempts = IF @ > DiscoveryRetries THEN @ ELSE @ + 1], "DISCOVERING_DEVICES"),
          Go(u, "FAILED")}
    [] u.state = "DISCOVERING_DEVICES" /\ ~late ->
         {u, [u EXCEPT !.cached = TRUE], Go(u, "FAILED"),
          Go([u EXCEPT !.device = "INITIALISED"], "CONFIGURING_DEVICE")}
    [] u.state = "DISCOVERING_DEVICES" /\ late ->
         IF u.cached THEN {Go([u EXCEPT !.device = "INITIALISED"], "DISCOVERED_DEVICE")}
                     ELSE {Go(u, AsksAgain(u)), Go(u, "FAILED")}
    [] u.state = "DISCOVERED_DEVICE" -> {Go(u, "CONFIGURING_DEVICE"), Go(u, "FAILED")}
    [] OTHER -> {u}

UPnPPumped(u, late) ==
  IF u.state # "CONFIGURING_DEVICE" THEN DiscoveryPumped(u, late)
  ELSE {IF d.device \in {"FINISHED", "FAILED"} THEN Go(d, d.device) ELSE d : d \in DevicePumped(u, late)}
=============================================================================
