----------------------------- MODULE NetProofs ------------------------------
(***************************************************************************)
(* bdNet's properties for any number of names, addresses, retries and port  *)
(* collisions.  Every step of Net is a step of HostLookup or leaves its     *)
(* state alone, so what is proved of the lookups holds of bdNet whole; the  *)
(* rest follows from an invariant of its own: what stop leaves behind, what *)
(* a gateway that is asked has not let begin yet, how the two clients and   *)
(* the router belong to the list of servers, and who has been asked so far. *)
(***************************************************************************)
EXTENDS Net, HostProofs

\* Where the application's thread is inside stop.
StopPlaces == {"stopping", "stopJoins", "stopEnds"}

\* A pump is never in the middle of a stop.
PumpIsOn ==
  stage \in {"lookup", "end", "crashed"} => net \notin {"STOPPED", "DONE"} /\ app \notin StopPlaces

\* bdNet is stopped, or on its way there, or is about to start again.
Stopping == net = "STOPPED" \/ app \in StopPlaces \/ stage = "restart"

\* No server has been asked since bdNet was stopped, and no client is there.
Unasked == asked = {} /\ ip.status = "none" /\ nat.state \notin Tests

\* A stopped gateway has found nothing.
Unused(u) == u.state = "UNINITIALISED" /\ u.device = "UNINITIALISED"

\* While the gateway is asked, or has found a collision, nobody else has been.
GatewayFirst ==
  /\ upnp \in UPnPRecords
  /\ upnp.state = "UNINITIALISED" => Unused(upnp)
  /\ isRunning(upnp) \/ Collision => Unasked /\ router.state = "CREATED"
  /\ Stopping => Unasked /\ Unused(upnp)

\* The two clients and the requests, among the servers S.
NATTypes == {"UNKNOWN", "OPEN", "MODERATE", "STRICT"}
IPRecords(S) == [status : {"none", "RUNNING", "SUCCESS", "FAIL", "ERROR"}, server : S, retries : 0..Resends]
NATRecords(S) == [state : Tests \cup {"none", "UNINITIALIZED", "FINI", "ERROR"}, server : S, second : S,
                  resends : 0..Resends, type : NATTypes]
Requests(S) == {"ip", "test1", "test2", "test3"} \X S
Packets(S) == Requests(S) \cup {NoPacket}
RouterRecords(S) == [state : {"none", "CREATED", "INITIALIZED", "ERROR"}, introducers : Seq(S),
                     type : NATTypes, answered : S]

\* The clients, the requests and the router are about servers of the list.
DiscoveryTypes ==
  /\ ip \in IPRecords(found \cup {Nobody})
  /\ nat \in NATRecords(found \cup {Nobody})
  /\ asked \in SUBSET Requests(found \cup {Nobody})
  /\ router \in RouterRecords(found \cup {Nobody})
  /\ open \in BOOLEAN

\* The list of servers, and the place in it of the one that is asked.
OrderKept ==
  /\ order \in Seq(found) /\ found = {order[k] : k \in 1..Len(order)}
  /\ addr \in Nat /\ (addr = 0 \/ addr < Len(order))

\* How the clients and the router belong to the list of servers.
ServersKept ==
  /\ object \/ Stopping => ip = NoIP /\ nat \in {NoNAT, DeadNAT} /\ router \in {NoRouter, Created}
  /\ ip.status \in {"RUNNING", "SUCCESS"} => order # <<>> /\ ip.server = order[addr + 1]
  /\ IntroducersKeepAll

\* When the NAT may be told to be open.
OpenKept ==
  /\ nat.type = "OPEN" => nat.state = "FINI"
  /\ nat.state = "none" => nat = NoNAT
  /\ ip.status = "SUCCESS" \/ router.introducers # <<>> => asked # {}
  /\ router.state = "INITIALIZED" /\ router.introducers = <<>> => net = "DONE"
  /\ OpenIsTrue

DiscoveryInv == DiscoveryTypes /\ OrderKept /\ ServersKept /\ OpenKept

-----------------------------------------------------------------------------
\* A pump is never in the middle of a stop (bdNetImpl::stop runs between two pumps).
LEMMA PumpIsOnStep == ASSUME PumpIsOn, [NetNext]_net_all PROVE PumpIsOn'
<1> USE DEF PumpIsOn, StopPlaces, vars, own_vars, object_vars, thread_vars, pump_vars, net_vars
<1>1. CASE NetStart \/ NetStop
  BY <1>1 DEF NetStart, NetStop, Between
<1>2. ASSUME NEW late \in BOOLEAN, PumpGateway(late) PROVE PumpIsOn'
  BY <1>2 DEF PumpGateway, PumpBegins
<1>3. CASE SkipGateway
  BY <1>3 DEF SkipGateway, PumpBegins
<1>4. CASE CollisionStop
  BY <1>4 DEF CollisionStop
<1>5. CASE CollisionStart
  <2>1. app' = "idle" /\ net' \in {"BIND_FAILED", "PENDING", "INIT_FAILED"}
    BY <1>5 DEF CollisionStart, NoPort, StartWithout, Online, Start
  <2> QED
    BY <2>1
<1>6. CASE Look
  BY <1>6 DEF Look, ReadStatus
<1>7. CASE Collect
  BY <1>7 DEF Collect, CopyAddress
<1>8. CASE Cleared
  BY <1>8 DEF Cleared, Stopped
<1>9. CASE LookupGoesOn
  <2>1. UNCHANGED stage
    BY <1>9 DEF LookupGoesOn
  <2>2. net' \in {net, "INIT_FAILED"} /\ (app' \in StopPlaces => app \in StopPlaces)
    BY <1>9 DEF LookupGoesOn, NotYet, Late, Cancel, TimeOut, ReadCount, Advance, Quit, Join,
       NextHost, LastHost
  <2> QED
    BY <2>1, <2>2
<1>10. CASE Crash
  BY <1>10 DEF Crash, AtEnd
<1>11. CASE EndStep
  BY <1>11 DEF EndStep, PumpEnds
<1>12. CASE Background
  BY <1>12 DEF Background, ThreadStep, Begin, WriteAddress, WriteCount, Report, Resolve
<1>13. CASE Crashed \/ UNCHANGED net_all
  BY <1>13 DEF Crashed, net_all
<1> QED
  BY <1>1, <1>2, <1>3, <1>4, <1>5, <1>6, <1>7, <1>8, <1>9, <1>10, <1>11, <1>12, <1>13
     DEF NetNext, NetPumpStep

\* What the end of a pump does to the lookups' state: nothing, or it fails.
LEMMA PumpEndsForLookups ==
  ASSUME PumpIsOn, NEW i \in BOOLEAN, NEW n \in BOOLEAN, PumpEnds(i, n)
  PROVE  FailOnline \/ UNCHANGED vars
<1>1. UNCHANGED <<object_vars, thread_vars, pump_vars, index, found, app>> /\ app = "idle" /\ net # "STOPPED"
  BY DEF PumpEnds, AtEnd, PumpIsOn
<1>2. net' \in {net, "ONLINE_FAILED"}
  BY DEF PumpEnds, Succeed, TryNext
<1> QED
  BY <1>1, <1>2 DEF FailOnline, vars, net_vars

\* Every step of bdNet is a step of the lookups, or leaves their state alone.
LEMMA NetStepIsLookupStep == ASSUME PumpIsOn, [NetNext]_net_all PROVE [LookupNext]_vars
<1> USE DEF LookupNext, PumpStep
<1>1. CASE NetStart \/ NetStop
  BY <1>1 DEF NetStart, NoPort, Offline, Online, NetStop, StopRest
<1>2. ASSUME NEW late \in BOOLEAN, PumpGateway(late) PROVE UNCHANGED vars
  BY <1>2 DEF PumpGateway
<1>3. CASE SkipGateway \/ Crash
  BY <1>3 DEF SkipGateway, Crash
<1>4. CASE CollisionStop \/ CollisionStart
  BY <1>4 DEF CollisionStop, CollisionStart, StopRest, NoPort, Online
<1>5. CASE Look \/ Collect \/ Cleared \/ LookupGoesOn
  BY <1>5 DEF Look, Collect, Cleared, LookupGoesOn
<1>6. CASE EndStep
  BY <1>6, PumpEndsForLookups DEF EndStep
<1>7. CASE Background
  BY <1>7 DEF Background
<1>8. CASE Crashed \/ UNCHANGED net_all
  BY <1>8 DEF Crashed, net_all
<1> QED
  BY <1>1, <1>2, <1>3, <1>4, <1>5, <1>6, <1>7, <1>8 DEF NetNext, NetPumpStep

\* bdNet whole behaves, as far as its lookups go, like HostLookup: its gateway,
\* its clients and its restarts from inside pump add nothing to them.
THEOREM NetImplementsLookup == NetSpec => LookupSpec
<1>1. NetInit => LookupInit /\ PumpIsOn
  BY DEF NetInit, PumpIsOn
<1>2. PumpIsOn /\ [NetNext]_net_all => PumpIsOn'
  BY PumpIsOnStep
<1>3. PumpIsOn /\ [NetNext]_net_all => [LookupNext]_vars
  BY NetStepIsLookupStep
<1> QED
  BY <1>1, <1>2, <1>3, PTL DEF NetSpec, LookupSpec

\* bdNet collects only addresses a resolver gave, restarts and stops included.
THEOREM NetRealAddresses == NetSpec => []OnlyRealAddresses
  BY NetImplementsLookup, RealAddressesHold, PTL

\* No lookup thread outlives its lookup, whatever bdNet does beside it.
THEOREM NetThreadsJoined == NetSpec => []ThreadsJoined
  BY NetImplementsLookup, ThreadsJoinedHolds, PTL
-----------------------------------------------------------------------------
\* The gateway, one operation at a time.

\* A gateway that is cleaned up, or goes on, is one.
LEMMA CleanedUpFacts ==
  ASSUME NEW u \in UPnPRecords
  PROVE  CleanedUp(u) \in UPnPRecords /\ Unused(CleanedUp(u))
  BY DEF CleanedUp, NoUPnP, UPnPRecords, Unused, UPnPStates, DeviceStates, PortStatuses, RunModes

\* bdUPnP in its next state is still one, and not the state it begins in.
LEMMA GoFacts ==
  ASSUME NEW u \in UPnPRecords, NEW s \in UPnPStates \ {"UNINITIALISED"}
  PROVE  Go(u, s) \in UPnPRecords /\ Go(u, s).state # "UNINITIALISED"
<1> DEFINE c == CleanedUp(u)
<1>1. c \in UPnPRecords
  BY CleanedUpFacts
<1>2. \/ Go(u, s) = [c EXCEPT !.state = s]
      \/ Go(u, s) = [c EXCEPT !.state = s, !.device = u.device, !.port = u.port]
      \/ Go(u, s) = [u EXCEPT !.state = s, !.cached = FALSE]
      \/ Go(u, s) = [u EXCEPT !.state = s]
  BY DEF Go
<1> HIDE DEF c
<1>3. ASSUME NEW v \in UPnPRecords PROVE [v EXCEPT !.state = s] \in UPnPRecords /\ [v EXCEPT !.state = s].state = s
  BY DEF UPnPRecords
<1>4. /\ [c EXCEPT !.state = s, !.device = u.device, !.port = u.port] \in UPnPRecords
      /\ [c EXCEPT !.state = s, !.device = u.device, !.port = u.port].state = s
  BY <1>1 DEF UPnPRecords
<1>5. [u EXCEPT !.state = s, !.cached = FALSE] \in UPnPRecords /\ [u EXCEPT !.state = s, !.cached = FALSE].state = s
  BY DEF UPnPRecords
<1> QED
  BY <1>1, <1>2, <1>3, <1>4, <1>5

\* A device that goes on to another place leaves the rest of the gateway alone.
LEMMA ToFacts ==
  ASSUME NEW u \in UPnPRecords, NEW places \in SUBSET DeviceStates, NEW r \in To(u, places)
  PROVE  r \in UPnPRecords /\ r.state = u.state
  BY DEF To, UPnPRecords

\* So does a pump of the device, whatever the gateway answers.
LEMMA DevicePumpedFacts ==
  ASSUME NEW u \in UPnPRecords, NEW late \in BOOLEAN, NEW r \in DevicePumped(u, late)
  PROVE  r \in UPnPRecords /\ r.state = u.state
<1>1. CASE u.device \in DOMAIN Waits
  <2>1. Waits[u.device] \in DeviceStates /\ u.device \in DeviceStates /\ "FAILED" \in DeviceStates
    BY <1>1 DEF Waits, DeviceStates, Answered
  <2>2. r \in SendRequest(u, late)
    BY <1>1 DEF DevicePumped, Waits, Answered
  <2> QED
    BY <2>1, <2>2, ToFacts DEF SendRequest, UPnPRecords
<1>2. CASE u.device \in DOMAIN Answered
  <2>1. Answered[u.device] \in DeviceStates /\ {"FAILED"} \in SUBSET DeviceStates
    BY <1>2 DEF Answered, DeviceStates
  <2>2. r \in Receive(u, late)
    BY <1>2 DEF DevicePumped, Answered, Waits
  <2>3. \/ r = u
        \/ \E p \in PortStatuses : r = [u EXCEPT !.device = Answered[u.device], !.port = p]
        \/ r \in To(u, {"FAILED"})
    BY <2>2 DEF Receive, PortStatuses, UPnPRecords
  <2> QED
    BY <2>1, <2>3, ToFacts DEF UPnPRecords
<1>3. CASE u.device \notin DOMAIN Waits \cup DOMAIN Answered
  <2>1. CASE u.device = "INITIALISED"
    <3>1. \E begun \in BOOLEAN : r = [u EXCEPT !.device = "SENDING_DESCRIPTION_REQ", !.timed = begun]
      BY <2>1 DEF DevicePumped, Waits, Answered
    <3> QED
      BY <3>1 DEF UPnPRecords, DeviceStates, Waits
  <2>2. CASE u.device # "INITIALISED"
    <3>1. r = u \/ \E places \in SUBSET DeviceStates : r \in To(u, places)
      BY <1>3, <2>2 DEF DevicePumped, DeviceStates, Waits, Answered
    <3> QED
      BY <3>1, ToFacts
  <2> QED
    BY <2>1, <2>2
<1> QED
  BY <1>1, <1>2, <1>3

\* A pump that looks for gateways never makes bdUPnP as good as new.
LEMMA DiscoveryPumpedFacts ==
  ASSUME NEW u \in UPnPRecords, u.state # "UNINITIALISED", NEW late \in BOOLEAN,
         NEW r \in DiscoveryPumped(u, late)
  PROVE  r \in UPnPRecords /\ r.state # "UNINITIALISED"
<1> DEFINE counted == [u EXCEPT !.attempts = IF @ > DiscoveryRetries THEN @ ELSE @ + 1]
           begun == [u EXCEPT !.device = "INITIALISED"]
<1>1. counted \in UPnPRecords
  BY DiscoveryAssumption DEF UPnPRecords
<1>2. begun \in UPnPRecords
  BY DEF UPnPRecords, DeviceStates
<1>3. AsksAgain(u) \in UPnPStates \ {"UNINITIALISED"}
  BY DEF AsksAgain, UPnPStates
<1>4. r \in {u, [u EXCEPT !.cached = TRUE]} \/ \E v \in {u, counted, begun} :
         \E s \in UPnPStates \ {"UNINITIALISED"} : r = Go(v, s)
  BY <1>3 DEF DiscoveryPumped, UPnPStates
<1>5. [u EXCEPT !.cached = TRUE] \in UPnPRecords /\ [u EXCEPT !.cached = TRUE].state = u.state
  BY DEF UPnPRecords
<1> HIDE DEF counted, begun
<1> QED
  BY <1>1, <1>2, <1>4, <1>5, GoFacts

\* A pump leaves a gateway, and never one as good as new.
LEMMA UPnPPumpedFacts ==
  ASSUME NEW u \in UPnPRecords, u.state # "UNINITIALISED", NEW late \in BOOLEAN,
         NEW r \in UPnPPumped(u, late)
  PROVE  r \in UPnPRecords /\ r.state # "UNINITIALISED"
<1>1. CASE u.state # "CONFIGURING_DEVICE"
  BY <1>1, DiscoveryPumpedFacts DEF UPnPPumped
<1>2. CASE u.state = "CONFIGURING_DEVICE"
  <2>1. PICK d \in DevicePumped(u, late) :
          r = IF d.device \in {"FINISHED", "FAILED"} THEN Go(d, d.device) ELSE d
    BY <1>2 DEF UPnPPumped
  <2>2. d \in UPnPRecords /\ d.state # "UNINITIALISED"
    BY <2>1, DevicePumpedFacts
  <2> QED
    BY <2>1, <2>2, GoFacts DEF UPnPStates
<1> QED
  BY <1>1, <1>2

\* bdUPnP::init leaves what is known of a device alone.
LEMMA UPnPStartedFacts ==
  ASSUME NEW u \in UPnPRecords, NEW config \in RunModes \cup {"disabled"}
  PROVE  /\ UPnPStarted(u, config) \in UPnPRecords
         /\ UPnPStarted(u, config).state # "UNINITIALISED"
         /\ UPnPStarted(u, config).device = u.device
<1>1. CASE config = "disabled"
  <2>1. UPnPStarted(u, config) = [u EXCEPT !.state = "FINISHED"]
    BY <1>1 DEF UPnPStarted
  <2> QED
    BY <2>1 DEF UPnPRecords, UPnPStates
<1>2. CASE config # "disabled" /\ u.state = "UNINITIALISED"
  <2>1. UPnPStarted(u, config) = [u EXCEPT !.state = "INITIALISED", !.mode = config]
    BY <1>2 DEF UPnPStarted
  <2> QED
    BY <1>2, <2>1 DEF UPnPRecords, UPnPStates
<1>3. CASE config # "disabled" /\ u.state # "UNINITIALISED"
  <2>1. UPnPStarted(u, config) = u
    BY <1>3 DEF UPnPStarted
  <2> QED
    BY <1>3, <2>1
<1> QED
  BY <1>1, <1>2, <1>3
-----------------------------------------------------------------------------
\* The gateway is done with before a server is asked.

\* The end of a pump leaves alone what nobody has been asked for, while the
\* gateway still runs or has found a collision.
LEMMA EndWaitsForGateway ==
  ASSUME Unasked, ~PortSettled(upnp), NEW i \in BOOLEAN, NEW n \in BOOLEAN, PumpEnds(i, n)
  PROVE  UNCHANGED <<ip, nat, asked, router>>
<1> DEFINE now == [ip |-> ip, nat |-> nat, asked |-> asked]
<1>1. Begun = {now}
  BY DEF Begun, Discovers
<1>2. ASSUME NEW p PROVE IPPump(ip, p, i) = {Result(ip, {})}
  BY DEF IPPump, Unasked
<1>3. ASSUME NEW p PROVE NATPump(nat, p, n, open') = {Result(nat, {})}
  BY DEF NATPump, Unasked
<1>4. ASSUME NEW c \in Pumped(now, open', i, n) PROVE c = now
  BY <1>2, <1>3 DEF Pumped, Result, Unasked
<1>5. ~Decided(now)
  BY DEF Decided, Unasked
<1>6. Keep(now)
  BY <1>1, <1>4, <1>5 DEF PumpEnds
<1> QED
  BY <1>6 DEF Keep

\* What stop does to the gateway, the clients and the router.
LEMMA StopRestFacts ==
  ASSUME upnp \in UPnPRecords, upnp.state = "UNINITIALISED" => Unused(upnp), StopRest
  PROVE  upnp' \in UPnPRecords /\ Unused(upnp') /\ Unasked'
<1>1. Unasked'
  BY DEF StopRest, Unasked, NoIP, NoNAT, DeadNAT, Tests
<1> QED
  BY <1>1, CleanedUpFacts DEF StopRest, UPnPShutDown

\* What a start does, from where it is stopped.
LEMMA StartFacts ==
  ASSUME upnp \in UPnPRecords, Unused(upnp), Unasked,
         NoPort \/ Offline \/ \E config \in RunModes \cup {"disabled"} : Online(config)
  PROVE  /\ upnp' \in UPnPRecords /\ Unasked'
         /\ upnp'.state = "UNINITIALISED" => Unused(upnp')
         /\ ~Collision'
         /\ isRunning(upnp') => router'.state = "CREATED"
         /\ net' # "STOPPED" /\ app' = "idle"
<1>1. CASE NoPort \/ Offline
  BY <1>1 DEF NoPort, Offline, StartWithout, Unasked, Unused, Collision, isRunning, discovery_vars
<1>2. ASSUME NEW config \in RunModes \cup {"disabled"}, Online(config)
      PROVE  /\ upnp' \in UPnPRecords /\ Unasked'
             /\ upnp'.state = "UNINITIALISED" => Unused(upnp')
             /\ ~Collision' /\ router'.state = "CREATED"
             /\ net' # "STOPPED" /\ app' = "idle"
  <2>1. upnp' = upnp \/ upnp' = UPnPStarted(upnp, config)
    BY <1>2 DEF Online
  <2>2. upnp' \in UPnPRecords /\ (upnp'.state = "UNINITIALISED" => Unused(upnp')) /\ upnp'.device # "FINISHED"
    BY <2>1, UPnPStartedFacts DEF Unused
  <2>3. ~Collision'
    BY <2>2 DEF Collision, getPortStatus
  <2>4. Unasked' /\ router'.state = "CREATED"
    BY <1>2 DEF Online, Unasked, Created, NoRouter
  <2> QED
    BY <1>2, <2>2, <2>3, <2>4 DEF Online, Start
<1> QED
  BY <1>1, <1>2

\* The invariant of the gateway, action by action.
LEMMA GatewayFirstStep ==
  ASSUME PumpIsOn, PumpIsOn', GatewayFirst, [NetNext]_net_all
  PROVE  GatewayFirst'
<1>1. ASSUME UNCHANGED <<upnp, ip, nat, asked, router>>, Stopping' => Stopping
      PROVE  GatewayFirst'
  BY <1>1 DEF GatewayFirst, Unasked, Collision
<1>2. CASE NetStart
  <2>1. Stopping /\ stage \in {"between", "late"}
    BY <1>2 DEF NetStart, NoPort, Offline, Online, StartWithout, Start, Stopping, Between
  <2>2. NoPort \/ Offline \/ \E config \in RunModes \cup {"disabled"} : Online(config)
    BY <1>2 DEF NetStart
  <2>3. UNCHANGED stage
    BY <1>2 DEF NetStart
  <2> QED
    BY <2>1, <2>2, <2>3, StartFacts DEF GatewayFirst, Stopping, StopPlaces
<1>3. CASE NetStop \/ CollisionStop
  <2>1. StopRest
    BY <1>3 DEF NetStop, CollisionStop
  <2> QED
    BY <2>1, StopRestFacts DEF GatewayFirst, Unused, isRunning, Collision
<1>4. ASSUME NEW late \in BOOLEAN, PumpGateway(late) PROVE GatewayFirst'
  <2>1. upnp' \in UPnPRecords /\ upnp'.state # "UNINITIALISED"
    BY <1>4, UPnPPumpedFacts DEF PumpGateway, Gateway, GatewayFirst, isRunning
  <2>2. UNCHANGED <<ip, nat, asked, router, net, app>> /\ stage' = "lookup" /\ Between /\ isRunning(upnp)
    BY <1>4 DEF PumpGateway, PumpBegins, vars, net_vars, discovery_vars
  <2>3. ~Stopping
    BY <2>2 DEF GatewayFirst, Unused, isRunning
  <2>4. ~Stopping'
    BY <2>2, <2>3 DEF Stopping
  <2> QED
    BY <2>1, <2>2, <2>4 DEF GatewayFirst, Unasked
<1>5. CASE SkipGateway \/ Look \/ Crash
  <2>1. UNCHANGED <<upnp, ip, nat, asked, router>>
    BY <1>5 DEF SkipGateway, Look, Crash, gateway_vars, discovery_vars
  <2>2. stage' \in {"lookup", "end", "crashed"}
    BY <1>5 DEF SkipGateway, Look, Crash
  <2> QED
    BY <1>1, <2>1, <2>2 DEF PumpIsOn, Stopping
<1>6. CASE CollisionStart
  <2>1. Stopping /\ stage' = "lookup"
    BY <1>6 DEF CollisionStart, Stopping
  <2>2. NoPort \/ \E config \in RunModes \cup {"disabled"} : Online(config)
    BY <1>6 DEF CollisionStart, RunModes
  <2> QED
    BY <2>1, <2>2, StartFacts DEF GatewayFirst, Stopping, StopPlaces
<1>7. CASE Collect
  <2>1. UNCHANGED <<upnp, ip, nat, asked, router, stage, net>> /\ app' \in {app, "advances"}
    BY <1>7 DEF Collect, CopyAddress, gateway_vars, discovery_vars
  <2> QED
    BY <1>1, <2>1 DEF Stopping, StopPlaces
<1>8. CASE Cleared
  BY <1>1, <1>8 DEF Cleared, Stopped, gateway_vars, Stopping, StopPlaces
<1>9. CASE LookupGoesOn
  <2>1. UNCHANGED <<upnp, ip, nat, asked, router, stage>>
    BY <1>9 DEF LookupGoesOn, own_vars, gateway_vars, discovery_vars
  <2>2. net' \in {net, "INIT_FAILED"} /\ (app' \in StopPlaces => app \in StopPlaces)
    BY <1>9 DEF LookupGoesOn, NotYet, Late, Cancel, TimeOut, ReadCount, Advance, Quit, Join,
       NextHost, LastHost, StopPlaces, net_vars
  <2> QED
    BY <1>1, <2>1, <2>2 DEF Stopping
<1>10. ASSUME NEW i \in BOOLEAN, NEW n \in BOOLEAN, PumpEnds(i, n) PROVE GatewayFirst'
  <2>1. UNCHANGED <<upnp, app>> /\ app = "idle" /\ stage' \in {"between", "late"}
    BY <1>10 DEF PumpEnds, AtEnd, gateway_vars
  <2>2. net # "STOPPED" /\ net' \in {net, "ONLINE_FAILED"}
    BY <1>10 DEF PumpEnds, AtEnd, PumpIsOn, Succeed, TryNext
  <2>3. ~Stopping'
    BY <2>1, <2>2 DEF Stopping, StopPlaces
  <2>4. CASE isRunning(upnp) \/ Collision
    <3>1. Unasked /\ ~PortSettled(upnp)
      BY <2>4 DEF GatewayFirst, Collision, PortSettled
    <3>2. UNCHANGED <<ip, nat, asked, router>>
      BY <1>10, <3>1, EndWaitsForGateway
    <3> QED
      BY <2>1, <2>3, <3>2 DEF GatewayFirst, Unasked, Collision
  <2>5. CASE ~isRunning(upnp) /\ ~Collision
    BY <2>1, <2>3, <2>5 DEF GatewayFirst, Collision
  <2> QED
    BY <2>4, <2>5
<1>11. CASE Background
  BY <1>1, <1>11 DEF Background, own_vars, gateway_vars, discovery_vars, Stopping, ThreadStep, Begin, WriteAddress,
     WriteCount, Report, Resolve, net_vars
<1>12. CASE Crashed \/ UNCHANGED net_all
  BY <1>1, <1>12 DEF Crashed, net_all, own_vars, gateway_vars, discovery_vars, vars, net_vars, Stopping
<1> QED
  BY <1>2, <1>3, <1>4, <1>5, <1>6, <1>7, <1>8, <1>9, <1>10, <1>11, <1>12
     DEF NetNext, NetPumpStep, EndStep

\* It holds of a bdNet that has not been started.
LEMMA NetBegins == NetInit => PumpIsOn /\ GatewayFirst
<1> SUFFICES ASSUME NetInit PROVE PumpIsOn /\ GatewayFirst
  OBVIOUS
<1>1. PumpIsOn /\ Unasked
  BY DEF NetInit, PumpIsOn, Unasked, NoIP, NoNAT, Tests
<1>2. NoUPnP \in UPnPRecords
  BY DiscoveryAssumption DEF NoUPnP, UPnPRecords, UPnPStates, DeviceStates, PortStatuses, RunModes
<1>3. upnp = NoUPnP /\ upnp.state = "UNINITIALISED" /\ upnp.device = "UNINITIALISED"
  BY DEF NetInit, NoUPnP
<1> QED
  BY <1>1, <1>2, <1>3 DEF GatewayFirst, Unused, isRunning, Collision

\* A collision of ports never takes from the game a router it already uses.
THEOREM RestartsBeforeRouter == NetSpec => RestartBeforeRouter
<1>1. NetInit => PumpIsOn /\ GatewayFirst
  BY NetBegins
<1>2. PumpIsOn /\ GatewayFirst /\ [NetNext]_net_all => (PumpIsOn /\ GatewayFirst)'
  BY PumpIsOnStep, GatewayFirstStep
<1>3. GatewayFirst /\ [NetNext]_net_all
        => [stage' = "restart" /\ stage # "restart" => router.state = "CREATED" /\ asked = {}]_net_all
  <2> SUFFICES ASSUME GatewayFirst, NetNext, stage' = "restart", stage # "restart"
               PROVE  router.state = "CREATED" /\ asked = {}
    OBVIOUS
  <2>1. CollisionStop
    BY DEF NetNext, NetPumpStep, PumpGateway, SkipGateway, CollisionStart, Look, Collect, Cleared, LookupGoesOn,
       Crash, EndStep, PumpEnds, Background, NetStart, NetStop, Crashed, own_vars, net_all
  <2> QED
    BY <2>1 DEF CollisionStop, GatewayFirst, Unasked
<1> QED
  BY <1>1, <1>2, <1>3, PTL DEF NetSpec, RestartBeforeRouter
-----------------------------------------------------------------------------
\* The clients, one operation at a time.

\* More servers are no loss.
LEMMA MoreServers ==
  ASSUME NEW S, NEW T, S \subseteq T
  PROVE  IPRecords(S) \subseteq IPRecords(T) /\ NATRecords(S) \subseteq NATRecords(T) /\ Requests(S) \subseteq Requests(T)
  BY DEF IPRecords, NATRecords, Requests

\* A client that is not there is one without a server.
LEMMA NoClients ==
  ASSUME NEW S, Nobody \in S
  PROVE  NoIP \in IPRecords(S) /\ NoNAT \in NATRecords(S) /\ DeadNAT \in NATRecords(S)
<1>1. NoIP \in IPRecords(S) /\ NoNAT \in NATRecords(S)
  BY ResendsAssumption DEF NoIP, NoNAT, IPRecords, NATRecords, NATTypes
<1>2. ASSUME NEW n \in NATRecords(S) PROVE [n EXCEPT !.state = "UNINITIALIZED"] \in NATRecords(S)
  BY DEF NATRecords
<1> QED
  BY <1>1, <1>2 DEF DeadNAT

\* An address client that ends keeps its status and its server only.
LEMMA IPEndsFacts ==
  ASSUME NEW S, Nobody \in S, NEW last \in {"SUCCESS", "FAIL", "ERROR"}, NEW server \in S,
         NEW r \in IPEnds(last, server)
  PROVE  r.client \in IPRecords(S) /\ r.client.status = last /\ r.client.server = server /\ r.sent = {}
<1>1. ASSUME NEW n \in IPRecords(S), NEW d, d = [n EXCEPT !.status = last, !.server = server]
      PROVE  d \in IPRecords(S) /\ d.status = last /\ d.server = server
  BY <1>1 DEF IPRecords
<1>2. r.client = [NoIP EXCEPT !.status = last, !.server = server] /\ r.sent = {}
  BY DEF IPEnds, Result
<1> QED
  BY <1>1, <1>2, NoClients

\* A fresh address client runs for the server it was given, or has failed.
LEMMA IPInitFacts ==
  ASSUME NEW S, Nobody \in S, NEW server \in S, NEW r \in IPInit(server)
  PROVE  /\ r.client \in IPRecords(S) /\ r.sent \in SUBSET Requests(S)
         /\ r.client.status \in {"RUNNING", "ERROR"}
         /\ r.client.status = "RUNNING" => r.client.server = server /\ r.sent # {}
<1>1. CASE r = Result([status |-> "RUNNING", server |-> server, retries |-> 0], {<<"ip", server>>})
  <2>1. r.client = [status |-> "RUNNING", server |-> server, retries |-> 0] /\ r.sent = {<<"ip", server>>}
    BY <1>1 DEF Result
  <2> QED
    BY <2>1, ResendsAssumption DEF IPRecords, Requests
<1>2. CASE r \in IPEnds("ERROR", Nobody)
  BY <1>2, IPEndsFacts
<1> QED
  BY <1>1, <1>2 DEF IPInit

\* A pump of the address client only succeeds by the answer to its request.
LEMMA IPPumpFacts ==
  ASSUME NEW S, Nobody \in S, NEW c \in IPRecords(S), NEW p \in Packets(S), NEW late \in BOOLEAN,
         NEW r \in IPPump(c, p, late)
  PROVE  /\ r.client \in IPRecords(S) /\ r.sent \in SUBSET Requests(S)
         /\ c.status # "RUNNING" => r.client = c
         /\ c.status = "RUNNING" => r.client.status # "none"
         /\ c.status = "RUNNING" /\ r.client.status \in {"RUNNING", "SUCCESS"} => r.client.server = c.server
         /\ c.status = "RUNNING" /\ r.client.status = "SUCCESS" => p # NoPacket
<1>1. CASE c.status # "RUNNING"
  <2>1. r = Result(c, {})
    BY <1>1 DEF IPPump
  <2> QED
    BY <1>1, <2>1 DEF Result
<1>2. CASE c.status = "RUNNING" /\ p = <<"ip", c.server>>
  <2>1. r \in IPEnds("SUCCESS", c.server) /\ c.server \in S
    BY <1>2 DEF IPPump, IPRecords
  <2>2. p # NoPacket
    BY <1>2 DEF NoPacket
  <2> QED
    BY <1>2, <2>1, <2>2, IPEndsFacts
<1>3. CASE c.status = "RUNNING" /\ p # <<"ip", c.server>>
  <2> DEFINE again == [c EXCEPT !.retries = @ + 1]
  <2>1. \/ r \in IPEnds("FAIL", Nobody)
        \/ r \in IPEnds("ERROR", Nobody)
        \/ r = Result(c, {})
        \/ ~(c.retries >= Resends) /\ r = Result(again, {<<"ip", c.server>>})
    BY <1>3 DEF IPPump
  <2>2. ~(c.retries >= Resends) => again \in IPRecords(S) /\ again.status = c.status /\ again.server = c.server
    BY ResendsAssumption DEF IPRecords
  <2>3. {<<"ip", c.server>>} \in SUBSET Requests(S)
    BY DEF Requests, IPRecords
  <2> HIDE DEF again
  <2>4. CASE ~(c.retries >= Resends) /\ r = Result(again, {<<"ip", c.server>>})
    BY <1>3, <2>2, <2>3, <2>4 DEF Result
  <2>5. CASE r = Result(c, {})
    BY <1>3, <2>5 DEF Result
  <2>6. CASE r \in IPEnds("FAIL", Nobody) \/ r \in IPEnds("ERROR", Nobody)
    BY <1>3, <2>6, IPEndsFacts
  <2> QED
    BY <2>1, <2>4, <2>5, <2>6
<1> QED
  BY <1>1, <1>2, <1>3

\* A type client that ends keeps its state and its type only.
LEMMA NATEndsFacts ==
  ASSUME NEW S, Nobody \in S, NEW state \in {"FINI", "ERROR"}, NEW type \in NATTypes, NEW r \in NATEnds(state, type)
  PROVE  r.client \in NATRecords(S) /\ r.client.state = state /\ r.client.type = type /\ r.sent = {}
<1>1. ASSUME NEW n \in NATRecords(S), NEW d, d = [n EXCEPT !.state = state, !.type = type]
      PROVE  d \in NATRecords(S) /\ d.state = state /\ d.type = type
  BY <1>1 DEF NATRecords
<1>2. r.client = [NoNAT EXCEPT !.state = state, !.type = type] /\ r.sent = {}
  BY DEF NATEnds, Result
<1> QED
  BY <1>1, <1>2, NoClients

\* What an operation of the type client keeps: an open NAT is only told of when it ends.
NATResult(S, r) ==
  /\ r.client \in NATRecords(S) /\ r.sent \in SUBSET Requests(S)
  /\ r.client.state \in Tests \cup {"FINI", "ERROR"}
  /\ r.client.type = "OPEN" => r.client.state = "FINI"

\* A send goes out or ends the discovery: neither shows an open NAT.
LEMMA SendFacts ==
  ASSUME NEW S, Nobody \in S, NEW c \in NATRecords(S), c.type # "OPEN", c.state \in Tests,
         NEW request \in Requests(S), NEW r \in Send(c, request)
  PROVE  NATResult(S, r) /\ r.client.type # "OPEN"
<1>1. CASE r = Result(c, {request})
  BY <1>1 DEF Result, NATResult
<1>2. CASE r \in NATEnds("ERROR", "UNKNOWN")
  BY <1>2, NATEndsFacts DEF NATResult, NATTypes
<1> QED
  BY <1>1, <1>2 DEF Send

\* A fresh type client has sent the request of test 1, or failed.
LEMMA NATInitFacts ==
  ASSUME NEW S, Nobody \in S, NEW server \in S, NEW r \in NATInit(server)
  PROVE  NATResult(S, r) /\ r.client.type # "OPEN"
<1> DEFINE c == [NoNAT EXCEPT !.state = "RUN_TEST_1", !.server = server]
<1>1. ASSUME NEW n \in NATRecords(S), n.type # "OPEN", NEW d, d = [n EXCEPT !.state = "RUN_TEST_1", !.server = server]
      PROVE  d \in NATRecords(S) /\ d.type # "OPEN" /\ d.state \in Tests
  BY <1>1 DEF NATRecords, Tests
<1>2. c \in NATRecords(S) /\ c.type # "OPEN" /\ c.state \in Tests
  <2>1. NoNAT.type # "OPEN"
    BY DEF NoNAT
  <2> QED
    BY <1>1, <2>1, NoClients
<1>3. <<"test1", server>> \in Requests(S)
  BY DEF Requests
<1>4. r \in Send(c, <<"test1", server>>)
  BY DEF NATInit
<1> HIDE DEF c
<1> QED
  BY <1>2, <1>3, <1>4, SendFacts

\* A reply shows an open NAT only in test 2, and only from elsewhere.
LEMMA HandleResponseFacts ==
  ASSUME NEW S, Nobody \in S, NEW c \in NATRecords(S), c.state \in Tests, c.type # "OPEN",
         NEW reply \in Requests(S), NEW isOpen \in BOOLEAN, NEW r \in handleResponse(c, reply, isOpen)
  PROVE  NATResult(S, r) /\ (r.client.type = "OPEN" => reply[1] = "test2")
<1>1. CASE c.state = "RUN_TEST_1"
  <2> DEFINE d == [c EXCEPT !.state = "RUN_TEST_2", !.second = reply[2], !.resends = 0]
  <2>1. d \in NATRecords(S) /\ d.type # "OPEN" /\ d.state \in Tests
    <3>1. reply[2] \in S /\ 0 \in 0..Resends
      BY ResendsAssumption DEF Requests
    <3> QED
      BY <3>1 DEF NATRecords, Tests
  <2>2. r \in Send(d, <<"test2", c.server>>)
    BY <1>1 DEF handleResponse
  <2>3. <<"test2", c.server>> \in Requests(S)
    BY DEF Requests, NATRecords
  <2> HIDE DEF d
  <2> QED
    BY <2>1, <2>2, <2>3, SendFacts
<1>2. CASE c.state = "RUN_TEST_2" /\ FromElsewhere(c, reply)
  <2>1. r \in NATEnds("FINI", "OPEN") /\ reply[1] = "test2"
    BY <1>2 DEF handleResponse, FromElsewhere
  <2> QED
    BY <2>1, NATEndsFacts DEF NATResult, NATTypes
<1>3. CASE c.state = "RUN_TEST_2" /\ ~FromElsewhere(c, reply)
  <2>1. r = Result(c, {})
    BY <1>3 DEF handleResponse
  <2> QED
    BY <2>1 DEF Result, NATResult
<1>4. CASE c.state = "RUN_TEST_3"
  <2>1. r \in NATEnds("FINI", "MODERATE") \/ r \in NATEnds("FINI", "STRICT")
    BY <1>4 DEF handleResponse
  <2> QED
    BY <2>1, NATEndsFacts DEF NATResult, NATTypes
<1> QED
  BY <1>1, <1>2, <1>3, <1>4 DEF Tests

\* No timer shows an open NAT.
LEMMA PumpActiveTestFacts ==
  ASSUME NEW S, Nobody \in S, NEW c \in NATRecords(S), c.state \in Tests \cup {"FINI", "ERROR"},
         c.type = "OPEN" => c.state = "FINI", NEW r \in pumpActiveTest(c)
  PROVE  NATResult(S, r) /\ (r.client.type = "OPEN" => c.type = "OPEN")
<1>1. CASE c.state \notin Tests
  <2>1. r = Result(c, {})
    BY <1>1 DEF pumpActiveTest, Tests
  <2> QED
    BY <2>1 DEF Result, NATResult
<1>2. CASE c.state \in Tests /\ c.resends + 1 < Resends
  <2>1. Repeated(c) \in NATRecords(S) /\ Repeated(c).type # "OPEN" /\ Repeated(c).state \in Tests
    BY <1>2, ResendsAssumption DEF Repeated, NATRecords, Tests
  <2>2. \E request \in Requests(S) : r \in Send(Repeated(c), request)
    BY <1>2 DEF pumpActiveTest, Tests, Requests, NATRecords
  <2> QED
    BY <2>1, <2>2, SendFacts
<1>3. CASE c.state \in Tests /\ ~(c.resends + 1 < Resends)
  <2> DEFINE d == [c EXCEPT !.state = "RUN_TEST_3", !.resends = 0]
  <2>1. d \in NATRecords(S) /\ d.type # "OPEN" /\ d.state \in Tests
    <3>1. c.type # "OPEN" /\ 0 \in 0..Resends
      BY <1>3, ResendsAssumption DEF Tests
    <3> QED
      BY <3>1 DEF NATRecords, Tests
  <2>2. r \in NATEnds("ERROR", "UNKNOWN") \/ r = Result(d, {}) \/ r \in NATEnds("FINI", "STRICT")
    BY <1>3 DEF pumpActiveTest, Tests
  <2> HIDE DEF d
  <2>3. CASE r = Result(d, {})
    BY <2>1, <2>3 DEF Result, NATResult
  <2>4. CASE r \in NATEnds("ERROR", "UNKNOWN") \/ r \in NATEnds("FINI", "STRICT")
    BY <2>4, NATEndsFacts DEF NATResult, NATTypes
  <2> QED
    BY <2>2, <2>3, <2>4
<1> QED
  BY <1>1, <1>2, <1>3

\* A pump of the type client finds an open NAT only by a reply to test 2.
LEMMA NATPumpFacts ==
  ASSUME NEW S, Nobody \in S, NEW c \in NATRecords(S), c.type = "OPEN" => c.state = "FINI",
         NEW p \in Packets(S), NEW late \in BOOLEAN, NEW isOpen \in BOOLEAN,
         NEW r \in NATPump(c, p, late, isOpen)
  PROVE  /\ r.client \in NATRecords(S) /\ r.sent \in SUBSET Requests(S)
         /\ r.client.type = "OPEN" => r.client.state = "FINI"
         /\ r.client.type = "OPEN" => c.type = "OPEN" \/ p[1] = "test2"
         /\ c.state \notin Tests => r.client = c
         /\ c.state \in Tests => r.client.state # "none"
<1>1. CASE c.state \notin Tests
  <2>1. r = Result(c, {})
    BY <1>1 DEF NATPump
  <2> QED
    BY <1>1, <2>1 DEF Result
<1>2. CASE c.state \in Tests
  <2> DEFINE heard == IF p[1] \in {"test1", "test2", "test3"}
                        THEN handleResponse(c, p, isOpen) ELSE {Result(c, {})}
  <2>1. ASSUME NEW h \in heard
        PROVE  NATResult(S, h) /\ (h.client.type = "OPEN" => p[1] = "test2")
    <3>1. CASE h = Result(c, {})
      BY <1>2, <3>1 DEF Result, NATResult, Tests
    <3>2. CASE p[1] \in {"test1", "test2", "test3"} /\ h \in handleResponse(c, p, isOpen)
      <4>1. p \in Requests(S) /\ c.type # "OPEN"
        BY <1>2, <3>2 DEF Packets, NoPacket, Tests
      <4> QED
        BY <1>2, <3>2, <4>1, HandleResponseFacts
    <3> QED
      BY <2>1, <3>1, <3>2
  <2>2. \/ r \in heard
        \/ \E h \in heard : \E q \in pumpActiveTest(h.client) : r = Result(q.client, q.sent \cup h.sent)
    <3>1. CASE ~late
      BY <1>2, <3>1 DEF NATPump
    <3>2. CASE late
      <4>1. r \in UNION {{Result(q.client, q.sent \cup h.sent) : q \in pumpActiveTest(h.client)} : h \in heard}
        BY <1>2, <3>2, Zenon DEF NATPump
      <4> HIDE DEF heard
      <4> QED
        BY <4>1
    <3> QED
      BY <3>1, <3>2
  <2> HIDE DEF heard
  <2>3. ASSUME NEW h \in heard, NEW q \in pumpActiveTest(h.client), r = Result(q.client, q.sent \cup h.sent)
        PROVE  NATResult(S, r) /\ (r.client.type = "OPEN" => p[1] = "test2")
    <3>1. NATResult(S, h) /\ (h.client.type = "OPEN" => p[1] = "test2")
      BY <2>1
    <3>2. NATResult(S, q) /\ (q.client.type = "OPEN" => h.client.type = "OPEN")
      BY <2>3, <3>1, PumpActiveTestFacts DEF NATResult
    <3>3. r.client = q.client /\ r.sent = q.sent \cup h.sent
      BY <2>3 DEF Result
    <3> QED
      BY <3>1, <3>2, <3>3 DEF NATResult
  <2> QED
    BY <1>2, <2>1, <2>2, <2>3 DEF NATResult, Tests
<1> QED
  BY <1>1, <1>2
-----------------------------------------------------------------------------
\* The router's introducers.

\* A list of all servers, the one at the index first.
ListWith(t) ==
  /\ t \in Seq(found) /\ Len(t) = Len(order) /\ t[1] = order[addr + 1] /\ t # <<>>
  /\ {t[k] : k \in 1..Len(t)} = found

\* Two that change places lose nobody.
LEMMA IntroducersPermute ==
  ASSUME order \in Seq(found), addr \in Nat, addr < Len(order), found = {order[k] : k \in 1..Len(order)}
  PROVE  ListWith(Introducers(order, addr))
<1> DEFINE t == Introducers(order, addr)
<1>1. order \in [1..Len(order) -> found] /\ Len(order) \in Nat /\ 1 \in 1..Len(order) /\ addr + 1 \in 1..Len(order)
  OBVIOUS
<1>2. t = [k \in 1..Len(order) |-> IF k = addr + 1 THEN order[1] ELSE IF k = 1 THEN order[addr + 1] ELSE order[k]]
  BY <1>1 DEF Introducers
<1> HIDE DEF t
<1>3. t \in [1..Len(order) -> found]
  BY <1>1, <1>2
<1>4. t \in Seq(found) /\ Len(t) = Len(order)
  BY ONLY <1>1, <1>3
<1>5. t[1] = order[addr + 1]
  BY <1>1, <1>2
<1>6. t # <<>>
  BY <1>1, <1>4
<1>7. {t[k] : k \in 1..Len(t)} = found
  <2>1. 1..Len(t) = 1..Len(order)
    BY <1>4
  <2>2. ASSUME NEW k \in 1..Len(order) PROVE t[k] \in found
    BY <1>3
  <2>3. ASSUME NEW x \in found PROVE \E j \in 1..Len(order) : x = t[j]
    <3>1. PICK k \in 1..Len(order) : x = order[k]
      OBVIOUS
    <3> QED
      BY <1>1, <1>2, <3>1
  <2> QED
    BY <2>1, <2>2, <2>3
<1> QED
  BY <1>4, <1>5, <1>6, <1>7 DEF t, ListWith

\* The server asked, and the next one, are on the list.
LEMMA OnTheList ==
  ASSUME NEW S, NEW s \in Seq(S), NEW i \in Nat, i = 0 \/ i < Len(s)
  PROVE  /\ s # <<>> => i < Len(s) /\ s[i + 1] \in S
         /\ i + 1 < Len(s) => s # <<>> /\ s[i + 2] \in S /\ i + 1 \in Nat
  OBVIOUS

\* A router that is not there, or just created, has no introducers.
LEMMA NoRouters ==
  ASSUME NEW S, Nobody \in S
  PROVE  /\ NoRouter \in RouterRecords(S) /\ Created \in RouterRecords(S)
         /\ NoRouter.state = "none" /\ Created.state = "CREATED"
         /\ NoRouter.introducers = <<>> /\ Created.introducers = <<>>
<1>1. NoRouter \in RouterRecords(S) /\ NoRouter.state = "none" /\ NoRouter.introducers = <<>>
  BY DEF NoRouter, RouterRecords, NATTypes
<1>2. ASSUME NEW r \in RouterRecords(S), NEW c, c = [r EXCEPT !.state = "CREATED"]
      PROVE  c \in RouterRecords(S) /\ c.state = "CREATED" /\ c.introducers = r.introducers
  BY <1>2 DEF RouterRecords
<1> QED
  BY <1>1, <1>2 DEF Created
-----------------------------------------------------------------------------
\* The end of a pump.

\* What it keeps of the two clients and the requests, whatever state it has
\* brought them to.
Good(c, isOpen) ==
  /\ c.ip \in IPRecords(found \cup {Nobody}) /\ c.nat \in NATRecords(found \cup {Nobody})
  /\ c.asked \in SUBSET Requests(found \cup {Nobody}) /\ asked \subseteq c.asked
  /\ c.nat.type = "OPEN" => c.nat.state = "FINI" /\ isOpen
  /\ c.ip.status \in {"RUNNING", "SUCCESS"} => order # <<>> /\ c.ip.server = order[addr + 1]
  /\ c.ip.status = "SUCCESS" => c.asked # {}
  /\ object => c.ip = NoIP /\ c.nat \in {NoNAT, DeadNAT}
  /\ c.nat.state = "none" => c.nat = NoNAT

\* A fresh pair of clients is for the server it was made for.
LEMMA ClientsFacts ==
  ASSUME NEW S, Nobody \in S, NEW server \in S, NEW sent \in SUBSET Requests(S), NEW c \in Clients(server, sent)
  PROVE  /\ c.ip \in IPRecords(S) /\ c.nat \in NATRecords(S) /\ c.asked \in SUBSET Requests(S) /\ sent \subseteq c.asked
         /\ c.nat.type # "OPEN" /\ c.nat.state # "none"
         /\ c.ip.status \in {"RUNNING", "ERROR"} /\ (c.ip.status = "RUNNING" => c.ip.server = server)
<1>1. PICK i \in IPInit(server), n \in NATInit(server) :
        c = [ip |-> i.client, nat |-> n.client, asked |-> sent \cup i.sent \cup n.sent]
  BY DEF Clients
<1> QED
  BY <1>1, IPInitFacts, NATInitFacts DEF NATResult, Tests

\* The beginning of the discovery keeps the part.
LEMMA BegunIsGood ==
  ASSUME DiscoveryInv, NEW isOpen \in BOOLEAN, (Discovers /\ asked = {}) \/ isOpen = open, NEW b \in Begun
  PROVE  Good(b, isOpen)
<1> USE DEF DiscoveryInv, DiscoveryTypes, OrderKept, ServersKept, OpenKept, OpenIsTrue
<1>1. CASE Discovers /\ order # <<>>
  <2>1. b \in Clients(order[addr + 1], asked) /\ ~object
    BY <1>1 DEF Begun, Discovers
  <2>2. order[addr + 1] \in found
    BY <1>1
  <2> DEFINE S == found \cup {Nobody}
  <2>3. Nobody \in S /\ order[addr + 1] \in S /\ asked \in SUBSET Requests(S)
    BY <2>2
  <2> HIDE DEF S
  <2>4. /\ b.ip \in IPRecords(S) /\ b.nat \in NATRecords(S) /\ b.asked \in SUBSET Requests(S) /\ asked \subseteq b.asked
        /\ b.nat.type # "OPEN" /\ b.nat.state # "none" /\ b.ip.status \in {"RUNNING", "ERROR"}
        /\ b.ip.status = "RUNNING" => b.ip.server = order[addr + 1]
    BY <2>1, <2>3, ClientsFacts
  <2> QED
    BY <1>1, <2>1, <2>4 DEF Good, S
<1>2. CASE ~(Discovers /\ order # <<>>)
  <2>1. b = [ip |-> ip, nat |-> nat, asked |-> asked]
    BY <1>2 DEF Begun
  <2>2. nat.type = "OPEN" => isOpen
    BY DEF Discovers
  <2> QED
    BY <2>1, <2>2 DEF Good
<1> QED
  BY <1>1, <1>2

\* So do one datagram and the two timers.
LEMMA PumpedIsGood ==
  ASSUME NEW isOpen \in BOOLEAN, NEW b, Good(b, isOpen), NEW i \in BOOLEAN, NEW n \in BOOLEAN,
         NEW c \in Pumped(b, isOpen, i, n)
  PROVE  Good(c, isOpen)
<1> DEFINE S == found \cup {Nobody}
<1>0. PICK p \in Replies(b.asked, isOpen) :
        c \in {[ip |-> x.client, nat |-> y.client, asked |-> b.asked \cup x.sent \cup y.sent] :
                x \in IPPump(b.ip, p, i), y \in NATPump(b.nat, p, n, isOpen)}
  BY DEF Pumped
<1>1. PICK x \in IPPump(b.ip, p, i), y \in NATPump(b.nat, p, n, isOpen) :
        c = [ip |-> x.client, nat |-> y.client, asked |-> b.asked \cup x.sent \cup y.sent]
  BY <1>0
<1>2. /\ b.ip \in IPRecords(S) /\ b.nat \in NATRecords(S) /\ Nobody \in S /\ b.asked \in SUBSET Requests(S)
      /\ b.nat.type = "OPEN" => b.nat.state = "FINI" /\ isOpen
  BY DEF Good
<1>3. p \in Packets(S) /\ (p # NoPacket => b.asked # {}) /\ (p[1] = "test2" => isOpen)
  BY <1>2 DEF Replies, Packets, NoPacket
<1>4. c.ip = x.client /\ c.nat = y.client /\ c.asked = b.asked \cup x.sent \cup y.sent
  BY <1>1
<1> HIDE DEF S
<1>5. /\ x.client \in IPRecords(S) /\ x.sent \in SUBSET Requests(S)
      /\ b.ip.status # "RUNNING" => x.client = b.ip
      /\ b.ip.status = "RUNNING" /\ x.client.status \in {"RUNNING", "SUCCESS"} => x.client.server = b.ip.server
      /\ b.ip.status = "RUNNING" /\ x.client.status = "SUCCESS" => p # NoPacket
  BY <1>2, <1>3, IPPumpFacts
<1>6. /\ y.client \in NATRecords(S) /\ y.sent \in SUBSET Requests(S)
      /\ y.client.type = "OPEN" => y.client.state = "FINI"
      /\ y.client.type = "OPEN" => b.nat.type = "OPEN" \/ p[1] = "test2"
      /\ b.nat.state \notin Tests => y.client = b.nat
      /\ b.nat.state \in Tests => y.client.state # "none"
  BY <1>2, <1>3, NATPumpFacts
<1>7. c.ip \in IPRecords(S) /\ c.nat \in NATRecords(S) /\ c.asked \in SUBSET Requests(S) /\ asked \subseteq c.asked
  BY <1>2, <1>4, <1>5, <1>6 DEF Good
<1>8. c.nat.type = "OPEN" => c.nat.state = "FINI" /\ isOpen
  BY <1>2, <1>3, <1>4, <1>6
<1>9. c.ip.status \in {"RUNNING", "SUCCESS"} => order # <<>> /\ c.ip.server = order[addr + 1]
  BY <1>4, <1>5 DEF Good
<1>10. c.ip.status = "SUCCESS" => c.asked # {}
  BY <1>3, <1>4, <1>5 DEF Good
<1>11. object => c.ip = NoIP /\ c.nat \in {NoNAT, DeadNAT}
  BY <1>4, <1>5, <1>6 DEF Good, NoIP, NoNAT, DeadNAT, Tests
<1>12. c.nat.state = "none" => c.nat = NoNAT
  BY <1>4, <1>6 DEF Good
<1> QED
  BY <1>7, <1>8, <1>9, <1>10, <1>11, <1>12 DEF Good, S

\* Whatever a pump ends with, it keeps the clients' and the router's part.
LEMMA EndKeepsDiscovery ==
  ASSUME DiscoveryInv, PumpIsOn, NEW i \in BOOLEAN, NEW n \in BOOLEAN, PumpEnds(i, n)
  PROVE  DiscoveryInv'
<1> DEFINE S == found \cup {Nobody}
<1>1. /\ UNCHANGED <<object, found, app, order>>
      /\ app = "idle" /\ net # "STOPPED" /\ net # "DONE" /\ stage' \in {"between", "late"}
  BY DEF PumpEnds, AtEnd, PumpIsOn, object_vars
<1>2. open' \in IF Discovers /\ asked = {} THEN BOOLEAN ELSE {open}
  BY DEF PumpEnds
<1>3. open' \in BOOLEAN
  BY <1>2 DEF DiscoveryInv, DiscoveryTypes
<1> DEFINE listed == /\ order \in Seq(found) /\ found = {order[k] : k \in 1..Len(order)}
                     /\ addr \in Nat /\ (addr = 0 \/ addr < Len(order))
<1>0. listed /\ router \in RouterRecords(S) /\ IntroducersKeepAll
  BY DEF DiscoveryInv, DiscoveryTypes, OrderKept, ServersKept
<1>4. PICK b \in Begun : \E c \in Pumped(b, open', i, n) :
        LET broken == Discovers /\ (order = <<>> \/ b.ip.status = "ERROR")
        IN \/ ~Decided(c) /\ Keep(c) /\ net' = IF broken THEN "ONLINE_FAILED" ELSE net
           \/ Decided(c) /\ Success(c) /\ Succeed(c)
           \/ Decided(c) /\ ~Success(c) /\ TryNext(c, broken)
           \/ Decided(c) /\ ~Success(c) /\ ~HasNext(addr, order) /\ Keep(c) /\ net' = "ONLINE_FAILED"
  BY DEF PumpEnds
<1>5. PICK c \in Pumped(b, open', i, n) :
        \/ Keep(c) /\ net' \in {net, "ONLINE_FAILED"}
        \/ Decided(c) /\ Success(c) /\ Succeed(c)
        \/ Decided(c) /\ \E broken \in BOOLEAN : TryNext(c, broken)
  BY <1>4
<1>6. Good(c, open')
  BY <1>1, <1>2, <1>3, <1>5, BegunIsGood, PumpedIsGood
<1>7. /\ c.ip \in IPRecords(S) /\ c.nat \in NATRecords(S)
      /\ c.asked \in SUBSET Requests(S) /\ asked \subseteq c.asked /\ Nobody \in S
      /\ c.nat.type = "OPEN" => c.nat.state = "FINI" /\ open'
      /\ c.ip.status \in {"RUNNING", "SUCCESS"} => order # <<>> /\ c.ip.server = order[addr + 1]
      /\ c.ip.status = "SUCCESS" => c.asked # {}
      /\ object => c.ip = NoIP /\ c.nat \in {NoNAT, DeadNAT}
      /\ c.nat.state = "none" => c.nat = NoNAT
  BY <1>6 DEF Good
<1>8. net' # "STOPPED" /\ ~Stopping'
  <2>1. net' \in {net, "ONLINE_FAILED"}
    BY <1>5 DEF Succeed, TryNext
  <2> QED
    BY <1>1, <2>1 DEF Stopping, StopPlaces
<1>9. router.introducers # <<>> => open' = open
  BY <1>2 DEF DiscoveryInv, OpenKept
<1>10. router.introducers # <<>> /\ router.type = "OPEN" => open'
  BY <1>9 DEF DiscoveryInv, OpenKept, OpenIsTrue
<1>11. ~(router.state = "INITIALIZED" /\ router.introducers = <<>>)
  BY <1>1 DEF DiscoveryInv, OpenKept
<1>15. object => router \in {NoRouter, Created}
  BY DEF DiscoveryInv, ServersKept
<1>16. router.introducers # <<>> => asked # {}
  BY DEF DiscoveryInv, OpenKept
<1> USE DEF DiscoveryInv
<1>12. CASE Keep(c)
  <2>1. ip' = c.ip /\ nat' = c.nat /\ asked' = c.asked /\ addr' = addr /\ router' = router
    BY <1>12 DEF Keep
  <2>2. DiscoveryTypes' /\ OrderKept'
    BY <1>0, <1>1, <1>3, <1>7, <2>1 DEF DiscoveryTypes, OrderKept
  <2>3. ServersKept'
    BY <1>0, <1>1, <1>7, <1>8, <1>15, <2>1 DEF IntroducersKeepAll, ServersKept
  <2>4. OpenKept'
    BY <1>1, <1>7, <1>10, <1>11, <1>16, <2>1 DEF OpenIsTrue, OpenKept
  <2> QED
    BY <2>2, <2>3, <2>4
<1>13. CASE Decided(c) /\ Success(c) /\ Succeed(c)
  <2>1. ip' = NoIP /\ nat' = NoNAT /\ asked' = c.asked /\ addr' = addr /\ net' = net
    BY <1>13 DEF Succeed
  <2>2. c.ip.status = "SUCCESS" /\ c.ip.server = order[addr + 1] /\ order # <<>> /\ c.asked # {} /\ ~object
    BY <1>7, <1>13 DEF Success, NoIP
  <2>3. addr < Len(order) /\ order[addr + 1] \in found
    BY <1>0, <2>2, OnTheList
  <2> DEFINE s == Introducers(order, addr)
  <2>4. /\ s \in Seq(found) /\ Len(s) = Len(order) /\ s[1] = order[addr + 1]
        /\ {s[k] : k \in 1..Len(s)} = found /\ s # <<>>
    <3>1. order \in Seq(found) /\ addr \in Nat /\ addr < Len(order) /\ found = {order[k] : k \in 1..Len(order)}
      BY <1>0, <2>3
    <3>2. ListWith(s)
      BY <3>1, IntroducersPermute
    <3> HIDE DEF s, listed
    <3> QED
      BY <3>2 DEF ListWith
  <2> HIDE DEF s
  <2>5. c.nat.type \in NATTypes /\ (c.nat.type = "OPEN" => open')
    BY <1>7 DEF NATRecords
  <2> DEFINE initialized == [router EXCEPT !.state = "INITIALIZED", !.type = c.nat.type]
  <2>6. PICK r \in IF router.state = "CREATED" THEN {initialized, [router EXCEPT !.state = "ERROR"]} ELSE {router} :
          router' = IF r.state = "INITIALIZED" THEN [r EXCEPT !.introducers = s, !.answered = c.ip.server] ELSE r
    BY <1>13 DEF Succeed, Routers, s
  <2>7. /\ r \in RouterRecords(S)
        /\ r.introducers = router.introducers /\ r.answered = router.answered
        /\ r.state = "INITIALIZED" /\ r.type = "OPEN" => open'
        /\ r.introducers # <<>> /\ r.type = "OPEN" => open'
    <3>1. CASE router.state # "CREATED"
      BY <1>0, <1>10, <1>11, <2>6, <3>1
    <3>2. CASE r = initialized
      BY <1>0, <2>5, <3>2 DEF RouterRecords
    <3>3. CASE r = [router EXCEPT !.state = "ERROR"]
      BY <1>0, <1>10, <3>3 DEF RouterRecords
    <3> HIDE DEF initialized
    <3> QED
      BY <2>6, <3>1, <3>2, <3>3
  <2> HIDE DEF initialized
  <2>8. DiscoveryTypes' /\ OrderKept'
    <3>1. router' \in RouterRecords(S)
      <4>1. s \in Seq(S) /\ c.ip.server \in S
        BY <2>2, <2>3, <2>4
      <4>2. CASE r.state # "INITIALIZED"
        BY <2>6, <2>7, <4>2
      <4>3. CASE router' = [r EXCEPT !.introducers = s, !.answered = c.ip.server]
        BY <2>7, <4>1, <4>3 DEF RouterRecords
      <4> QED
        BY <2>6, <4>2, <4>3
    <3>2. ip' \in IPRecords(S) /\ nat' \in NATRecords(S)
      BY <1>7, <2>1, NoClients
    <3> QED
      BY <1>0, <1>1, <1>3, <1>7, <2>1, <3>1, <3>2 DEF DiscoveryTypes, OrderKept
  <2>9. ServersKept'
    <3>1. CASE r.state = "INITIALIZED"
      <4>1. router'.introducers = s /\ router'.answered = order[addr + 1]
        BY <2>2, <2>6, <2>7, <3>1 DEF RouterRecords
      <4> QED
        BY <1>1, <1>8, <2>1, <2>2, <2>4, <4>1 DEF IntroducersKeepAll, NoIP, ServersKept
    <3>2. CASE r.state # "INITIALIZED"
      BY <1>0, <1>1, <1>8, <2>1, <2>2, <2>6, <2>7, <3>2 DEF IntroducersKeepAll, NoIP, ServersKept
    <3> QED
      BY <3>1, <3>2
  <2>10. OpenKept'
    <3>1. CASE r.state = "INITIALIZED"
      <4>1. router'.introducers = s /\ router'.type = r.type /\ router'.state = "INITIALIZED"
        BY <2>6, <2>7, <3>1 DEF RouterRecords
      <4> QED
        BY <2>1, <2>2, <2>4, <2>7, <3>1, <4>1 DEF OpenIsTrue, NoIP, NoNAT, OpenKept
    <3>2. CASE r.state # "INITIALIZED"
      BY <2>1, <2>2, <2>6, <2>7, <3>2 DEF OpenIsTrue, NoIP, NoNAT, OpenKept
    <3> QED
      BY <3>1, <3>2
  <2> QED
    BY <2>8, <2>9, <2>10
<1>14. ASSUME Decided(c), NEW broken \in BOOLEAN, TryNext(c, broken) PROVE DiscoveryInv'
  <2>1. addr + 1 < Len(order) /\ addr' = addr + 1 /\ router' = router
    BY <1>14 DEF TryNext, HasNext
  <2>2. PICK fresh \in Clients(order[addr + 2], c.asked) : ip' = fresh.ip /\ nat' = fresh.nat /\ asked' = fresh.asked
    BY <1>14 DEF TryNext
  <2>3. order[addr + 2] \in S /\ order # <<>> /\ addr + 1 \in Nat /\ (addr + 1) + 1 = addr + 2
    BY <1>0, <2>1, OnTheList
  <2>4. /\ fresh.ip \in IPRecords(S) /\ fresh.nat \in NATRecords(S)
        /\ fresh.asked \in SUBSET Requests(S) /\ c.asked \subseteq fresh.asked
        /\ fresh.nat.type # "OPEN" /\ fresh.nat.state # "none"
        /\ fresh.ip.status \in {"RUNNING", "ERROR"} /\ (fresh.ip.status = "RUNNING" => fresh.ip.server = order[addr + 2])
    <3> HIDE DEF S
    <3> QED
      BY <1>7, <2>2, <2>3, ClientsFacts
  <2>5. ~object
    BY <1>7, <1>14 DEF Decided, NoIP
  <2>6. DiscoveryTypes' /\ OrderKept'
    BY <1>0, <1>1, <1>3, <2>1, <2>2, <2>3, <2>4 DEF DiscoveryTypes, OrderKept
  <2>7. ServersKept'
    <3>1. ip'.status \in {"RUNNING", "SUCCESS"} => order' # <<>> /\ ip'.server = order'[addr' + 1]
      BY <1>1, <2>1, <2>2, <2>3, <2>4
    <3>2. IntroducersKeepAll'
      BY <1>0, <1>1, <2>1 DEF IntroducersKeepAll
    <3> QED
      BY <1>1, <1>8, <2>5, <3>1, <3>2 DEF ServersKept
  <2>8. OpenKept'
    BY <1>7, <1>10, <1>11, <1>16, <2>1, <2>2, <2>4 DEF OpenIsTrue, OpenKept
  <2> QED
    BY <2>6, <2>7, <2>8
<1> QED
  BY <1>5, <1>12, <1>13, <1>14

\* A start begins with no client and with a router that has no introducers.
LEMMA StartKeepsDiscovery ==
  ASSUME DiscoveryInv, Stopping, PlacesKept, stage' # "restart", UNCHANGED <<order, open>>,
         NoPort \/ Offline \/ \E config \in RunModes \cup {"disabled"} : Online(config)
  PROVE  DiscoveryInv'
<1> DEFINE S == found \cup {Nobody}
<1>1. /\ ip = NoIP /\ nat \in {NoNAT, DeadNAT} /\ router \in {NoRouter, Created}
      /\ ip \in IPRecords(S) /\ nat \in NATRecords(S) /\ asked \in SUBSET Requests(S)
      /\ OrderKept /\ open \in BOOLEAN /\ (nat.type = "OPEN" => nat.state = "FINI") /\ (nat.state = "none" => nat = NoNAT)
  BY DEF DiscoveryInv, DiscoveryTypes, ServersKept, OpenKept
<1>2. nat.type # "OPEN" /\ ip.status = "none"
  BY <1>1 DEF NoIP, NoNAT, DeadNAT
<1>3. /\ UNCHANGED <<ip, nat, asked, found, order, open>> /\ ~Stopping' /\ addr' \in {0, addr}
  BY DEF NoPort, Offline, Online, StartWithout, Start, discovery_vars, Stopping, StopPlaces
<1>4. /\ router' \in RouterRecords(S) /\ router'.introducers = <<>>
      /\ router'.state = "INITIALIZED" => net' = "DONE"
      /\ object' => router' \in {NoRouter, Created}
  <2>1. CASE NoPort
    BY <1>1, <2>1, NoRouters DEF NoPort
  <2>2. CASE Offline
    <3>1. ~object'
      BY <2>2 DEF Offline, StartWithout, PlacesKept, object_vars
    <3>2. ASSUME NEW r \in RouterRecords(S), r.introducers = <<>>
          PROVE  /\ [r EXCEPT !.state = "INITIALIZED", !.type = "OPEN"] \in RouterRecords(S)
                 /\ [r EXCEPT !.state = "INITIALIZED", !.type = "OPEN"].introducers = <<>>
      BY <3>2 DEF RouterRecords, NATTypes
    <3>3. ASSUME NEW r \in RouterRecords(S), r.introducers = <<>>
          PROVE  [r EXCEPT !.state = "ERROR"] \in RouterRecords(S) /\ [r EXCEPT !.state = "ERROR"].introducers = <<>>
      BY <3>3 DEF RouterRecords
    <3>4. Created \in RouterRecords(S) /\ Created.introducers = <<>>
      BY NoRouters
    <3>5. router' \in {Created, [Created EXCEPT !.state = "INITIALIZED", !.type = "OPEN"], [Created EXCEPT !.state = "ERROR"]}
          /\ net' = "DONE"
      BY <2>2 DEF Offline
    <3> QED
      BY <3>1, <3>2, <3>3, <3>4, <3>5
  <2>3. CASE \E config \in RunModes \cup {"disabled"} : Online(config)
    BY <2>3, NoRouters DEF Online
  <2> QED
    BY <2>1, <2>2, <2>3
<1>5. DiscoveryTypes' /\ OrderKept'
  BY <1>1, <1>3, <1>4 DEF DiscoveryTypes, OrderKept
<1>6. ServersKept'
  BY <1>1, <1>2, <1>3, <1>4 DEF ServersKept, IntroducersKeepAll
<1>7. OpenKept'
  BY <1>1, <1>2, <1>3, <1>4 DEF OpenKept, OpenIsTrue
<1> QED
  BY <1>5, <1>6, <1>7 DEF DiscoveryInv

\* An address that is collected is added to the list.
LEMMA CollectKeepsDiscovery ==
  ASSUME DiscoveryInv, PlacesKept, Collect
  PROVE  DiscoveryInv'
<1> DEFINE S == found \cup {Nobody}
           T == found' \cup {Nobody}
<1>1. object
  BY DEF Collect, CopyAddress, PlacesKept, Pumping
<1>2. /\ UNCHANGED <<ip, nat, asked, router, addr, open, object, net, stage>> /\ app' \in {app, "advances"}
      /\ order' = IF found' = found THEN order ELSE Append(order, addresses[copied])
      /\ found' \in {found, found \cup {addresses[copied]}}
  BY DEF Collect, CopyAddress, discovery_vars, object_vars
<1>3. S \subseteq T
  BY <1>2
<1>4. DiscoveryTypes'
  BY <1>1, <1>2, <1>3, MoreServers, NoRouters DEF DiscoveryInv, DiscoveryTypes, ServersKept
<1>5. OrderKept'
  <2>1. OrderKept
    BY DEF DiscoveryInv
  <2>2. CASE found' = found
    BY <1>2, <2>1, <2>2 DEF OrderKept
  <2>3. CASE found' # found
    <3> DEFINE a == addresses[copied]
    <3>1. found' = found \cup {a} /\ order' = Append(order, a)
      BY <1>2, <2>3
    <3> HIDE DEF a
    <3>2. order \in Seq(found') /\ a \in found'
      BY <2>1, <3>1 DEF OrderKept
    <3>3. /\ order' \in Seq(found') /\ Len(order') = Len(order) + 1 /\ Len(order) \in Nat
          /\ order'[Len(order) + 1] = a /\ \A k \in 1..Len(order) : order'[k] = order[k]
      BY <3>1, <3>2
    <3>4. found' = {order'[k] : k \in 1..Len(order')}
      <4>1. ASSUME NEW k \in 1..Len(order') PROVE order'[k] \in found'
        BY <3>3
      <4>2. ASSUME NEW x \in found' PROVE \E k \in 1..Len(order') : x = order'[k]
        <5>1. CASE x = a
          BY <3>3, <5>1
        <5>2. CASE x \in found
          <6>1. PICK k \in 1..Len(order) : x = order[k]
            BY <2>1, <5>2 DEF OrderKept
          <6> QED
            BY <3>3, <6>1
        <5> QED
          BY <3>1, <5>1, <5>2
      <4> QED
        BY <4>1, <4>2
    <3>5. addr' \in Nat /\ (addr' = 0 \/ addr' < Len(order'))
      BY <1>2, <2>1, <3>3 DEF OrderKept
    <3> QED
      BY <3>3, <3>4, <3>5 DEF OrderKept
  <2> QED
    BY <2>2, <2>3
<1>6. ip = NoIP /\ router \in {NoRouter, Created} /\ nat \in {NoNAT, DeadNAT} /\ router.introducers = <<>>
  BY <1>1, NoRouters DEF DiscoveryInv, ServersKept
<1>7. ServersKept'
  BY <1>2, <1>6 DEF ServersKept, IntroducersKeepAll, NoIP
<1>8. OpenKept'
  BY <1>2 DEF DiscoveryInv, OpenKept, OpenIsTrue
<1> QED
  BY <1>4, <1>5, <1>7, <1>8 DEF DiscoveryInv

\* The invariant of the clients and the router, action by action.
LEMMA DiscoveryInvStep ==
  ASSUME PumpIsOn, PumpIsOn', PlacesKept, GatewayFirst, DiscoveryInv, [NetNext]_net_all
  PROVE  DiscoveryInv'
<1>1. ASSUME UNCHANGED <<ip, nat, asked, router, order, addr, found, open>>,
             object' \/ Stopping' => object \/ Stopping,
             net' = net \/ object
      PROVE  DiscoveryInv'
  <2>1. object => router.state # "INITIALIZED"
    BY NoRouters DEF DiscoveryInv, ServersKept
  <2> QED
    BY <1>1, <2>1 DEF DiscoveryInv, DiscoveryTypes, OrderKept, ServersKept, OpenKept, OpenIsTrue, IntroducersKeepAll
<1>2. CASE NetStart
  <2>1. /\ Stopping /\ stage' # "restart" /\ UNCHANGED <<order, open>>
        /\ NoPort \/ Offline \/ \E config \in RunModes \cup {"disabled"} : Online(config)
    BY <1>2 DEF NetStart, NoPort, Offline, Online, StartWithout, Start, Stopping, Between
  <2> QED
    BY <2>1, StartKeepsDiscovery
<1>3. CASE NetStop \/ CollisionStop
  <2>1. /\ ip' = NoIP /\ nat' \in {NoNAT, DeadNAT} /\ router' = NoRouter /\ asked' = {} /\ open' = FALSE
        /\ UNCHANGED <<order, addr, found>>
    BY <1>3 DEF NetStop, CollisionStop, StopRest, Stop, net_vars, DiscoveryInv, OpenKept
  <2>2. NoIP.status = "none" /\ nat'.type = "UNKNOWN" /\ (nat'.state = "none" => nat' = NoNAT)
    BY <2>1 DEF NoIP, NoNAT, DeadNAT
  <2>3. DiscoveryTypes' /\ OrderKept'
    BY <2>1, NoClients, NoRouters DEF DiscoveryInv, DiscoveryTypes, OrderKept
  <2>4. ServersKept' /\ OpenKept'
    BY <2>1, <2>2, NoRouters DEF ServersKept, OpenKept, OpenIsTrue, IntroducersKeepAll
  <2> QED
    BY <2>3, <2>4 DEF DiscoveryInv
<1>4. ASSUME NEW late \in BOOLEAN, PumpGateway(late) PROVE DiscoveryInv'
  BY <1>1, <1>4 DEF PumpGateway, vars, object_vars, net_vars, discovery_vars, Stopping
<1>5. CASE SkipGateway \/ Crash
  BY <1>1, <1>5 DEF SkipGateway, Crash, vars, object_vars, net_vars, discovery_vars, Stopping
<1>6. CASE CollisionStart
  <2>1. /\ Stopping /\ stage' # "restart" /\ UNCHANGED <<order, open>>
        /\ NoPort \/ Offline \/ \E config \in RunModes \cup {"disabled"} : Online(config)
    BY <1>6 DEF CollisionStart, Stopping, RunModes
  <2> QED
    BY <2>1, StartKeepsDiscovery
<1>7. CASE Collect
  BY <1>7, CollectKeepsDiscovery
<1>8. CASE Cleared
  <2>1. Stopping /\ net' = "STOPPED" /\ ~object'
    BY <1>8 DEF Cleared, Stopped, Stopping, StopPlaces, Free
  <2>2. ip = NoIP /\ nat \in {NoNAT, DeadNAT} /\ router \in {NoRouter, Created} /\ asked = {}
    BY <2>1 DEF DiscoveryInv, ServersKept, GatewayFirst, Unasked
  <2>3. /\ UNCHANGED <<ip, nat, router, asked, open>> /\ found' = {} /\ order' = <<>> /\ addr' = 0
    BY <1>8 DEF Cleared, Stopped
  <2>4. DiscoveryTypes' /\ OrderKept'
    BY <2>2, <2>3, NoClients, NoRouters DEF DiscoveryInv, DiscoveryTypes, OrderKept
  <2>5. NoIP.status = "none" /\ nat.type = "UNKNOWN" /\ (nat.state = "none" => nat = NoNAT)
    BY <2>2 DEF NoIP, NoNAT, DeadNAT
  <2>6. ServersKept' /\ OpenKept'
    BY <2>2, <2>3, <2>5, NoRouters DEF ServersKept, OpenKept, OpenIsTrue, IntroducersKeepAll
  <2> QED
    BY <2>4, <2>6 DEF DiscoveryInv
<1>9. CASE LookupGoesOn
  <2>1. UNCHANGED <<ip, nat, asked, router, order, addr, open, stage, found>>
    BY <1>9 DEF LookupGoesOn, own_vars, discovery_vars, NotYet, Late, Cancel, TimeOut, ReadCount, Advance, Quit, Join,
       NextHost, LastHost, net_vars
  <2>2. (net' = net \/ object) /\ (net' = net \/ net' = "INIT_FAILED") /\ (app' \in StopPlaces => app \in StopPlaces)
    BY <1>9 DEF LookupGoesOn, NotYet, Late, Cancel, TimeOut, ReadCount, Advance, Quit, Join, NextHost, LastHost,
       net_vars, StopPlaces, PlacesKept
  <2>3. object' => object
    BY <1>9 DEF LookupGoesOn, NotYet, Late, Cancel, TimeOut, ReadCount, Advance, Quit, Join, NextHost, LastHost,
       object_vars, Free
  <2> QED
    BY <1>1, <2>1, <2>2, <2>3 DEF Stopping
<1>10. CASE Look
  <2>1. UNCHANGED <<ip, nat, asked, router, order, addr, open, found, object, net>>
    BY <1>10 DEF Look, ReadStatus, discovery_vars, net_vars, object_vars
  <2>2. stage' = "end"
    BY <1>10 DEF Look
  <2> QED
    BY <1>1, <2>1, <2>2 DEF Stopping, PumpIsOn
<1>11. CASE EndStep
  BY <1>11, EndKeepsDiscovery DEF EndStep
<1>12. CASE Background
  BY <1>1, <1>12 DEF Background, own_vars, discovery_vars, Stopping, ThreadStep, Begin, WriteAddress, WriteCount,
     Report, Resolve, net_vars, object_vars
<1>13. CASE Crashed \/ UNCHANGED net_all
  BY <1>1, <1>13 DEF Crashed, net_all, own_vars, discovery_vars, vars, net_vars, object_vars, Stopping
<1> QED
  BY <1>2, <1>3, <1>4, <1>5, <1>6, <1>7, <1>8, <1>9, <1>10, <1>11, <1>12, <1>13 DEF NetNext, NetPumpStep

\* The invariant of bdNet whole.
NetInv == LookupInv /\ PumpIsOn /\ GatewayFirst /\ DiscoveryInv

\* What the theorems below are parts of: it is inductive given the lookups'.
THEOREM NetInvHolds == NetSpec => []NetInv
<1>1. NetInit => DiscoveryInv
  <2> SUFFICES ASSUME NetInit PROVE DiscoveryInv
    OBVIOUS
  <2>1. /\ ip = NoIP /\ nat = NoNAT /\ router = NoRouter /\ asked = {} /\ found = {} /\ order = <<>> /\ addr = 0
        /\ open = FALSE
    BY DEF NetInit, LookupInit
  <2>2. NoIP.status = "none" /\ NoNAT.type = "UNKNOWN"
    BY DEF NoIP, NoNAT
  <2>3. DiscoveryTypes
    BY <2>1, NoClients, NoRouters DEF DiscoveryTypes
  <2>4. OrderKept
    BY <2>1 DEF OrderKept
  <2>5. ServersKept /\ OpenKept
    BY <2>1, <2>2, NoRouters DEF ServersKept, OpenKept, OpenIsTrue, IntroducersKeepAll
  <2> QED
    BY <2>3, <2>4, <2>5 DEF DiscoveryInv
<1>2. PumpIsOn /\ PumpIsOn' /\ LookupInv /\ GatewayFirst /\ DiscoveryInv /\ [NetNext]_net_all => DiscoveryInv'
  BY DiscoveryInvStep DEF LookupInv
<1>3. NetSpec => []LookupInv
  BY NetImplementsLookup, LookupInvHolds, PTL
<1>4. PumpIsOn /\ GatewayFirst /\ [NetNext]_net_all => (PumpIsOn /\ GatewayFirst)'
  BY PumpIsOnStep, GatewayFirstStep
<1> QED
  BY <1>1, <1>2, <1>3, <1>4, NetBegins, PTL DEF NetSpec, NetInv

\* A game is only told that its NAT is open when it is.
THEOREM OpenIsTrueHolds == NetSpec => []OpenIsTrue
<1>1. NetInv => OpenIsTrue
  BY DEF NetInv, DiscoveryInv, OpenKept
<1> QED
  BY <1>1, NetInvHolds, PTL

\* The introducers are the servers found, the one that has answered first.
THEOREM IntroducersHold == NetSpec => []IntroducersKeepAll
<1>1. NetInv => IntroducersKeepAll
  BY DEF NetInv, DiscoveryInv, ServersKept
<1> QED
  BY <1>1, NetInvHolds, PTL

\* The types of what only pump, start and stop touch.
OwnTypes ==
  /\ stage \in {"between", "late", "restart", "lookup", "end", "crashed"} /\ hostsDone \in BOOLEAN
  /\ collisions \in 0..MaxCollisions + 1 /\ socket \in BOOLEAN

\* Each action gives them values of their types.
LEMMA OwnTypesStep == ASSUME OwnTypes, [NetNext]_net_all PROVE OwnTypes'
<1> USE DEF OwnTypes, own_vars, gateway_vars
<1>1. CASE NetStart \/ NetStop
  BY <1>1 DEF NetStart, NoPort, Offline, Online, NetStop, StopRest
<1>2. ASSUME NEW late \in BOOLEAN, PumpGateway(late) PROVE OwnTypes'
  BY <1>2 DEF PumpGateway, PumpBegins
<1>3. CASE SkipGateway \/ Look \/ Collect \/ Cleared \/ LookupGoesOn \/ Crash
  BY <1>3 DEF SkipGateway, PumpBegins, Look, Collect, Cleared, LookupGoesOn, Crash
<1>4. CASE CollisionStop
  <2>1. collisions' \in 0..MaxCollisions + 1
    BY <1>4, CollisionsAssumption DEF CollisionStop
  <2>2. stage' = "restart" /\ socket' = FALSE /\ hostsDone' = hostsDone
    BY <1>4 DEF CollisionStop, StopRest
  <2> QED
    BY <2>1, <2>2
<1>5. CASE CollisionStart
  BY <1>5 DEF CollisionStart, NoPort, Online
<1>6. CASE EndStep
  BY <1>6 DEF EndStep, PumpEnds
<1>7. CASE Background \/ Crashed \/ UNCHANGED net_all
  BY <1>7 DEF Background, Crashed, net_all
<1> QED
  BY <1>1, <1>2, <1>3, <1>4, <1>5, <1>6, <1>7 DEF NetNext, NetPumpStep

\* Every variable of bdNet has its type; in particular the index of the server
\* asked stays on the list, and both clients stay with servers of the list.
THEOREM NetTypesHold == NetSpec => []NetTypeOK
<1>1. NetInit => OwnTypes
  <2>1. 0 \in 0..MaxCollisions + 1
    BY CollisionsAssumption
  <2> QED
    BY <2>1 DEF NetInit, OwnTypes
<1>2. OwnTypes /\ [NetNext]_net_all => OwnTypes'
  BY OwnTypesStep
<1>3. OwnTypes /\ NetInv => NetTypeOK
  BY DEF OwnTypes, NetInv, LookupInv, GatewayFirst, DiscoveryInv, DiscoveryTypes, OrderKept, NetTypeOK,
     IPRecords, NATRecords
<1> QED
  BY <1>1, <1>2, <1>3, NetInvHolds, PTL DEF NetSpec
-----------------------------------------------------------------------------
\* Every server on the list has been asked before bdNet gives up.

\* The first n servers of the list have got a request for the address.
AskedUpTo(n) == \A k \in 1..n : <<"ip", order[k]>> \in asked

\* The servers before the one that is asked have been asked, and so has that
\* one once its client is there; a client that could not even begin ends
\* bdNet.  Nothing is collected, and no pump is under way, once it has ended.
AskedKept ==
  /\ net = "ONLINE_FAILED" => ~object /\ stage \in {"between", "late"}
  /\ net = "STOPPED" => addr = 0
  /\ ~Stopping /\ net # "ONLINE_FAILED" => AskedUpTo(addr) /\ (ip.status # "none" => AskedUpTo(addr + 1))
  /\ ~Stopping /\ net = "ONLINE_FAILED" /\ ip.status \notin {"ERROR", "RUNNING"} => AskedUpTo(Len(order))

\* What one pump makes of the clients, as far as who has been asked goes.
LEMMA PumpedAsks ==
  ASSUME NEW b, NEW isOpen \in BOOLEAN, Good(b, isOpen), NEW i \in BOOLEAN, NEW n \in BOOLEAN,
         NEW c \in Pumped(b, isOpen, i, n)
  PROVE  /\ b.asked \subseteq c.asked
         /\ c.ip.status # "none" => b.ip.status # "none"
         /\ b.ip.status \notin {"none", "RUNNING"} => c.ip = b.ip
<1> DEFINE S == found \cup {Nobody}
<1>1. PICK p \in Replies(b.asked, isOpen) :
        c \in {[ip |-> x.client, nat |-> y.client, asked |-> b.asked \cup x.sent \cup y.sent] :
                x \in IPPump(b.ip, p, i), y \in NATPump(b.nat, p, n, isOpen)}
  BY DEF Pumped
<1>2. PICK x \in IPPump(b.ip, p, i), y \in NATPump(b.nat, p, n, isOpen) :
        c = [ip |-> x.client, nat |-> y.client, asked |-> b.asked \cup x.sent \cup y.sent]
  BY <1>1
<1>3. b.ip \in IPRecords(S) /\ Nobody \in S /\ p \in Packets(S)
  BY DEF Good, Replies, Packets, NoPacket
<1> HIDE DEF S
<1>4. b.ip.status # "RUNNING" => x.client = b.ip
  BY <1>3, IPPumpFacts
<1> QED
  BY <1>2, <1>4

\* A fresh client that runs has asked its server.
LEMMA FreshAsks ==
  ASSUME NEW server, NEW sent, NEW c \in Clients(server, sent)
  PROVE  /\ sent \subseteq c.asked /\ c.ip.status \in {"RUNNING", "ERROR"}
         /\ c.ip.status = "RUNNING" => <<"ip", server>> \in c.asked
<1>1. PICK i \in IPInit(server), n \in NATInit(server) :
        c = [ip |-> i.client, nat |-> n.client, asked |-> sent \cup i.sent \cup n.sent]
  BY DEF Clients
<1>2. CASE i = Result([status |-> "RUNNING", server |-> server, retries |-> 0], {<<"ip", server>>})
  BY <1>1, <1>2 DEF Result
<1>3. CASE i \in IPEnds("ERROR", Nobody)
  <2>1. i.client.status = "ERROR"
    <3> DEFINE S == {Nobody}
    <3>1. Nobody \in S
      OBVIOUS
    <3> HIDE DEF S
    <3> QED
      BY <1>3, <3>1, IPEndsFacts
  <2> QED
    BY <1>1, <2>1
<1> QED
  BY <1>2, <1>3 DEF IPInit

\* Whatever a pump ends with, nobody has been left out.
LEMMA EndKeepsAsked ==
  ASSUME DiscoveryInv, PumpIsOn, AskedKept, NEW i \in BOOLEAN, NEW n \in BOOLEAN, PumpEnds(i, n)
  PROVE  AskedKept'
<1>1. /\ UNCHANGED <<object, found, app, order>> /\ app = "idle"
      /\ stage \in {"lookup", "end"} /\ stage' \in {"between", "late"}
      /\ open' \in IF Discovers /\ asked = {} THEN BOOLEAN ELSE {open}
  BY DEF PumpEnds, AtEnd, object_vars
<1>2. net \notin {"STOPPED", "DONE", "ONLINE_FAILED"} /\ ~Stopping
  BY <1>1 DEF PumpIsOn, AskedKept, Stopping, StopPlaces
<1>3. open' \in BOOLEAN
  BY <1>1 DEF DiscoveryInv, DiscoveryTypes
<1>4. /\ order \in Seq(found) /\ addr \in Nat /\ (addr = 0 \/ addr < Len(order)) /\ Len(order) \in Nat
      /\ object => ip = NoIP
  BY DEF DiscoveryInv, OrderKept, ServersKept
<1>5. AskedUpTo(addr) /\ (ip.status # "none" => AskedUpTo(addr + 1))
  BY <1>2 DEF AskedKept
<1>6. PICK b \in Begun : \E c \in Pumped(b, open', i, n) :
        LET broken == Discovers /\ (order = <<>> \/ b.ip.status = "ERROR")
        IN \/ ~Decided(c) /\ Keep(c) /\ net' = IF broken THEN "ONLINE_FAILED" ELSE net
           \/ Decided(c) /\ Success(c) /\ Succeed(c)
           \/ Decided(c) /\ ~Success(c) /\ TryNext(c, broken)
           \/ Decided(c) /\ ~Success(c) /\ ~HasNext(addr, order) /\ Keep(c) /\ net' = "ONLINE_FAILED"
  BY DEF PumpEnds
<1> DEFINE broken == Discovers /\ (order = <<>> \/ b.ip.status = "ERROR")
<1>7. PICK c \in Pumped(b, open', i, n) :
        \/ ~Decided(c) /\ Keep(c) /\ net' = IF broken THEN "ONLINE_FAILED" ELSE net
        \/ Decided(c) /\ Success(c) /\ Succeed(c)
        \/ Decided(c) /\ ~Success(c) /\ TryNext(c, broken)
        \/ Decided(c) /\ ~Success(c) /\ ~HasNext(addr, order) /\ Keep(c) /\ net' = "ONLINE_FAILED"
  BY <1>6
<1>8. Good(b, open') /\ Good(c, open')
  BY <1>1, <1>3, BegunIsGood, PumpedIsGood
<1>9. /\ b.asked \subseteq c.asked /\ (c.ip.status # "none" => b.ip.status # "none")
      /\ b.ip.status \notin {"none", "RUNNING"} => c.ip = b.ip
  BY <1>3, <1>8, PumpedAsks
<1>10. /\ object => c.ip = NoIP
       /\ asked \subseteq c.asked
  BY <1>8 DEF Good
<1>11. c.ip.status # "none" /\ ~broken => \A k \in 1..addr + 1 : <<"ip", order[k]>> \in c.asked
  <2>1. CASE Discovers /\ order # <<>>
    <3>1. b \in Clients(order[addr + 1], asked)
      BY <2>1 DEF Begun
    <3>2. /\ asked \subseteq b.asked /\ b.ip.status \in {"RUNNING", "ERROR"}
          /\ b.ip.status = "RUNNING" => <<"ip", order[addr + 1]>> \in b.asked
      BY <3>1, FreshAsks
    <3> QED
      BY <1>4, <1>5, <1>9, <2>1, <3>2 DEF AskedUpTo
  <2>2. CASE ~(Discovers /\ order # <<>>)
    <3>1. b = [ip |-> ip, nat |-> nat, asked |-> asked]
      BY <2>2 DEF Begun
    <3> QED
      BY <1>5, <1>9, <3>1 DEF AskedUpTo
  <2> QED
    BY <2>1, <2>2
<1>12. broken => ~object /\ (order = <<>> \/ c.ip.status = "ERROR") /\ (order = <<>> => c.ip.status = "none")
  <2>1. order = <<>> /\ Discovers => b.ip.status = "none"
    BY DEF Begun, Discovers
  <2> QED
    BY <1>9, <2>1 DEF Discovers
<1>13. Decided(c) => c.ip.status # "none" /\ ~object
  BY <1>10 DEF Decided, NoIP
<1>14. net' \in {net, "ONLINE_FAILED"} /\ ~Stopping' /\ net' # "STOPPED"
  <2>1. net' \in {net, "ONLINE_FAILED"}
    BY <1>7 DEF Succeed, TryNext
  <2> QED
    BY <1>1, <1>2, <2>1 DEF Stopping, StopPlaces
<1> HIDE DEF broken
<1>15. CASE ~Decided(c) /\ Keep(c) /\ net' = IF broken THEN "ONLINE_FAILED" ELSE net
  <2>1. ip' = c.ip /\ asked' = c.asked /\ addr' = addr
    BY <1>15 DEF Keep
  <2>2. CASE broken
    BY <1>1, <1>12, <1>14, <1>15, <2>1, <2>2 DEF AskedKept, AskedUpTo
  <2>3. CASE ~broken
    BY <1>1, <1>2, <1>5, <1>10, <1>11, <1>14, <1>15, <2>1, <2>3 DEF AskedKept, AskedUpTo
  <2> QED
    BY <2>2, <2>3
<1>16. CASE Decided(c) /\ Success(c) /\ Succeed(c)
  <2>1. ip' = NoIP /\ asked' = c.asked /\ addr' = addr /\ net' = net /\ NoIP.status = "none"
    BY <1>16 DEF Succeed, NoIP
  <2> QED
    BY <1>1, <1>2, <1>5, <1>10, <1>14, <2>1 DEF AskedKept, AskedUpTo
<1>17. CASE Decided(c) /\ ~Success(c) /\ TryNext(c, broken)
  <2>1. PICK fresh \in Clients(order[addr + 2], c.asked) :
          /\ ip' = fresh.ip /\ asked' = fresh.asked /\ addr' = addr + 1
          /\ net' = IF broken \/ fresh.ip.status = "ERROR" THEN "ONLINE_FAILED" ELSE net
    BY <1>17 DEF TryNext
  <2>2. /\ c.asked \subseteq fresh.asked /\ fresh.ip.status \in {"RUNNING", "ERROR"}
        /\ fresh.ip.status = "RUNNING" => <<"ip", order[addr + 2]>> \in fresh.asked
    BY <2>1, FreshAsks
  <2>3. CASE broken \/ fresh.ip.status = "ERROR"
    BY <1>1, <1>13, <1>14, <1>17, <2>1, <2>2, <2>3 DEF AskedKept
  <2>4. CASE ~broken /\ fresh.ip.status = "RUNNING"
    <3>2. addr' = addr + 1 /\ addr' + 1 = addr + 2 /\ net' = net
      BY <1>4, <2>1, <2>4
    <3>3. c.ip.status # "none" /\ order' = order /\ asked' = fresh.asked
      BY <1>1, <1>13, <1>17, <2>1
    <3>4. ASSUME NEW k \in 1..addr + 1
          PROVE  <<"ip", order[k]>> \in fresh.asked
      <4>1. <<"ip", order[k]>> \in c.asked
        BY <1>11, <2>4, <3>3
      <4> QED
        BY <2>2, <4>1
    <3>5. ASSUME NEW k \in 1..addr + 2
          PROVE  <<"ip", order[k]>> \in fresh.asked
      <4>1. k \in 1..addr + 1 \/ k = addr + 2
        BY <1>4
      <4> QED
        BY <2>2, <2>4, <3>4, <4>1
    <3>6. AskedUpTo(addr)'
      <4>1. \A k \in 1..addr' : <<"ip", order'[k]>> \in asked'
        BY <3>2, <3>3, <3>4
      <4> QED
        BY <4>1 DEF AskedUpTo
    <3>7. AskedUpTo(addr + 1)'
      <4>1. \A k \in 1..addr' + 1 : <<"ip", order'[k]>> \in asked'
        BY <3>2, <3>3, <3>5
      <4> QED
        BY <4>1 DEF AskedUpTo
    <3> QED
      BY <1>1, <1>2, <1>14, <3>2, <3>6, <3>7 DEF AskedKept
  <2> QED
    BY <2>2, <2>3, <2>4
<1>18. CASE Decided(c) /\ ~Success(c) /\ ~HasNext(addr, order) /\ Keep(c) /\ net' = "ONLINE_FAILED"
  <2>1. ip' = c.ip /\ asked' = c.asked /\ addr' = addr /\ ~(addr + 1 < Len(order))
    BY <1>18 DEF Keep, HasNext
  <2>2. c.ip.status # "ERROR" => \A k \in 1..Len(order) : <<"ip", order[k]>> \in c.asked
    BY <1>4, <1>11, <1>12, <1>13, <1>18, <2>1
  <2> QED
    BY <1>1, <1>13, <1>14, <1>18, <2>1, <2>2 DEF AskedKept, AskedUpTo
<1> QED
  BY <1>7, <1>15, <1>16, <1>17, <1>18

\* Who has been asked, action by action.
LEMMA AskedStep ==
  ASSUME PumpIsOn, PlacesKept, GatewayFirst, DiscoveryInv, AskedKept, [NetNext]_net_all
  PROVE  AskedKept'
<1>1. ASSUME UNCHANGED <<ip, asked, order, addr>>, Stopping => Stopping', object' => object,
             net' # "STOPPED" \/ net' = net, net' = "ONLINE_FAILED" => net = "ONLINE_FAILED",
             net = "ONLINE_FAILED" => net' = net \/ Stopping',
             net = "ONLINE_FAILED" => stage' \in {"between", "late"}
      PROVE  AskedKept'
  BY <1>1 DEF AskedKept, AskedUpTo
<1>2. CASE NetStart \/ CollisionStart
  <2>1. /\ net = "STOPPED" /\ net' \notin {"STOPPED", "ONLINE_FAILED"} /\ addr' \in {0, addr}
        /\ UNCHANGED <<ip, asked, order>>
    BY <1>2 DEF NetStart, CollisionStart, NoPort, Offline, Online, StartWithout, Start, discovery_vars
  <2>2. addr' = 0 /\ ip.status = "none"
    BY <2>1 DEF AskedKept, GatewayFirst, Stopping, Unasked
  <2> QED
    BY <2>1, <2>2 DEF AskedKept, AskedUpTo
<1>3. CASE NetStop \/ CollisionStop
  <2>1. app' \in StopPlaces /\ UNCHANGED <<net, object>> /\ net # "STOPPED"
    BY <1>3 DEF NetStop, CollisionStop, StopRest, Stop, StopPlaces, object_vars, net_vars
  <2>2. net = "PENDING" \/ stage' \in {"between", "late"}
    BY <1>3 DEF NetStop, CollisionStop, Between
  <2> QED
    BY <2>1, <2>2 DEF AskedKept, Stopping
<1>4. ASSUME NEW late \in BOOLEAN, PumpGateway(late) PROVE AskedKept'
  BY <1>1, <1>4 DEF PumpGateway, PumpBegins, Between, vars, object_vars, net_vars, discovery_vars, Stopping
<1>5. CASE SkipGateway
  BY <1>1, <1>5 DEF SkipGateway, PumpBegins, Between, vars, object_vars, net_vars, discovery_vars, Stopping
<1>6. CASE Crash \/ Look
  <2>1. stage \in {"lookup", "end"} /\ stage' \in {"end", "crashed"} /\ UNCHANGED <<ip, asked, order, addr, net, object>>
    BY <1>6 DEF Crash, AtEnd, Look, ReadStatus, vars, object_vars, net_vars, discovery_vars
  <2>2. net # "ONLINE_FAILED"
    BY <2>1 DEF AskedKept
  <2>3. ~Stopping
    BY <2>1, <1>6 DEF Stopping, PumpIsOn
  <2> QED
    BY <2>1, <2>2, <2>3 DEF AskedKept, AskedUpTo
<1>7. CASE Collect
  <2>1. object /\ net # "ONLINE_FAILED" /\ net # "STOPPED"
    BY <1>7 DEF Collect, CopyAddress, PlacesKept, Pumping, AskedKept
  <2>2. ip = NoIP /\ NoIP.status = "none"
    BY <2>1 DEF DiscoveryInv, ServersKept, NoIP
  <2>3. UNCHANGED <<ip, asked, addr, net, stage>> /\ app' \in {app, "advances"} /\ app = "copies"
    BY <1>7 DEF Collect, CopyAddress, discovery_vars
  <2>4. order' = order \/ order' = Append(order, addresses[copied])
    BY <1>7 DEF Collect
  <2>5. order \in Seq(found) /\ addr \in Nat /\ (addr = 0 \/ addr < Len(order))
    BY DEF DiscoveryInv, OrderKept
  <2>6. \A k \in 1..addr : order'[k] = order[k]
    BY <2>4, <2>5
  <2> QED
    BY <2>1, <2>2, <2>3, <2>6 DEF AskedKept, AskedUpTo, Stopping, StopPlaces
<1>8. CASE Cleared
  BY <1>8 DEF Cleared, Stopped, Stopping, AskedKept
<1>9. CASE LookupGoesOn
  <2>1. UNCHANGED <<ip, asked, order, addr, stage>>
    BY <1>9 DEF LookupGoesOn, own_vars, discovery_vars
  <2>2. /\ net' = net \/ (net' = "INIT_FAILED" /\ object /\ net # "STOPPED")
        /\ object' => object
        /\ app \in StopPlaces => app' \in StopPlaces
    BY <1>9 DEF LookupGoesOn, NotYet, Late, Cancel, TimeOut, ReadCount, Advance, Quit, Join,
       NextHost, LastHost, net_vars, object_vars, Free, PlacesKept, StopPlaces
  <2> QED
    BY <1>1, <2>1, <2>2 DEF AskedKept, Stopping
<1>10. CASE EndStep
  BY <1>10, EndKeepsAsked DEF EndStep
<1>11. CASE Background
  BY <1>1, <1>11 DEF Background, own_vars, discovery_vars, Stopping, ThreadStep, Begin, WriteAddress, WriteCount,
     Report, Resolve, net_vars, object_vars, AskedKept
<1>12. CASE Crashed \/ UNCHANGED net_all
  BY <1>1, <1>12 DEF Crashed, net_all, own_vars, discovery_vars, vars, net_vars, object_vars, Stopping, AskedKept
<1> QED
  BY <1>2, <1>3, <1>4, <1>5, <1>6, <1>7, <1>8, <1>9, <1>10, <1>11, <1>12 DEF NetNext, NetPumpStep

\* bdNet gives up only after it has asked every server it has found, unless
\* its own socket fails.
THEOREM EveryServerAskedHolds == NetSpec => []EveryServerAsked
<1>1. NetInit => AskedKept
  BY DEF NetInit, LookupInit, AskedKept, AskedUpTo, Stopping
<1>2. NetInv /\ AskedKept /\ [NetNext]_net_all => AskedKept'
  BY AskedStep DEF NetInv, LookupInv
<1>3. NetInv /\ AskedKept => EveryServerAsked
  <2> SUFFICES ASSUME NetInv, AskedKept, app = "idle", net = "ONLINE_FAILED", ip.status \notin {"ERROR", "RUNNING"}
               PROVE  \A a \in found : <<"ip", a>> \in asked
    BY DEF EveryServerAsked
  <2>1. found = {order[k] : k \in 1..Len(order)}
    BY DEF NetInv, DiscoveryInv, OrderKept
  <2>2. CASE ~Stopping
    BY <2>1, <2>2 DEF AskedKept, AskedUpTo
  <2>3. CASE Stopping
    BY <2>3 DEF AskedKept, Stopping, StopPlaces
  <2> QED
    BY <2>2, <2>3
<1> QED
  BY <1>1, <1>2, <1>3, NetInvHolds, PTL DEF NetSpec
=============================================================================
