-------------------------------- MODULE Net ---------------------------------
(***************************************************************************)
(* bdNetImpl whole: the lookups of HostLookup, the gateway of UPnP and the  *)
(* two clients of NATDiscovery, one after the other in one pump, and the    *)
(* socket router they are all for.                                          *)
(*                                                                         *)
(* A pump is its beginning (the gateway), one look at the lookup with the   *)
(* steps of HostLookup between which the lookup's thread runs, and its end  *)
(* (one datagram, the two clients, and what their results decide).          *)
(***************************************************************************)
EXTENDS HostLookup, UPnP, NATDiscovery, Sequences

CONSTANT MaxCollisions   \* how often a port collision makes bdNet try the next port

ASSUME CollisionsAssumption == MaxCollisions \in Nat

VARIABLES stage,      \* where pump is
          hostsDone,  \* finishedNATHostLookup, which pump reads at its beginning
          upnp,       \* m_UPnP
          collisions, \* m_upnpCollisionRetryCount, counted up to the first that is too many
          order,      \* m_natTravAddrs; `found` is its set
          addr,       \* m_currentNatTravAddrIndex, from 0
          ip,         \* m_ipDiscClient
          nat,        \* m_natTypeDiscClient
          asked,      \* the requests the servers have got from this socket
          socket,     \* whether m_params.m_socket is there
          router,     \* m_socketRouter
          open        \* whether the game's NAT is an open one, which shows when the servers are asked

discovery_vars == <<addr, ip, nat, asked>>
gateway_vars == <<upnp, collisions>>
own_vars == <<stage, hostsDone, gateway_vars, order, discovery_vars, socket, router, open>>
net_all == <<vars, own_vars>>

NoRouter == [state |-> "none", introducers |-> <<>>, type |-> "UNKNOWN", answered |-> Nobody]
Created == [NoRouter EXCEPT !.state = "CREATED"]

\* Between two pumps; "late" after one that has found both timers run out.
Between == stage \in {"between", "late"}

NetInit ==
  /\ LookupInit
  /\ stage = "between" /\ hostsDone = FALSE
  /\ upnp = NoUPnP /\ collisions = 0
  /\ order = <<>> /\ addr = 0 /\ ip = NoIP /\ nat = NoNAT /\ asked = {}
  /\ socket = FALSE /\ router = NoRouter
  /\ open = FALSE

-----------------------------------------------------------------------------
\* start.  Without an address or a free port it returns before it has a
\* socket; if the port is taken meanwhile, after.
NoPort ==
  /\ StartWithout
  /\ \/ net' = "PARAMS_CONFIG_ERROR" /\ socket' = FALSE
     \/ net' = "BIND_FAILED" /\ socket' \in BOOLEAN
  /\ UNCHANGED <<upnp, router, discovery_vars>>

\* The first lookup that does not start keeps the gateway from being asked.
Online(config) ==
  /\ Start
  /\ socket' = TRUE /\ router' = Created /\ addr' = 0
  /\ upnp' = IF net' = "INIT_FAILED" THEN upnp ELSE UPnPStarted(upnp, config)
  /\ UNCHANGED <<ip, nat, asked>>

\* An offline game's router is there at once, unless no local address is given.
Offline ==
  /\ StartWithout
  /\ net' = "DONE"
  /\ socket' = TRUE
  /\ router' \in {Created, [Created EXCEPT !.state = "INITIALIZED", !.type = "OPEN"], [Created EXCEPT !.state = "ERROR"]}
  /\ UNCHANGED <<upnp, discovery_vars>>

NetStart ==
  /\ Between
  /\ NoPort \/ Offline \/ \E config \in RunModes \cup {"disabled"} : Online(config)
  /\ UNCHANGED <<stage, hostsDone, collisions, order, open>>

\* The part of stop before the lookup is quit; the address client goes, the
\* type client is quit and destroyed but its pointer is kept.
StopRest ==
  /\ Stop
  /\ upnp' = UPnPShutDown(upnp)
  /\ socket' = FALSE /\ router' = NoRouter
  /\ ip' = NoIP /\ nat' = IF nat.state = "none" THEN nat ELSE DeadNAT
  /\ asked' = {}
  /\ open' = FALSE /\ UNCHANGED <<hostsDone, order, addr>>

NetStop == Between /\ StopRest /\ UNCHANGED <<stage, collisions>>

-----------------------------------------------------------------------------
\* The beginning of pump.
PumpBegins ==
  /\ Between /\ app = "idle" /\ net = "PENDING"
  /\ hostsDone' = (index = NumHosts)

\* A mutant: a gateway that is still asked is not pumped further.
NotPumped(u, late) == {u}
\* Where pumping the gateway leads.
Gateway(u, late) == UPnPPumped(u, late)

PumpGateway(late) ==
  /\ PumpBegins
  /\ isRunning(upnp)
  /\ upnp' \in Gateway(upnp, late)
  /\ stage' = "lookup"
  /\ UNCHANGED <<vars, collisions, order, discovery_vars, socket, router, open>>

Collision == upnp.state = "FINISHED" /\ getPortStatus(upnp) = "COLLISION_FOUND"

SkipGateway ==
  /\ PumpBegins
  /\ ~isRunning(upnp) /\ ~Collision
  /\ stage' = "lookup"
  /\ UNCHANGED <<vars, gateway_vars, order, discovery_vars, socket, router, open>>

\* Somebody else's mapping is on the port: stop, and start on another.
CollisionStop ==
  /\ Between /\ net = "PENDING"
  /\ Collision
  /\ StopRest
  /\ collisions' = IF collisions > MaxCollisions THEN collisions ELSE collisions + 1
  /\ stage' = "restart"

\* After too many collisions the gateway is only asked for its address.
CollisionStart ==
  /\ stage = "restart" /\ app = "idle"
  /\ \/ NoPort /\ net' = "BIND_FAILED"
     \/ Online(IF collisions <= MaxCollisions THEN "DO_PORT_MAPPING" ELSE "EXTERNAL_IP_ONLY")
  /\ stage' = "lookup"
  /\ UNCHANGED <<hostsDone, collisions, order, open>>

-----------------------------------------------------------------------------
\* The middle of pump and of stop, step by step.
Look ==
  /\ stage = "lookup"
  /\ ReadStatus
  /\ stage' = "end"
  /\ UNCHANGED <<hostsDone, gateway_vars, order, discovery_vars, socket, router, open>>

\* An address is only added if it is not there yet.
Collect ==
  /\ CopyAddress
  /\ order' = IF found' = found THEN order ELSE Append(order, addresses[copied])
  /\ UNCHANGED <<stage, hostsDone, gateway_vars, discovery_vars, socket, router, open>>

\* A mutant: the index of the server asked is kept.
AddrKept ==
  /\ Stopped
  /\ addr' = addr /\ order' = <<>>
  /\ UNCHANGED <<stage, hostsDone, gateway_vars, ip, nat, asked, socket, router, open>>

\* The end of stop.
Cleared ==
  /\ Stopped
  /\ addr' = 0 /\ order' = <<>>
  /\ UNCHANGED <<stage, hostsDone, gateway_vars, ip, nat, asked, socket, router, open>>

LookupGoesOn ==
  /\ \/ NotYet \/ Late \/ Cancel \/ TimeOut \/ ReadCount \/ Advance \/ Quit \/ Join
     \/ NextHost \/ LastHost
  /\ app # "idle"
  /\ UNCHANGED own_vars

Background == (ThreadStep \/ Resolve) /\ UNCHANGED own_vars

-----------------------------------------------------------------------------
\* The end of pump.
AtEnd == app = "idle" /\ (stage = "end" \/ (stage = "lookup" /\ ~object))

\* A mutant: the discovery begins whatever the gateway has found.
NoWait(u) == ~isRunning(u)
\* The gateway is done with, and the port is to stay.
PortSettled(u) == ~isRunning(u) /\ getPortStatus(u) # "COLLISION_FOUND"

Discovers == ~object /\ PortSettled(upnp) /\ ip.status = "none" /\ nat.state = "none"

\* A pair of fresh clients for a server, and the requests sent so far.
Clients(server, sent) ==
  {[ip |-> i.client, nat |-> n.client, asked |-> sent \cup i.sent \cup n.sent] :
     i \in IPInit(server), n \in NATInit(server)}

\* The clients as the discovery's beginning in this pump leaves them.
Begun ==
  IF Discovers /\ order # <<>> THEN Clients(order[addr + 1], asked)
  ELSE {[ip |-> ip, nat |-> nat, asked |-> asked]}

\* A mutant: the server that answered is put first and the first is lost.
FirstLost(s, i) == [s EXCEPT ![1] = s[i + 1]]
\* The introducers: the server that answered changes places with the first.
Introducers(s, i) == [s EXCEPT ![1] = s[i + 1], ![i + 1] = s[1]]

\* What one datagram, or none, and the two timers make of the clients.
Pumped(c, isOpen, ipLate, natLate) ==
  UNION {{[ip |-> i.client, nat |-> n.client, asked |-> c.asked \cup i.sent \cup n.sent] :
            i \in IPPump(c.ip, p, ipLate), n \in NATPump(c.nat, p, natLate, isOpen)} :
           p \in Replies(c.asked, isOpen)}

\* bdSocketRouter::init, which refuses to be called again, and the
\* introducers, which a router that is initialised lets be replaced.
Routers(type, server) ==
  {IF r.state = "INITIALIZED" THEN [r EXCEPT !.introducers = Introducers(order, addr), !.answered = server] ELSE r :
     r \in IF router.state = "CREATED"
             THEN {[router EXCEPT !.state = "INITIALIZED", !.type = type], [router EXCEPT !.state = "ERROR"]}
             ELSE {router}}

\* The status stays: nothing here sets it to BD_NET_DONE.
Succeed(c) ==
  /\ ip' = NoIP /\ nat' = NoNAT /\ asked' = c.asked
  /\ router' \in Routers(c.nat.type, c.ip.server)
  /\ UNCHANGED <<net, addr>>

\* A mutant: the last server is left out.
LastOneOut(i, s) == i + 2 < Len(s)
\* There is another server to ask.
HasNext(i, s) == i + 1 < Len(s)

TryNext(c, broken) ==
  /\ HasNext(addr, order)
  /\ addr' = addr + 1
  /\ \E fresh \in Clients(order[addr + 2], c.asked) :
       /\ ip' = fresh.ip /\ nat' = fresh.nat /\ asked' = fresh.asked
       /\ net' = IF broken \/ fresh.ip.status = "ERROR" THEN "ONLINE_FAILED" ELSE net
  /\ UNCHANGED router

Keep(c) == ip' = c.ip /\ nat' = c.nat /\ asked' = c.asked /\ UNCHANGED <<addr, router>>

\* Both clients have come to an end, and the names had before this pump.
Decided(c) ==
  hostsDone /\ c.ip.status \notin {"none", "RUNNING"} /\ c.nat.state \notin Tests \cup {"none"}
Success(c) == c.ip.status = "SUCCESS" /\ c.nat.state = "FINI"

PumpEnds(ipLate, natLate) ==
  /\ AtEnd /\ socket
  /\ open' \in IF Discovers /\ asked = {} THEN BOOLEAN ELSE {open}
  /\ \E b \in Begun : \E c \in Pumped(b, open', ipLate, natLate) :
       LET broken == Discovers /\ (order = <<>> \/ b.ip.status = "ERROR")
       IN \/ ~Decided(c) /\ Keep(c) /\ net' = IF broken THEN "ONLINE_FAILED" ELSE net
          \/ Decided(c) /\ Success(c) /\ Succeed(c)
          \/ Decided(c) /\ ~Success(c) /\ TryNext(c, broken)
          \/ Decided(c) /\ ~Success(c) /\ ~HasNext(addr, order) /\ Keep(c) /\ net' = "ONLINE_FAILED"
  /\ stage' = IF ipLate /\ natLate THEN "late" ELSE "between"
  /\ UNCHANGED <<object_vars, thread_vars, pump_vars, index, found, app>>
  /\ hostsDone' = FALSE
  /\ UNCHANGED <<gateway_vars, order, socket>>

\* A restart that has found no port goes on without a socket, and reads it.
Crash ==
  /\ AtEnd /\ ~socket
  /\ stage' = "crashed"
  /\ UNCHANGED <<vars, hostsDone, gateway_vars, order, discovery_vars, socket, router, open>>
Crashed == stage = "crashed" /\ UNCHANGED net_all
-----------------------------------------------------------------------------
NetPumpStep ==
  \/ \E late \in BOOLEAN : PumpGateway(late)
  \/ SkipGateway \/ CollisionStop \/ CollisionStart
  \/ Look \/ Collect \/ Cleared \/ LookupGoesOn
  \/ Crash

EndStep == \E ipLate, natLate \in BOOLEAN : PumpEnds(ipLate, natLate)

NetNext == NetPumpStep \/ EndStep \/ Background \/ NetStart \/ NetStop \/ Crashed

NetSpec == NetInit /\ [][NetNext]_net_all

\* The application goes on pumping, the lookup's thread is scheduled, the
\* resolver comes back, as gethostbyname does after timeouts of its own, and
\* a timer that is read again and again is found to have run out.
NetFairSpec ==
  /\ NetSpec
  /\ WF_net_all(NetPumpStep)
  /\ WF_net_all(ThreadStep /\ UNCHANGED own_vars) /\ WF_net_all(Resolve /\ UNCHANGED own_vars)
  /\ SF_net_all(PumpGateway(TRUE)) /\ SF_stage(AtEnd /\ socket /\ stage' = "late")
  /\ WF_stage(AtEnd /\ socket /\ stage' \in {"late", "between"})

-----------------------------------------------------------------------------
\* Every variable has its type: no index runs out of the names, the array of a
\* lookup or the addresses.
NetTypeOK ==
  /\ LookupTypeOK
  /\ stage \in {"between", "late", "restart", "lookup", "end", "crashed"} /\ hostsDone \in BOOLEAN
  /\ upnp \in UPnPRecords /\ collisions \in 0..MaxCollisions + 1
  /\ found = {order[k] : k \in 1..Len(order)}
  /\ addr = 0 \/ addr < Len(order)
  /\ ip.server \in found \cup {Nobody} /\ ip.retries \in 0..Resends
  /\ nat.server \in found \cup {Nobody} /\ nat.resends \in 0..Resends
  /\ socket \in BOOLEAN

\* A game is only told that its NAT is open when it is, whichever replies are
\* lost, late, doubled, or of a server that was asked before.  (Moderate and
\* strict are told on less: test 3 takes any reply.)
OpenIsTrue ==
  /\ nat.type = "OPEN" => open
  /\ router.introducers # <<>> /\ router.type = "OPEN" => open

\* The router's introducers are the servers found, each of them once, and the
\* first is the one that has answered.
IntroducersKeepAll ==
  LET s == router.introducers
  IN  s # <<>> => /\ s[1] = router.answered
                  /\ Len(s) = Len(order) /\ {s[k] : k \in 1..Len(s)} = found

\* bdNet gives up only after it has asked every server it has found, unless
\* its own socket fails.
EveryServerAsked ==
  app = "idle" /\ net = "ONLINE_FAILED" /\ ip.status \notin {"ERROR", "RUNNING"} => \A a \in found : <<"ip", a>> \in asked

\* A collision of ports never takes from the game a router it already uses:
\* the restart comes before the servers are asked.
RestartBeforeRouter == [][stage' = "restart" /\ stage # "restart" => router.state = "CREATED" /\ asked = {}]_net_all

\* A bdNet that is started and stays without an end and without a router has
\* one of two reasons and no third, through any number of late lookups, lost
\* replies and collisions: its gateway stays where it cannot be reached, or an
\* earlier stop has left the pointer of a type client, so that no later start
\* sets up another, although start's log tells the game to call stop to reset.
NetSettles ==
  <>[](net = "PENDING" /\ router.state = "CREATED")
    => <>[](Unreachable(upnp)) \/ <>[](nat.state = "UNINITIALIZED")
=============================================================================
