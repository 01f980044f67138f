----------------------------- MODULE HostLookup -----------------------------
(***************************************************************************)
(* The lookup of the NAT traversal servers' names: bdGetHostByName, whose   *)
(* thread shares its status, count and addresses with the application's     *)
(* thread and no lock, and the part of bdNet that starts one lookup after   *)
(* another, pumps them, collects the addresses and stops.  What else bdNet  *)
(* does is in Net; here it shows in the two actions on its status.          *)
(*                                                                         *)
(* One action is one access of the state the two threads share.  The        *)
(* resolver (gethostbyname) answers with any number of addresses up to the  *)
(* size of the array, after any time, or never.  An address is the pair of  *)
(* its host and its place in the answer.                                    *)
(***************************************************************************)
EXTENDS Naturals

CONSTANTS NumHosts,   \* how many names bdNet has to look up
          Slots       \* the size of m_addresses

ASSUME HostsAssumption == NumHosts \in Nat \ {0} /\ Slots \in Nat \ {0}

VARIABLES net,        \* bdNetImpl::m_status
          index,      \* m_currentNatTravHostIndex
          object,     \* whether m_getHostByName is there
          found,      \* m_natTravAddrs, a set: duplicates are ignored
          status,     \* bdGetHostByName::m_status
          count,      \* m_numAddresses
          addresses,  \* m_addresses
          thread,     \* where the lookup's thread is
          host,       \* the name it looks up
          answer,     \* how many addresses the resolver gives it
          written,    \* how many of them it has written
          app,        \* where the application's thread is
          seen,       \* the status bdNetImpl::pump has read
          limit,      \* numAddrs, the bound of its loop
          copied      \* i, the counter of its loop

object_vars == <<object, status, count, addresses>>
thread_vars == <<thread, host, answer, written>>
pump_vars == <<seen, limit, copied>>
net_vars == <<net, index, found>>
vars == <<object_vars, thread_vars, pump_vars, net_vars, app>>

\* 0.0.0.0, which no host answers.
Blank == <<NumHosts, 0>>
Addresses == (0..NumHosts - 1) \X (0..Slots - 1)
LookupStatuses == {"UNINITIALIZED", "PENDING", "SUCCEEDED", "FAILED", "CANCELLED", "TIMED_OUT", "ERROR"}
ThreadPlaces == {"none", "begins", "resolves", "writes", "counts", "reports", "ended"}
NetStatuses == {"STOPPED", "PENDING", "DONE", "INIT_FAILED", "ONLINE_FAILED", "BIND_FAILED", "PARAMS_CONFIG_ERROR"}
AppPlaces == {"idle", "checks", "cancels", "timesOut", "counts", "copies", "advances",
              "quits", "joins", "ends", "stopping", "stopJoins", "stopEnds"}

LookupInit ==
  /\ net = "STOPPED" /\ index = 0 /\ found = {}
  /\ object = FALSE /\ status = "UNINITIALIZED" /\ count = 0 /\ addresses = [i \in 0..Slots - 1 |-> Blank]
  /\ thread = "none" /\ host = 0 /\ answer = 0 /\ written = 0
  /\ app = "idle" /\ seen = "UNINITIALIZED" /\ limit = 0 /\ copied = 0

-----------------------------------------------------------------------------
\* The lookup's thread: bdGetHostByName::run.

\* A lookup that is no longer pending when its thread begins is not made.
Begin ==
  /\ thread = "begins"
  /\ thread' = IF status = "PENDING" THEN "resolves" ELSE "ended"
  /\ UNCHANGED <<object_vars, pump_vars, net_vars, app, host, answer, written>>

\* A mutant: the count is there before the addresses are.
ResolveAndCount ==
  /\ thread = "resolves"
  /\ answer' \in 0..Slots
  /\ count' = answer'
  /\ written' = 0
  /\ thread' = "writes"
  /\ UNCHANGED <<object, status, addresses, pump_vars, net_vars, app, host>>

\* The resolver comes back: it has found nothing, or some addresses.
Resolve ==
  /\ thread = "resolves"
  /\ answer' \in 0..Slots
  /\ written' = 0
  /\ thread' = "writes"
  /\ UNCHANGED <<object_vars, pump_vars, net_vars, app, host>>

WriteAddress ==
  /\ thread = "writes"
  /\ IF written < answer
       THEN /\ addresses' = [addresses EXCEPT ![written] = <<host, written>>]
            /\ written' = written + 1
            /\ UNCHANGED thread
       ELSE thread' = "counts" /\ UNCHANGED <<addresses, written>>
  /\ UNCHANGED <<object, status, count, pump_vars, net_vars, app, host, answer>>

WriteCount ==
  /\ thread = "counts"
  /\ count' = answer
  /\ thread' = "reports"
  /\ UNCHANGED <<object, status, addresses, pump_vars, net_vars, app, host, answer, written>>

\* The result is written over whatever the status has become meanwhile.
Report ==
  /\ thread = "reports"
  /\ status' = IF count > 0 THEN "SUCCEEDED" ELSE "FAILED"
  /\ thread' = "ended"
  /\ UNCHANGED <<object, count, addresses, pump_vars, net_vars, app, host, answer, written>>

ThreadStep == Begin \/ WriteAddress \/ WriteCount \/ Report

-----------------------------------------------------------------------------
\* The application's thread: bdNetImpl::start, pump and stop.

\* bdGetHostByName::start, from bdNetImpl::start and from its pump.
StartLookup ==
  /\ host' = index'
  /\ \/ status' = "PENDING" /\ thread' = "begins"
     \/ status' = "ERROR" /\ thread' = "none"

Start ==
  /\ app = "idle" /\ net = "STOPPED"
  /\ index' = 0 /\ object' = TRUE
  /\ StartLookup
  /\ net' = IF status' = "ERROR" THEN "INIT_FAILED" ELSE "PENDING"
  /\ UNCHANGED <<count, addresses, found, app, answer, written, pump_vars>>

\* An offline game looks nothing up, nor does a start without an address or
\* a port.
StartWithout ==
  /\ app = "idle" /\ net = "STOPPED"
  /\ net' \in {"DONE", "PARAMS_CONFIG_ERROR", "BIND_FAILED"}
  /\ UNCHANGED <<object_vars, thread_vars, pump_vars, index, found, app>>

\* The end of pump, when the servers found do not answer or none was found.
FailOnline ==
  /\ app = "idle" /\ net # "STOPPED"
  /\ net' = "ONLINE_FAILED"
  /\ UNCHANGED <<object_vars, thread_vars, pump_vars, index, found, app>>

\* pump reads the status once; what it does next is decided by what it read.
\* Any final status is taken for a success, since the second test assigns.  A
\* pump begins while bdNet is pending; what it restarts may have failed since.
ReadStatus ==
  /\ app = "idle" /\ net \in {"PENDING", "INIT_FAILED"} /\ object
  /\ IF status = "PENDING" THEN app' = "checks" /\ UNCHANGED seen
                            ELSE app' = "counts" /\ seen' = status
  /\ UNCHANGED <<object_vars, thread_vars, net_vars, limit, copied>>

\* bdGetHostByName::pump reads the status again, and the clock.
NotYet ==
  /\ app = "checks"
  /\ app' = "idle"
  /\ UNCHANGED <<object_vars, thread_vars, net_vars, pump_vars>>

Late ==
  /\ app = "checks" /\ status = "PENDING"
  /\ app' = "cancels"
  /\ UNCHANGED <<object_vars, thread_vars, net_vars, pump_vars>>

\* cancelLookup, which leaves alone a lookup that has just ended.
Cancel ==
  /\ app = "cancels"
  /\ status' = IF status = "PENDING" THEN "CANCELLED" ELSE status
  /\ app' = "timesOut"
  /\ UNCHANGED <<object, count, addresses, thread_vars, net_vars, pump_vars>>

TimeOut ==
  /\ app = "timesOut"
  /\ status' = "TIMED_OUT"
  /\ app' = "idle"
  /\ UNCHANGED <<object, count, addresses, thread_vars, net_vars, pump_vars>>

ReadCount ==
  /\ app = "counts"
  /\ limit' = count /\ copied' = 0
  /\ app' = "copies"
  /\ UNCHANGED <<object_vars, thread_vars, net_vars, seen>>

\* A mutant: the last address is left out.
LastLeftOut(n) == n - 1
\* The addresses the loop goes over when the count is `n`.
LoopEnd(n) == n

CopyAddress ==
  /\ app = "copies"
  /\ IF copied < LoopEnd(limit)
       THEN /\ found' = found \cup {addresses[copied]}
            /\ copied' = copied + 1
            /\ UNCHANGED app
       ELSE app' = "advances" /\ UNCHANGED <<found, copied>>
  /\ UNCHANGED <<object_vars, thread_vars, net, index, seen, limit>>

\* What pump has read is local to it.
ForgetReads == seen' = "UNINITIALIZED" /\ limit' = 0 /\ copied' = 0

Advance ==
  /\ app = "advances"
  /\ index' = index + 1
  /\ app' = "quits"
  /\ ForgetReads
  /\ UNCHANGED <<object_vars, thread_vars, net, found>>

\* bdGetHostByName::quit, first half: a pending lookup is cancelled.
CancelPending == status' = IF status = "PENDING" THEN "CANCELLED" ELSE status

Quit ==
  /\ app = "quits" \/ app = "stopping"
  /\ CancelPending
  /\ app' = IF app = "quits" THEN "joins" ELSE "stopJoins"
  /\ UNCHANGED <<object, count, addresses, thread_vars, net_vars, pump_vars>>

\* A mutant: the thread is not waited for.
NoJoin == TRUE
\* What join waits for.
Joined == thread \in {"none", "ended"}

\* Second half: the thread is waited for and freed.
Join ==
  /\ app = "joins" \/ app = "stopJoins"
  /\ Joined
  /\ status' = "UNINITIALIZED"
  /\ thread' = IF thread = "ended" THEN "none" ELSE thread
  /\ host' = 0 /\ answer' = 0 /\ written' = 0
  /\ app' = IF app = "joins" THEN "ends" ELSE "stopEnds"
  /\ UNCHANGED <<object, count, addresses, net_vars, pump_vars>>

\* The next name is looked up, by the same object, or the last was.
NextHost ==
  /\ app = "ends" /\ index < NumHosts
  /\ UNCHANGED index
  /\ StartLookup
  /\ net' = IF status' = "ERROR" THEN "INIT_FAILED" ELSE net
  /\ app' = "idle"
  /\ UNCHANGED <<object, count, addresses, answer, written, found, pump_vars>>

\* The object goes, and what was in it.
Free ==
  /\ object' = FALSE
  /\ count' = 0 /\ addresses' = [i \in 0..Slots - 1 |-> Blank]

LastHost ==
  /\ app = "ends" /\ index = NumHosts
  /\ Free
  /\ app' = "idle"
  /\ UNCHANGED <<status, thread_vars, net_vars, pump_vars>>

\* bdNetImpl::stop, at any time between two pumps.
Stop ==
  /\ app = "idle" /\ net # "STOPPED"
  /\ app' = IF object THEN "stopping" ELSE "stopEnds"
  /\ UNCHANGED <<object_vars, thread_vars, net_vars, pump_vars>>

Stopped ==
  /\ app = "stopEnds"
  /\ Free
  /\ net' = "STOPPED" /\ index' = 0 /\ found' = {}
  /\ app' = "idle"
  /\ UNCHANGED <<status, thread_vars, pump_vars>>

PumpStep ==
  \/ ReadStatus \/ NotYet \/ Late \/ Cancel \/ TimeOut
  \/ ReadCount \/ CopyAddress \/ Advance
  \/ Quit \/ Join \/ NextHost \/ LastHost \/ Stopped

LookupNext == ThreadStep \/ Resolve \/ PumpStep \/ Start \/ StartWithout \/ FailOnline \/ Stop

LookupSpec == LookupInit /\ [][LookupNext]_vars

-----------------------------------------------------------------------------
\* Every variable has its type: no index runs past the list of names or the
\* array, whatever the two threads do to the count between two reads.
LookupTypeOK ==
  /\ net \in NetStatuses /\ index \in 0..NumHosts
  /\ found \subseteq Addresses \cup {Blank}
  /\ object \in BOOLEAN /\ status \in LookupStatuses /\ count \in 0..Slots
  /\ addresses \in [0..Slots - 1 -> Addresses \cup {Blank}]
  /\ thread \in ThreadPlaces /\ host \in 0..NumHosts - 1 /\ answer \in 0..Slots /\ written \in 0..answer
  /\ app \in AppPlaces /\ seen \in LookupStatuses /\ limit \in 0..Slots /\ copied \in 0..limit

\* No thread outlives the lookup it was started for: when the object is fresh
\* or gone, nothing is left that could write into it.  Nothing but the join
\* in quit orders the thread's last write before the next lookup's first.
ThreadsJoined == ~object \/ status = "UNINITIALIZED" => thread = "none"

\* bdNet only collects addresses a resolver gave for one of the names it has
\* looked up so far, never a place of the array nobody wrote, although it
\* reads count and array of lookups that were given up while their thread
\* writes them, and the count of one lookup over the addresses of the next.
OnlyRealAddresses == \A a \in found : a \in Addresses /\ a[1] <= index

\* A lookup that was seen to succeed has given every address of its answer by
\* the time the next name is taken.
SuccessIsCollected ==
  app = "advances" /\ seen = "SUCCEEDED" => \A i \in 0..answer - 1 : <<index, i>> \in found
=============================================================================
