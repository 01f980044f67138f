----------------------------- MODULE HostProofs -----------------------------
(***************************************************************************)
(* The invariants of the lookups, for any number of names and any size of   *)
(* the array.  The inductive invariant says, place by place of the two      *)
(* threads, what the array holds and which name the thread works for.       *)
(***************************************************************************)
EXTENDS HostLookup, TLAPS

\* The places of the application's thread at which a lookup is under way.
Pumping == {"checks", "cancels", "timesOut", "counts", "copies", "advances"}

\* What each place of the application's thread says of the object and the list.
PlacesKept ==
  /\ app \in Pumping \cup {"quits", "joins", "ends", "stopping", "stopJoins"} => object
  /\ app # "idle" => net # "STOPPED"
  /\ net = "STOPPED" => ~object /\ found = {}
  /\ object /\ app \in Pumping \cup {"idle"} => index < NumHosts /\ host = index
  /\ app \in {"ends", "stopEnds"} => thread = "none"
  /\ object => host <= index
  /\ ~object => count = 0

\* The places of the array below n hold the thread's own answer.
WrittenUpTo(n) == \A i \in 0..Slots - 1 : i < n => addresses[i] = <<host, i>>

\* What the thread has left in the array, place by place.
ThreadKept ==
  /\ thread \in {"begins", "resolves", "writes", "counts", "reports"} => object /\ status # "UNINITIALIZED"
  /\ thread = "writes" => WrittenUpTo(written)
  /\ thread = "counts" => WrittenUpTo(answer)
  /\ thread = "reports" => count = answer /\ WrittenUpTo(answer)

\* An address of the array is one a name looked up so far gave.
IsReal(a) == a \in Addresses /\ a[1] <= index

\* The places the count, or the bound pump has read, covers have been written.
CountedAreReal ==
  /\ object => \A i \in 0..Slots - 1 : i < count => IsReal(addresses[i])
  /\ app = "copies" => \A i \in 0..Slots - 1 : i < limit => IsReal(addresses[i])

\* A lookup that has succeeded: its thread has ended, its answer is complete.
Complete == thread = "ended" /\ count = answer /\ WrittenUpTo(answer)

SuccessKept ==
  /\ status = "SUCCEEDED" => Complete
  /\ app \in {"counts", "copies", "advances"} /\ seen = "SUCCEEDED" => Complete
  /\ app = "copies" /\ seen = "SUCCEEDED" =>
        limit = answer /\ \A i \in 0..copied - 1 : <<index, i>> \in found
  /\ SuccessIsCollected

LookupInv ==
  /\ LookupTypeOK
  /\ ThreadsJoined
  /\ OnlyRealAddresses
  /\ PlacesKept
  /\ ThreadKept
  /\ CountedAreReal
  /\ SuccessKept

\* A step keeps the types: it needs to know which name a pump is at.
LEMMA LookupTypeOKStep == ASSUME LookupInv, [LookupNext]_vars PROVE LookupTypeOK'
<1> USE HostsAssumption DEF vars, object_vars, thread_vars, pump_vars, net_vars
<1>1. CASE Begin
  BY <1>1 DEF Begin, LookupInv, LookupTypeOK, PlacesKept, Pumping, ThreadKept, LookupStatuses,
     ThreadPlaces, AppPlaces, Addresses, Blank
<1>2. CASE Resolve
  BY <1>2 DEF Resolve, LookupInv, LookupTypeOK, PlacesKept, Pumping, ThreadKept, LookupStatuses,
     ThreadPlaces, AppPlaces, Addresses, Blank
<1>3. CASE WriteAddress
  <2>1. CASE written < answer
    <3>1. <<host, written>> \in Addresses /\ written \in 0..Slots - 1 /\ written + 1 \in 0..answer
      BY <2>1 DEF LookupInv, LookupTypeOK, Addresses
    <3>2. addresses' \in [0..Slots - 1 -> Addresses \cup {Blank}]
      BY <1>3, <2>1, <3>1 DEF WriteAddress, LookupInv, LookupTypeOK
    <3>3. /\ written' \in 0..answer
          /\ UNCHANGED <<object, status, count, thread, host, answer, pump_vars, net_vars, app>>
      BY <1>3, <2>1, <3>1 DEF WriteAddress
    <3> QED
      BY <3>2, <3>3 DEF LookupInv, LookupTypeOK, Blank
  <2>2. CASE ~(written < answer)
    BY <1>3, <2>2 DEF WriteAddress, LookupInv, LookupTypeOK, ThreadPlaces, Blank
  <2> QED
    BY <2>1, <2>2
<1>4. CASE WriteCount
  BY <1>4 DEF WriteCount, LookupInv, LookupTypeOK, PlacesKept, Pumping, ThreadKept,
     LookupStatuses, ThreadPlaces, AppPlaces, Addresses, Blank
<1>5. CASE Report
  BY <1>5 DEF Report, LookupInv, LookupTypeOK, PlacesKept, Pumping, ThreadKept, LookupStatuses,
     ThreadPlaces, AppPlaces, Addresses, Blank
<1>6. CASE Start
  BY <1>6 DEF Start, NetStatuses, StartLookup, LookupInv, LookupTypeOK, PlacesKept, Pumping, ThreadKept,
     LookupStatuses, ThreadPlaces, AppPlaces, Addresses, Blank
<1>7. CASE ReadStatus
  BY <1>7 DEF ReadStatus, LookupInv, LookupTypeOK, PlacesKept, Pumping, ThreadKept,
     LookupStatuses, ThreadPlaces, AppPlaces, Addresses, Blank
<1>8. CASE NotYet
  BY <1>8 DEF NotYet, LookupInv, LookupTypeOK, PlacesKept, Pumping, ThreadKept, LookupStatuses,
     ThreadPlaces, AppPlaces, Addresses, Blank
<1>9. CASE Late
  BY <1>9 DEF Late, LookupInv, LookupTypeOK, PlacesKept, Pumping, ThreadKept, LookupStatuses,
     ThreadPlaces, AppPlaces, Addresses, Blank
<1>10. CASE Cancel
  BY <1>10 DEF Cancel, LookupInv, LookupTypeOK, PlacesKept, Pumping, ThreadKept, LookupStatuses,
     ThreadPlaces, AppPlaces, Addresses, Blank
<1>11. CASE TimeOut
  BY <1>11 DEF TimeOut, LookupInv, LookupTypeOK, PlacesKept, Pumping, ThreadKept,
     LookupStatuses, ThreadPlaces, AppPlaces, Addresses, Blank
<1>12. CASE ReadCount
  BY <1>12 DEF ReadCount, LookupInv, LookupTypeOK, PlacesKept, Pumping, ThreadKept,
     LookupStatuses, ThreadPlaces, AppPlaces, Addresses, Blank
<1>13. CASE CopyAddress
  BY <1>13 DEF CopyAddress, LoopEnd, LookupInv, LookupTypeOK, PlacesKept, Pumping, ThreadKept,
     LookupStatuses, ThreadPlaces, AppPlaces, Addresses, Blank
<1>14. CASE Advance
  BY <1>14 DEF Advance, ForgetReads, LookupInv, LookupTypeOK, PlacesKept, Pumping, ThreadKept,
     LookupStatuses, ThreadPlaces, AppPlaces, Addresses, Blank
<1>15. CASE Quit
  BY <1>15 DEF Quit, CancelPending, LookupInv, LookupTypeOK, PlacesKept, Pumping, ThreadKept,
     LookupStatuses, ThreadPlaces, AppPlaces, Addresses, Blank
<1>16. CASE Join
  BY <1>16 DEF Join, Joined, LookupInv, LookupTypeOK, PlacesKept, Pumping, ThreadKept,
     LookupStatuses, ThreadPlaces, AppPlaces, Addresses, Blank
<1>17. CASE NextHost
  BY <1>17 DEF NextHost, NetStatuses, StartLookup, LookupInv, LookupTypeOK, PlacesKept, Pumping, ThreadKept,
     LookupStatuses, ThreadPlaces, AppPlaces, Addresses, Blank
<1>18. CASE LastHost
  <2>1. [i \in 0..Slots - 1 |-> Blank] \in [0..Slots - 1 -> Addresses \cup {Blank}] /\ 0 \in 0..Slots
    OBVIOUS
  <2> QED
    BY <1>18, <2>1 DEF LastHost, Free, LookupInv, LookupTypeOK, AppPlaces
<1>19. CASE Stopped
  <2>1. /\ 0 \in 0..NumHosts /\ {} \subseteq Addresses \cup {Blank}
        /\ [i \in 0..Slots - 1 |-> Blank] \in [0..Slots - 1 -> Addresses \cup {Blank}] /\ 0 \in 0..Slots
    OBVIOUS
  <2> QED
    BY <1>19, <2>1 DEF Stopped, NetStatuses, Free, LookupInv, LookupTypeOK, AppPlaces
<1>20. CASE Stop
  BY <1>20 DEF Stop, LookupInv, LookupTypeOK, PlacesKept, Pumping, ThreadKept, LookupStatuses,
     ThreadPlaces, AppPlaces, Addresses, Blank
<1>21. CASE UNCHANGED vars
  BY <1>21 DEF LookupInv, LookupTypeOK, PlacesKept, Pumping, ThreadKept, LookupStatuses,
     ThreadPlaces, AppPlaces, Addresses, Blank
<1>22. CASE StartWithout
  BY <1>22 DEF StartWithout, NetStatuses, LookupInv, LookupTypeOK, PlacesKept, Pumping, ThreadKept, LookupStatuses,
     ThreadPlaces, AppPlaces, Addresses, Blank
<1>23. CASE FailOnline
  BY <1>23 DEF FailOnline, NetStatuses, LookupInv, LookupTypeOK, PlacesKept, Pumping, ThreadKept, LookupStatuses,
     ThreadPlaces, AppPlaces, Addresses, Blank
<1> QED
  BY <1>1, <1>2, <1>3, <1>4, <1>5, <1>6, <1>7, <1>8, <1>9, <1>10, <1>11, <1>12, <1>13, <1>14,
     <1>15, <1>16, <1>17, <1>18, <1>19, <1>20, <1>21, <1>22, <1>23 DEF LookupNext, ThreadStep, PumpStep

\* A step leaves no thread behind: the object goes, and is fresh, after a join.
LEMMA ThreadsJoinedStep == ASSUME LookupInv, [LookupNext]_vars PROVE ThreadsJoined'
<1> USE HostsAssumption DEF vars, object_vars, thread_vars, pump_vars, net_vars
<1>1. CASE Begin
  BY <1>1 DEF Begin, LookupInv, LookupTypeOK, ThreadsJoined, PlacesKept, Pumping, ThreadKept
<1>2. CASE Resolve
  BY <1>2 DEF Resolve, LookupInv, LookupTypeOK, ThreadsJoined, PlacesKept, Pumping, ThreadKept
<1>3. CASE WriteAddress
  BY <1>3 DEF WriteAddress, LookupInv, LookupTypeOK, ThreadsJoined, PlacesKept, Pumping, ThreadKept
<1>4. CASE WriteCount
  BY <1>4 DEF WriteCount, LookupInv, LookupTypeOK, ThreadsJoined, PlacesKept, Pumping, ThreadKept
<1>5. CASE Report
  BY <1>5 DEF Report, LookupInv, LookupTypeOK, ThreadsJoined, PlacesKept, Pumping, ThreadKept
<1>6. CASE Start
  BY <1>6 DEF Start, StartLookup, LookupInv, LookupTypeOK, ThreadsJoined, PlacesKept, Pumping,
     ThreadKept
<1>7. CASE ReadStatus
  BY <1>7 DEF ReadStatus, LookupInv, LookupTypeOK, ThreadsJoined, PlacesKept, Pumping, ThreadKept
<1>8. CASE NotYet
  BY <1>8 DEF NotYet, LookupInv, LookupTypeOK, ThreadsJoined, PlacesKept, Pumping, ThreadKept
<1>9. CASE Late
  BY <1>9 DEF Late, LookupInv, LookupTypeOK, ThreadsJoined, PlacesKept, Pumping, ThreadKept
<1>10. CASE Cancel
  BY <1>10 DEF Cancel, LookupInv, LookupTypeOK, ThreadsJoined, PlacesKept, Pumping, ThreadKept
<1>11. CASE TimeOut
  BY <1>11 DEF TimeOut, LookupInv, LookupTypeOK, ThreadsJoined, PlacesKept, Pumping, ThreadKept
<1>12. CASE ReadCount
  BY <1>12 DEF ReadCount, LookupInv, LookupTypeOK, ThreadsJoined, PlacesKept, Pumping, ThreadKept
<1>13. CASE CopyAddress
  BY <1>13 DEF CopyAddress, LoopEnd, LookupInv, LookupTypeOK, ThreadsJoined, PlacesKept,
     Pumping, ThreadKept
<1>14. CASE Advance
  BY <1>14 DEF Advance, ForgetReads, LookupInv, LookupTypeOK, ThreadsJoined, PlacesKept, Pumping, ThreadKept
<1>15. CASE Quit
  BY <1>15 DEF Quit, CancelPending, LookupInv, LookupTypeOK, ThreadsJoined, PlacesKept, Pumping,
     ThreadKept
<1>16. CASE Join
  BY <1>16 DEF Join, Joined, LookupInv, LookupTypeOK, ThreadsJoined, PlacesKept, Pumping, ThreadKept
<1>17. CASE NextHost
  BY <1>17 DEF NextHost, StartLookup, LookupInv, LookupTypeOK, ThreadsJoined, PlacesKept,
     Pumping, ThreadKept
<1>18. CASE LastHost
  BY <1>18 DEF LastHost, Free, LookupInv, LookupTypeOK, ThreadsJoined, PlacesKept, Pumping, ThreadKept
<1>19. CASE Stopped
  BY <1>19 DEF Stopped, Free, LookupInv, LookupTypeOK, ThreadsJoined, PlacesKept, Pumping, ThreadKept
<1>20. CASE Stop
  BY <1>20 DEF Stop, LookupInv, LookupTypeOK, ThreadsJoined, PlacesKept, Pumping, ThreadKept
<1>21. CASE UNCHANGED vars
  BY <1>21 DEF LookupInv, LookupTypeOK, ThreadsJoined, PlacesKept, Pumping, ThreadKept
<1>22. CASE StartWithout
  BY <1>22 DEF StartWithout, LookupInv, LookupTypeOK, ThreadsJoined, PlacesKept, Pumping, ThreadKept
<1>23. CASE FailOnline
  BY <1>23 DEF FailOnline, LookupInv, LookupTypeOK, ThreadsJoined, PlacesKept, Pumping, ThreadKept
<1> QED
  BY <1>1, <1>2, <1>3, <1>4, <1>5, <1>6, <1>7, <1>8, <1>9, <1>10, <1>11, <1>12, <1>13, <1>14,
     <1>15, <1>16, <1>17, <1>18, <1>19, <1>20, <1>21, <1>22, <1>23 DEF LookupNext, ThreadStep, PumpStep

\* A step collects only what the count covers, and that has been written.
LEMMA OnlyRealAddressesStep == ASSUME LookupInv, [LookupNext]_vars PROVE OnlyRealAddresses'
<1> USE HostsAssumption DEF vars, object_vars, thread_vars, pump_vars, net_vars
<1>1. CASE Begin
  BY <1>1 DEF Begin, LookupInv, LookupTypeOK, OnlyRealAddresses, PlacesKept, Pumping,
     CountedAreReal, IsReal
<1>2. CASE Resolve
  BY <1>2 DEF Resolve, LookupInv, LookupTypeOK, OnlyRealAddresses, PlacesKept, Pumping,
     CountedAreReal, IsReal
<1>3. CASE WriteAddress
  BY <1>3 DEF WriteAddress, LookupInv, LookupTypeOK, OnlyRealAddresses, PlacesKept, Pumping,
     CountedAreReal, IsReal
<1>4. CASE WriteCount
  BY <1>4 DEF WriteCount, LookupInv, LookupTypeOK, OnlyRealAddresses, PlacesKept, Pumping,
     CountedAreReal, IsReal
<1>5. CASE Report
  BY <1>5 DEF Report, LookupInv, LookupTypeOK, OnlyRealAddresses, PlacesKept, Pumping,
     CountedAreReal, IsReal
<1>6. CASE Start
  BY <1>6 DEF Start, StartLookup, LookupInv, LookupTypeOK, OnlyRealAddresses, PlacesKept,
     Pumping, CountedAreReal, IsReal
<1>7. CASE ReadStatus
  BY <1>7 DEF ReadStatus, LookupInv, LookupTypeOK, OnlyRealAddresses, PlacesKept, Pumping,
     CountedAreReal, IsReal
<1>8. CASE NotYet
  BY <1>8 DEF NotYet, LookupInv, LookupTypeOK, OnlyRealAddresses, PlacesKept, Pumping,
     CountedAreReal, IsReal
<1>9. CASE Late
  BY <1>9 DEF Late, LookupInv, LookupTypeOK, OnlyRealAddresses, PlacesKept, Pumping,
     CountedAreReal, IsReal
<1>10. CASE Cancel
  BY <1>10 DEF Cancel, LookupInv, LookupTypeOK, OnlyRealAddresses, PlacesKept, Pumping,
     CountedAreReal, IsReal
<1>11. CASE TimeOut
  BY <1>11 DEF TimeOut, LookupInv, LookupTypeOK, OnlyRealAddresses, PlacesKept, Pumping,
     CountedAreReal, IsReal
<1>12. CASE ReadCount
  BY <1>12 DEF ReadCount, LookupInv, LookupTypeOK, OnlyRealAddresses, PlacesKept, Pumping,
     CountedAreReal, IsReal
<1>13. CASE CopyAddress
  BY <1>13 DEF CopyAddress, LoopEnd, LookupInv, LookupTypeOK, OnlyRealAddresses, PlacesKept,
     Pumping, CountedAreReal, IsReal
<1>14. CASE Advance
  <2>1. SUFFICES ASSUME NEW a \in found PROVE a \in Addresses /\ a[1] <= index + 1
    BY <1>14 DEF Advance, ForgetReads, OnlyRealAddresses, net_vars
  <2>2. a \in Addresses /\ a[1] <= index /\ a[1] \in Nat /\ index \in Nat
    BY DEF LookupInv, LookupTypeOK, OnlyRealAddresses, Addresses
  <2> QED
    BY <2>2
<1>15. CASE Quit
  BY <1>15 DEF Quit, CancelPending, LookupInv, LookupTypeOK, OnlyRealAddresses, PlacesKept,
     Pumping, CountedAreReal, IsReal
<1>16. CASE Join
  BY <1>16 DEF Join, Joined, LookupInv, LookupTypeOK, OnlyRealAddresses, PlacesKept, Pumping,
     CountedAreReal, IsReal
<1>17. CASE NextHost
  BY <1>17 DEF NextHost, StartLookup, LookupInv, LookupTypeOK, OnlyRealAddresses, PlacesKept,
     Pumping, CountedAreReal, IsReal
<1>18. CASE LastHost
  BY <1>18 DEF LastHost, Free, LookupInv, LookupTypeOK, OnlyRealAddresses, PlacesKept, Pumping,
     CountedAreReal, IsReal
<1>19. CASE Stopped
  BY <1>19 DEF Stopped, Free, LookupInv, LookupTypeOK, OnlyRealAddresses, PlacesKept, Pumping,
     CountedAreReal, IsReal
<1>20. CASE Stop
  BY <1>20 DEF Stop, LookupInv, LookupTypeOK, OnlyRealAddresses, PlacesKept, Pumping,
     CountedAreReal, IsReal
<1>21. CASE UNCHANGED vars
  BY <1>21 DEF LookupInv, LookupTypeOK, OnlyRealAddresses, PlacesKept, Pumping, CountedAreReal,
     IsReal
<1>22. CASE StartWithout
  BY <1>22 DEF StartWithout, LookupInv, LookupTypeOK, OnlyRealAddresses, PlacesKept, Pumping,
     CountedAreReal, IsReal
<1>23. CASE FailOnline
  BY <1>23 DEF FailOnline, LookupInv, LookupTypeOK, OnlyRealAddresses, PlacesKept, Pumping,
     CountedAreReal, IsReal
<1> QED
  BY <1>1, <1>2, <1>3, <1>4, <1>5, <1>6, <1>7, <1>8, <1>9, <1>10, <1>11, <1>12, <1>13, <1>14,
     <1>15, <1>16, <1>17, <1>18, <1>19, <1>20, <1>21, <1>22, <1>23 DEF LookupNext, ThreadStep, PumpStep

\* A step keeps the object, the name and the list in step with the place of the pump.
LEMMA PlacesKeptStep == ASSUME LookupInv, [LookupNext]_vars PROVE PlacesKept'
<1> USE HostsAssumption DEF vars, object_vars, thread_vars, pump_vars, net_vars
<1>1. CASE Begin
  BY <1>1 DEF Begin, LookupInv, LookupTypeOK, PlacesKept, Pumping, ThreadsJoined, ThreadKept
<1>2. CASE Resolve
  BY <1>2 DEF Resolve, LookupInv, LookupTypeOK, PlacesKept, Pumping, ThreadsJoined, ThreadKept
<1>3. CASE WriteAddress
  BY <1>3 DEF WriteAddress, LookupInv, LookupTypeOK, PlacesKept, Pumping, ThreadsJoined, ThreadKept
<1>4. CASE WriteCount
  BY <1>4 DEF WriteCount, LookupInv, LookupTypeOK, PlacesKept, Pumping, ThreadsJoined, ThreadKept
<1>5. CASE Report
  BY <1>5 DEF Report, LookupInv, LookupTypeOK, PlacesKept, Pumping, ThreadsJoined, ThreadKept
<1>6. CASE Start
  BY <1>6 DEF Start, StartLookup, LookupInv, LookupTypeOK, PlacesKept, Pumping, ThreadsJoined,
     ThreadKept
<1>7. CASE ReadStatus
  BY <1>7 DEF ReadStatus, LookupInv, LookupTypeOK, PlacesKept, Pumping, ThreadsJoined, ThreadKept
<1>8. CASE NotYet
  BY <1>8 DEF NotYet, LookupInv, LookupTypeOK, PlacesKept, Pumping, ThreadsJoined, ThreadKept
<1>9. CASE Late
  BY <1>9 DEF Late, LookupInv, LookupTypeOK, PlacesKept, Pumping, ThreadsJoined, ThreadKept
<1>10. CASE Cancel
  BY <1>10 DEF Cancel, LookupInv, LookupTypeOK, PlacesKept, Pumping, ThreadsJoined, ThreadKept
<1>11. CASE TimeOut
  BY <1>11 DEF TimeOut, LookupInv, LookupTypeOK, PlacesKept, Pumping, ThreadsJoined, ThreadKept
<1>12. CASE ReadCount
  BY <1>12 DEF ReadCount, LookupInv, LookupTypeOK, PlacesKept, Pumping, ThreadsJoined, ThreadKept
<1>13. CASE CopyAddress
  BY <1>13 DEF CopyAddress, LoopEnd, LookupInv, LookupTypeOK, PlacesKept, Pumping,
     ThreadsJoined, ThreadKept
<1>14. CASE Advance
  BY <1>14 DEF Advance, ForgetReads, LookupInv, LookupTypeOK, PlacesKept, Pumping, ThreadsJoined, ThreadKept
<1>15. CASE Quit
  BY <1>15 DEF Quit, CancelPending, LookupInv, LookupTypeOK, PlacesKept, Pumping, ThreadsJoined,
     ThreadKept
<1>16. CASE Join
  BY <1>16 DEF Join, Joined, LookupInv, LookupTypeOK, PlacesKept, Pumping, ThreadsJoined, ThreadKept
<1>17. CASE NextHost
  BY <1>17 DEF NextHost, StartLookup, LookupInv, LookupTypeOK, PlacesKept, Pumping,
     ThreadsJoined, ThreadKept
<1>18. CASE LastHost
  BY <1>18 DEF LastHost, Free, LookupInv, LookupTypeOK, PlacesKept, Pumping, ThreadsJoined, ThreadKept
<1>19. CASE Stopped
  BY <1>19 DEF Stopped, Free, LookupInv, LookupTypeOK, PlacesKept, Pumping, ThreadsJoined, ThreadKept
<1>20. CASE Stop
  BY <1>20 DEF Stop, LookupInv, LookupTypeOK, PlacesKept, Pumping, ThreadsJoined, ThreadKept
<1>21. CASE UNCHANGED vars
  BY <1>21 DEF LookupInv, LookupTypeOK, PlacesKept, Pumping, ThreadsJoined, ThreadKept
<1>22. CASE StartWithout
  BY <1>22 DEF StartWithout, LookupInv, LookupTypeOK, PlacesKept, Pumping, ThreadsJoined, ThreadKept
<1>23. CASE FailOnline
  BY <1>23 DEF FailOnline, LookupInv, LookupTypeOK, PlacesKept, Pumping, ThreadsJoined, ThreadKept
<1> QED
  BY <1>1, <1>2, <1>3, <1>4, <1>5, <1>6, <1>7, <1>8, <1>9, <1>10, <1>11, <1>12, <1>13, <1>14,
     <1>15, <1>16, <1>17, <1>18, <1>19, <1>20, <1>21, <1>22, <1>23 DEF LookupNext, ThreadStep, PumpStep

\* A step keeps what the thread has written, place by place.
LEMMA ThreadKeptStep == ASSUME LookupInv, [LookupNext]_vars PROVE ThreadKept'
<1> USE HostsAssumption DEF vars, object_vars, thread_vars, pump_vars, net_vars
<1>1. CASE Begin
  BY <1>1 DEF Begin, LookupInv, LookupTypeOK, PlacesKept, Pumping, ThreadKept, ThreadsJoined,
     WrittenUpTo
<1>2. CASE Resolve
  BY <1>2 DEF Resolve, LookupInv, LookupTypeOK, PlacesKept, Pumping, ThreadKept, ThreadsJoined,
     WrittenUpTo
<1>3. CASE WriteAddress
  BY <1>3 DEF WriteAddress, LookupInv, LookupTypeOK, PlacesKept, Pumping, ThreadKept,
     ThreadsJoined, WrittenUpTo
<1>4. CASE WriteCount
  BY <1>4 DEF WriteCount, LookupInv, LookupTypeOK, PlacesKept, Pumping, ThreadKept,
     ThreadsJoined, WrittenUpTo
<1>5. CASE Report
  BY <1>5 DEF Report, LookupInv, LookupTypeOK, PlacesKept, Pumping, ThreadKept, ThreadsJoined,
     WrittenUpTo
<1>6. CASE Start
  BY <1>6 DEF Start, StartLookup, LookupInv, LookupTypeOK, PlacesKept, Pumping, ThreadKept,
     ThreadsJoined, WrittenUpTo
<1>7. CASE ReadStatus
  BY <1>7 DEF ReadStatus, LookupInv, LookupTypeOK, PlacesKept, Pumping, ThreadKept,
     ThreadsJoined, WrittenUpTo
<1>8. CASE NotYet
  BY <1>8 DEF NotYet, LookupInv, LookupTypeOK, PlacesKept, Pumping, ThreadKept, ThreadsJoined,
     WrittenUpTo
<1>9. CASE Late
  BY <1>9 DEF Late, LookupInv, LookupTypeOK, PlacesKept, Pumping, ThreadKept, ThreadsJoined,
     WrittenUpTo
<1>10. CASE Cancel
  BY <1>10 DEF Cancel, LookupInv, LookupTypeOK, PlacesKept, Pumping, ThreadKept, ThreadsJoined,
     WrittenUpTo
<1>11. CASE TimeOut
  BY <1>11 DEF TimeOut, LookupInv, LookupTypeOK, PlacesKept, Pumping, ThreadKept, ThreadsJoined,
     WrittenUpTo
<1>12. CASE ReadCount
  BY <1>12 DEF ReadCount, LookupInv, LookupTypeOK, PlacesKept, Pumping, ThreadKept,
     ThreadsJoined, WrittenUpTo
<1>13. CASE CopyAddress
  BY <1>13 DEF CopyAddress, LoopEnd, LookupInv, LookupTypeOK, PlacesKept, Pumping, ThreadKept,
     ThreadsJoined, WrittenUpTo
<1>14. CASE Advance
  BY <1>14 DEF Advance, ForgetReads, LookupInv, LookupTypeOK, PlacesKept, Pumping, ThreadKept, ThreadsJoined,
     WrittenUpTo
<1>15. CASE Quit
  BY <1>15 DEF Quit, CancelPending, LookupInv, LookupTypeOK, PlacesKept, Pumping, ThreadKept,
     ThreadsJoined, WrittenUpTo
<1>16. CASE Join
  BY <1>16 DEF Join, Joined, LookupInv, LookupTypeOK, PlacesKept, Pumping, ThreadKept,
     ThreadsJoined, WrittenUpTo
<1>17. CASE NextHost
  BY <1>17 DEF NextHost, StartLookup, LookupInv, LookupTypeOK, PlacesKept, Pumping, ThreadKept,
     ThreadsJoined, WrittenUpTo
<1>18. CASE LastHost
  BY <1>18 DEF LastHost, Free, LookupInv, LookupTypeOK, PlacesKept, Pumping, ThreadKept,
     ThreadsJoined, WrittenUpTo
<1>19. CASE Stopped
  BY <1>19 DEF Stopped, Free, LookupInv, LookupTypeOK, PlacesKept, Pumping, ThreadKept, ThreadsJoined,
     WrittenUpTo
<1>20. CASE Stop
  BY <1>20 DEF Stop, LookupInv, LookupTypeOK, PlacesKept, Pumping, ThreadKept, ThreadsJoined,
     WrittenUpTo
<1>21. CASE UNCHANGED vars
  BY <1>21 DEF LookupInv, LookupTypeOK, PlacesKept, Pumping, ThreadKept, ThreadsJoined, WrittenUpTo
<1>22. CASE StartWithout
  BY <1>22 DEF StartWithout, LookupInv, LookupTypeOK, PlacesKept, Pumping, ThreadKept, ThreadsJoined,
     WrittenUpTo
<1>23. CASE FailOnline
  BY <1>23 DEF FailOnline, LookupInv, LookupTypeOK, PlacesKept, Pumping, ThreadKept, ThreadsJoined,
     WrittenUpTo
<1> QED
  BY <1>1, <1>2, <1>3, <1>4, <1>5, <1>6, <1>7, <1>8, <1>9, <1>10, <1>11, <1>12, <1>13, <1>14,
     <1>15, <1>16, <1>17, <1>18, <1>19, <1>20, <1>21, <1>22, <1>23 DEF LookupNext, ThreadStep, PumpStep

\* A step never lets the count run ahead of the array.
LEMMA CountedAreRealStep == ASSUME LookupInv, [LookupNext]_vars PROVE CountedAreReal'
<1> USE HostsAssumption DEF vars, object_vars, thread_vars, pump_vars, net_vars
<1>1. CASE Begin
  BY <1>1 DEF Begin, LookupInv, LookupTypeOK, PlacesKept, Pumping, ThreadKept, WrittenUpTo,
     CountedAreReal, IsReal, Addresses
<1>2. CASE Resolve
  BY <1>2 DEF Resolve, LookupInv, LookupTypeOK, PlacesKept, Pumping, ThreadKept, WrittenUpTo,
     CountedAreReal, IsReal, Addresses
<1>3. CASE WriteAddress
  <2>1. CASE written < answer
    <3>1. /\ addresses' = [addresses EXCEPT ![written] = <<host, written>>]
          /\ written \in 0..Slots - 1 /\ object /\ host <= index
      BY <1>3, <2>1 DEF WriteAddress, LookupInv, LookupTypeOK, ThreadKept, PlacesKept
    <3>2. IsReal(<<host, written>>)
      BY <3>1 DEF LookupInv, LookupTypeOK, IsReal, Addresses
    <3>3. \A i \in 0..Slots - 1 : addresses'[i] = IF i = written THEN <<host, written>> ELSE addresses[i]
      BY <3>1 DEF LookupInv, LookupTypeOK
    <3>4. UNCHANGED <<object, count, limit, index, app>>
      BY <1>3 DEF WriteAddress, pump_vars, net_vars
    <3> QED
      BY <3>1, <3>2, <3>3, <3>4 DEF LookupInv, CountedAreReal, IsReal
  <2>2. CASE ~(written < answer)
    BY <1>3, <2>2 DEF WriteAddress, LookupInv, LookupTypeOK, PlacesKept, Pumping, ThreadKept,
       WrittenUpTo, CountedAreReal, IsReal, Addresses
  <2> QED
    BY <2>1, <2>2
<1>4. CASE WriteCount
  <2>1. UNCHANGED <<object, addresses, limit, index, app>> /\ count' = answer /\ object /\ host <= index
    BY <1>4 DEF WriteCount, pump_vars, net_vars, LookupInv, ThreadKept, PlacesKept
  <2>2. ASSUME NEW i \in 0..Slots - 1, i < answer PROVE IsReal(addresses[i])
    <3>1. addresses[i] = <<host, i>>
      BY <1>4, <2>2 DEF WriteCount, LookupInv, ThreadKept, WrittenUpTo
    <3> QED
      BY <2>1, <3>1 DEF LookupInv, LookupTypeOK, IsReal, Addresses
  <2> QED
    BY <2>1, <2>2 DEF LookupInv, CountedAreReal, IsReal
<1>5. CASE Report
  BY <1>5 DEF Report, LookupInv, LookupTypeOK, PlacesKept, Pumping, ThreadKept, WrittenUpTo,
     CountedAreReal, IsReal, Addresses
<1>6. CASE Start
  BY <1>6 DEF Start, StartLookup, LookupInv, LookupTypeOK, PlacesKept, Pumping, ThreadKept,
     WrittenUpTo, CountedAreReal, IsReal, Addresses
<1>7. CASE ReadStatus
  BY <1>7 DEF ReadStatus, LookupInv, LookupTypeOK, PlacesKept, Pumping, ThreadKept, WrittenUpTo,
     CountedAreReal, IsReal, Addresses
<1>8. CASE NotYet
  BY <1>8 DEF NotYet, LookupInv, LookupTypeOK, PlacesKept, Pumping, ThreadKept, WrittenUpTo,
     CountedAreReal, IsReal, Addresses
<1>9. CASE Late
  BY <1>9 DEF Late, LookupInv, LookupTypeOK, PlacesKept, Pumping, ThreadKept, WrittenUpTo,
     CountedAreReal, IsReal, Addresses
<1>10. CASE Cancel
  BY <1>10 DEF Cancel, LookupInv, LookupTypeOK, PlacesKept, Pumping, ThreadKept, WrittenUpTo,
     CountedAreReal, IsReal, Addresses
<1>11. CASE TimeOut
  BY <1>11 DEF TimeOut, LookupInv, LookupTypeOK, PlacesKept, Pumping, ThreadKept, WrittenUpTo,
     CountedAreReal, IsReal, Addresses
<1>12. CASE ReadCount
  BY <1>12 DEF ReadCount, LookupInv, LookupTypeOK, PlacesKept, Pumping, ThreadKept, WrittenUpTo,
     CountedAreReal, IsReal, Addresses
<1>13. CASE CopyAddress
  BY <1>13 DEF CopyAddress, LoopEnd, LookupInv, LookupTypeOK, PlacesKept, Pumping, ThreadKept,
     WrittenUpTo, CountedAreReal, IsReal, Addresses
<1>14. CASE Advance
  BY <1>14 DEF Advance, ForgetReads, LookupInv, LookupTypeOK, PlacesKept, Pumping, ThreadKept, WrittenUpTo,
     CountedAreReal, IsReal, Addresses
<1>15. CASE Quit
  BY <1>15 DEF Quit, CancelPending, LookupInv, LookupTypeOK, PlacesKept, Pumping, ThreadKept,
     WrittenUpTo, CountedAreReal, IsReal, Addresses
<1>16. CASE Join
  BY <1>16 DEF Join, Joined, LookupInv, LookupTypeOK, PlacesKept, Pumping, ThreadKept,
     WrittenUpTo, CountedAreReal, IsReal, Addresses
<1>17. CASE NextHost
  BY <1>17 DEF NextHost, StartLookup, LookupInv, LookupTypeOK, PlacesKept, Pumping, ThreadKept,
     WrittenUpTo, CountedAreReal, IsReal, Addresses
<1>18. CASE LastHost
  BY <1>18 DEF LastHost, Free, LookupInv, LookupTypeOK, PlacesKept, Pumping, ThreadKept, WrittenUpTo,
     CountedAreReal, IsReal, Addresses
<1>19. CASE Stopped
  BY <1>19 DEF Stopped, Free, LookupInv, LookupTypeOK, PlacesKept, Pumping, ThreadKept, WrittenUpTo,
     CountedAreReal, IsReal, Addresses
<1>20. CASE Stop
  BY <1>20 DEF Stop, LookupInv, LookupTypeOK, PlacesKept, Pumping, ThreadKept, WrittenUpTo,
     CountedAreReal, IsReal, Addresses
<1>21. CASE UNCHANGED vars
  BY <1>21 DEF LookupInv, LookupTypeOK, PlacesKept, Pumping, ThreadKept, WrittenUpTo,
     CountedAreReal, IsReal, Addresses
<1>22. CASE StartWithout
  BY <1>22 DEF StartWithout, LookupInv, LookupTypeOK, PlacesKept, Pumping, ThreadKept, WrittenUpTo,
     CountedAreReal, IsReal, Addresses
<1>23. CASE FailOnline
  BY <1>23 DEF FailOnline, LookupInv, LookupTypeOK, PlacesKept, Pumping, ThreadKept, WrittenUpTo,
     CountedAreReal, IsReal, Addresses
<1> QED
  BY <1>1, <1>2, <1>3, <1>4, <1>5, <1>6, <1>7, <1>8, <1>9, <1>10, <1>11, <1>12, <1>13, <1>14,
     <1>15, <1>16, <1>17, <1>18, <1>19, <1>20, <1>21, <1>22, <1>23 DEF LookupNext, ThreadStep, PumpStep

\* A step keeps a complete answer complete until the next name is taken.
LEMMA SuccessKeptStep == ASSUME LookupInv, [LookupNext]_vars PROVE SuccessKept'
<1> USE HostsAssumption DEF vars, object_vars, thread_vars, pump_vars, net_vars
<1>1. CASE Begin
  BY <1>1 DEF Begin, LookupInv, LookupTypeOK, PlacesKept, Pumping, ThreadKept, WrittenUpTo,
     SuccessKept, Complete, SuccessIsCollected
<1>2. CASE Resolve
  <2>1. ~Complete
    BY <1>2 DEF Resolve, Complete
  <2>2. status # "SUCCEEDED" /\ ~(app \in {"counts", "copies", "advances"} /\ seen = "SUCCEEDED")
    BY <2>1 DEF LookupInv, SuccessKept
  <2> QED
    BY <1>2, <2>2 DEF Resolve, LookupInv, LookupTypeOK, PlacesKept, Pumping, ThreadKept,
       WrittenUpTo, SuccessKept, Complete, SuccessIsCollected
<1>3. CASE WriteAddress
  BY <1>3 DEF WriteAddress, LookupInv, LookupTypeOK, PlacesKept, Pumping, ThreadKept,
     WrittenUpTo, SuccessKept, Complete, SuccessIsCollected
<1>4. CASE WriteCount
  BY <1>4 DEF WriteCount, LookupInv, LookupTypeOK, PlacesKept, Pumping, ThreadKept, WrittenUpTo,
     SuccessKept, Complete, SuccessIsCollected
<1>5. CASE Report
  BY <1>5 DEF Report, LookupInv, LookupTypeOK, PlacesKept, Pumping, ThreadKept, WrittenUpTo,
     SuccessKept, Complete, SuccessIsCollected
<1>6. CASE Start
  BY <1>6 DEF Start, StartLookup, LookupInv, LookupTypeOK, PlacesKept, Pumping, ThreadKept,
     WrittenUpTo, SuccessKept, Complete, SuccessIsCollected
<1>7. CASE ReadStatus
  BY <1>7 DEF ReadStatus, LookupInv, LookupTypeOK, PlacesKept, Pumping, ThreadKept, WrittenUpTo,
     SuccessKept, Complete, SuccessIsCollected
<1>8. CASE NotYet
  BY <1>8 DEF NotYet, LookupInv, LookupTypeOK, PlacesKept, Pumping, ThreadKept, WrittenUpTo,
     SuccessKept, Complete, SuccessIsCollected
<1>9. CASE Late
  BY <1>9 DEF Late, LookupInv, LookupTypeOK, PlacesKept, Pumping, ThreadKept, WrittenUpTo,
     SuccessKept, Complete, SuccessIsCollected
<1>10. CASE Cancel
  BY <1>10 DEF Cancel, LookupInv, LookupTypeOK, PlacesKept, Pumping, ThreadKept, WrittenUpTo,
     SuccessKept, Complete, SuccessIsCollected
<1>11. CASE TimeOut
  BY <1>11 DEF TimeOut, LookupInv, LookupTypeOK, PlacesKept, Pumping, ThreadKept, WrittenUpTo,
     SuccessKept, Complete, SuccessIsCollected
<1>12. CASE ReadCount
  BY <1>12 DEF ReadCount, LookupInv, LookupTypeOK, PlacesKept, Pumping, ThreadKept, WrittenUpTo,
     SuccessKept, Complete, SuccessIsCollected
<1>13. CASE CopyAddress
  <2> DEFINE Taken(n) == \A i \in 0..n - 1 : <<index, i>> \in found
  <2>1. UNCHANGED <<thread, count, addresses, host, answer, status, seen, index, limit>>
    BY <1>13 DEF CopyAddress, object_vars, thread_vars
  <2>2. CASE seen # "SUCCEEDED"
    BY <1>13, <2>1, <2>2 DEF CopyAddress, LookupInv, SuccessKept, SuccessIsCollected,
       Complete, WrittenUpTo
  <2>3. CASE seen = "SUCCEEDED"
    <3>1. Complete /\ limit = answer /\ Taken(copied) /\ host = index
      BY <1>13, <2>3 DEF CopyAddress, LookupInv, SuccessKept, PlacesKept, Pumping
    <3>2. CASE copied < limit
      <4>1. addresses[copied] = <<index, copied>>
        BY <3>1, <3>2 DEF LookupInv, LookupTypeOK, Complete, WrittenUpTo
      <4>2. app' = "copies" /\ copied' = copied + 1 /\ found' = found \cup {<<index, copied>>}
        BY <1>13, <3>2, <4>1 DEF CopyAddress, LoopEnd
      <4>3. \A i \in 0..copied' - 1 : <<index, i>> \in found'
        BY <3>1, <4>2 DEF LookupInv, LookupTypeOK
      <4> QED
        BY <2>1, <3>1, <4>2, <4>3 DEF LookupInv, SuccessKept, SuccessIsCollected,
           Complete, WrittenUpTo
    <3>3. CASE ~(copied < limit)
      <4>1. app' = "advances" /\ UNCHANGED found /\ copied = answer
        BY <1>13, <3>1, <3>3 DEF CopyAddress, LoopEnd, LookupInv, LookupTypeOK
      <4> QED
        BY <2>1, <3>1, <4>1 DEF LookupInv, SuccessKept, SuccessIsCollected, Complete, WrittenUpTo
    <3> QED
      BY <3>2, <3>3
  <2> QED
    BY <2>2, <2>3
<1>14. CASE Advance
  BY <1>14 DEF Advance, ForgetReads, LookupInv, LookupTypeOK, PlacesKept, Pumping, ThreadKept, WrittenUpTo,
     SuccessKept, Complete, SuccessIsCollected
<1>15. CASE Quit
  BY <1>15 DEF Quit, CancelPending, LookupInv, LookupTypeOK, PlacesKept, Pumping, ThreadKept,
     WrittenUpTo, SuccessKept, Complete, SuccessIsCollected
<1>16. CASE Join
  BY <1>16 DEF Join, Joined, LookupInv, LookupTypeOK, PlacesKept, Pumping, ThreadKept,
     WrittenUpTo, SuccessKept, Complete, SuccessIsCollected
<1>17. CASE NextHost
  BY <1>17 DEF NextHost, StartLookup, LookupInv, LookupTypeOK, PlacesKept, Pumping, ThreadKept,
     WrittenUpTo, SuccessKept, Complete, SuccessIsCollected
<1>18. CASE LastHost
  BY <1>18 DEF LastHost, Free, LookupInv, LookupTypeOK, PlacesKept, Pumping, ThreadKept, WrittenUpTo,
     SuccessKept, Complete, SuccessIsCollected
<1>19. CASE Stopped
  BY <1>19 DEF Stopped, Free, LookupInv, LookupTypeOK, PlacesKept, Pumping, ThreadKept, WrittenUpTo,
     SuccessKept, Complete, SuccessIsCollected
<1>20. CASE Stop
  BY <1>20 DEF Stop, LookupInv, LookupTypeOK, PlacesKept, Pumping, ThreadKept, WrittenUpTo,
     SuccessKept, Complete, SuccessIsCollected
<1>21. CASE UNCHANGED vars
  BY <1>21 DEF LookupInv, LookupTypeOK, PlacesKept, Pumping, ThreadKept, WrittenUpTo,
     SuccessKept, Complete, SuccessIsCollected
<1>22. CASE StartWithout
  BY <1>22 DEF StartWithout, LookupInv, LookupTypeOK, PlacesKept, Pumping, ThreadKept, WrittenUpTo,
     SuccessKept, Complete, SuccessIsCollected
<1>23. CASE FailOnline
  BY <1>23 DEF FailOnline, LookupInv, LookupTypeOK, PlacesKept, Pumping, ThreadKept, WrittenUpTo,
     SuccessKept, Complete, SuccessIsCollected
<1> QED
  BY <1>1, <1>2, <1>3, <1>4, <1>5, <1>6, <1>7, <1>8, <1>9, <1>10, <1>11, <1>12, <1>13, <1>14,
     <1>15, <1>16, <1>17, <1>18, <1>19, <1>20, <1>21, <1>22, <1>23 DEF LookupNext, ThreadStep, PumpStep

-----------------------------------------------------------------------------
\* The inductive invariant holds of every behaviour.
THEOREM LookupInvHolds == LookupSpec => []LookupInv
<1>1. LookupInit => LookupInv
  <2> SUFFICES ASSUME LookupInit PROVE LookupInv
    OBVIOUS
  <2> USE HostsAssumption DEF LookupInit
  <2>1. LookupTypeOK
    <3>1. 0 \in 0..NumHosts /\ 0 \in 0..NumHosts - 1 /\ 0 \in 0..Slots /\ 0 \in 0..0
      OBVIOUS
    <3>2. addresses \in [0..Slots - 1 -> Addresses \cup {Blank}] /\ found \subseteq Addresses \cup {Blank}
      BY DEF Addresses
    <3> QED
      BY <3>1, <3>2 DEF LookupTypeOK, NetStatuses, LookupStatuses, ThreadPlaces, AppPlaces
  <2>2. ThreadsJoined /\ OnlyRealAddresses /\ PlacesKept
    BY DEF ThreadsJoined, OnlyRealAddresses, PlacesKept, Pumping
  <2>3. ThreadKept /\ CountedAreReal /\ SuccessKept
    BY DEF ThreadKept, CountedAreReal, SuccessKept, SuccessIsCollected
  <2> QED
    BY <2>1, <2>2, <2>3 DEF LookupInv
<1>2. LookupInv /\ [LookupNext]_vars => LookupInv'
  BY LookupTypeOKStep, ThreadsJoinedStep, OnlyRealAddressesStep, PlacesKeptStep, ThreadKeptStep,
     CountedAreRealStep, SuccessKeptStep DEF LookupInv
<1> QED
  BY <1>1, <1>2, PTL DEF LookupSpec

\* No index of pump or of the thread runs out of the names or of the array,
\* for any number of names and any size of the array.
THEOREM LookupTypesHold == LookupSpec => []LookupTypeOK
<1>1. LookupInv => LookupTypeOK
  BY DEF LookupInv
<1> QED
  BY LookupInvHolds, <1>1, PTL

\* No thread outlives its lookup (bdGetHostByName::quit), for any number of names.
THEOREM ThreadsJoinedHolds == LookupSpec => []ThreadsJoined
<1>1. LookupInv => ThreadsJoined
  BY DEF LookupInv
<1> QED
  BY LookupInvHolds, <1>1, PTL

\* bdNetImpl::pump collects only addresses that were given, for any number of
\* names and addresses, although it reads without a lock what a thread writes.
THEOREM RealAddressesHold == LookupSpec => []OnlyRealAddresses
<1>1. LookupInv => OnlyRealAddresses
  BY DEF LookupInv
<1> QED
  BY LookupInvHolds, <1>1, PTL

\* A lookup seen to succeed gives bdNetImpl::pump its whole answer.
THEOREM SuccessCollectedHolds == LookupSpec => []SuccessIsCollected
<1>1. LookupInv => SuccessIsCollected
  BY DEF LookupInv, SuccessKept
<1> QED
  BY LookupInvHolds, <1>1, PTL
=============================================================================
