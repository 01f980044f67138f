------------------------------ MODULE DTLSData ------------------------------
(***************************************************************************)
(* The data path of two established bdDTLSAssociations in one direction:   *)
(* the sender numbers its packets and puts 16 bits of the number on the    *)
(* wire (sendData), the network loses, repeats and reorders them, and the  *)
(* receiver widens the counter and asks its anti-replay store (handleData, *)
(* verify).  A restart of the association (reset) gives both ends fresh    *)
(* numbers and the receiver a fresh tag.                                   *)
(***************************************************************************)
EXTENDS SequenceNumber, StoreClient

CONSTANTS MaxSeq,     \* bound: packets sent under one tag
          MaxEpoch,   \* bound: restarts
          Drift       \* the network never brings a packet whose number is
                      \* Drift or more away from the last one checked

ASSUME DataAssumption == /\ MaxSeq \in Nat /\ MaxEpoch \in Nat
                         /\ Drift \in Nat /\ Drift <= Half
                         /\ -1 .. MaxSeq \subseteq SeqNumbers

VARIABLES m_localTag,   \* the receiver's tag: tags are drawn in the order 0, 1..
          m_seqNum,     \* the sender's last number under each tag, 0 if unused
          delivered     \* history: packets handed to the application

dataVars == <<clientVars, m_localTag, m_seqNum, delivered>>

Tags == 0 .. MaxEpoch
Packets == [vtag : Tags, seq : 1 .. MaxSeq]

\* Everything ever sent may still arrive, in any order and any number of times.
InFlight == {p \in Packets : p.seq <= m_seqNum[p.vtag]}

\* The network's promise about the packets of the current association.
NotTooFar(p) == p.vtag = m_localTag => /\ p.seq - m_lastSeq < Drift
                                       /\ m_lastSeq - p.seq < Drift

DataInit == /\ m_lastSeq = -1 /\ m_bitmap = {} /\ accepted = {}
            /\ checked = NoCheck
            /\ m_localTag = 0
            /\ m_seqNum = [t \in Tags |-> 0]
            /\ delivered = {}

\* bdDTLSAssociation::sendData with length below 1264: the packet carries
\* m_peerTag, which the handshake made equal to the receiver's m_localTag.
SendData == /\ m_seqNum[m_localTag] < MaxSeq
            /\ m_seqNum' = [m_seqNum EXCEPT ![m_localTag] = @ + 1]
            /\ UNCHANGED <<clientVars, m_localTag, delivered>>

\* The number verify derives from the 16 bits of the packet.
NewSeqNum(p) == Set(m_lastSeq, Wire(p.seq))

\* Mutants: the tag of a packet is not compared; a packet is handed on unless
\* it is too old.
AnyTag(p) == TRUE
VerifyLax(status) == status # "INVALID_SMALLER"

SameTag(p) == p.vtag = m_localTag

\* What verify hands on: of the three VALID answers only one.
VerifyAccepts(status) == status = "VALID_MUCH_LARGER"

\* bdDTLSAssociation::handleData in the established state, deserialize and
\* verify included.  The store changes whether or not verify says yes; a
\* packet with another tag changes nothing.
HandleData(p) ==
    /\ SameTag(p)
    /\ CallCheck(NewSeqNum(p))
    /\ delivered' = IF VerifyAccepts(Status(NewSeqNum(p)))
                    THEN delivered \cup {p} ELSE delivered
    /\ UNCHANGED <<m_localTag, m_seqNum>>

\* bdDTLSAssociation::reset at both ends: a tag never used before.
RestartAssociation == /\ m_localTag < MaxEpoch
                      /\ m_localTag' = m_localTag + 1
                      /\ CallReset(-1)
                      /\ UNCHANGED <<m_seqNum, delivered>>

DataNext == \/ SendData
            \/ \E p \in InFlight : NotTooFar(p) /\ HandleData(p)
            \/ RestartAssociation

DataSpec == DataInit /\ [][DataNext]_dataVars
-----------------------------------------------------------------------------
DataTypeOK == /\ m_localTag \in Tags
              /\ m_seqNum \in [Tags -> 0 .. MaxSeq]
              /\ m_lastSeq \in -1 .. MaxSeq
              /\ m_bitmap \subseteq Bits
              /\ delivered \subseteq Packets

\* Widening is exact: the number the receiver derives from 16 bits is the
\* number the sender used, across every wrap of the counter and every
\* reordering the network promises (bdSequenceNumber.cpp:83, verify at
\* bdDTLSAssociation.cpp:121).
WideningExact == \A p \in InFlight :
    SameTag(p) /\ NotTooFar(p) => NewSeqNum(p) = p.seq

\* A packet is handed to the application at most once, and none that was sent
\* before the last restart is handed over after it.
WouldDeliver(p) == SameTag(p) /\ VerifyAccepts(Status(NewSeqNum(p)))
DeliveredOnce == \A p \in InFlight :
    NotTooFar(p) /\ WouldDeliver(p) => /\ p \notin delivered
                                       /\ p.vtag = m_localTag

\* The log line of verify (bdDTLSAssociation.cpp:130), "is a duplicate of the
\* last", tells the truth: what is refused with it had been checked before.
RefusedAreDuplicates == \A p \in InFlight :
    SameTag(p) /\ NotTooFar(p) =>
        LET status == Status(NewSeqNum(p))
        IN  VerifyAccepts(status) \/ status = "INVALID_SMALLER"
                \/ p.seq \in accepted
=============================================================================
