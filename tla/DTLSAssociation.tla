-------------------------- MODULE DTLSAssociation --------------------------
(***************************************************************************)
(* bdSocket/bdDTLS/bdDTLSAssociation: the four-way handshake by which two  *)
(* peers agree on a pair of tags, its retries and time limits, and what    *)
(* happens when one of them starts again.  The network loses, repeats and  *)
(* reorders: whatever was sent may arrive at any time and any number of    *)
(* times.  An expired cookie is ignored (checkCookieValidity), which is a  *)
(* loss; a cookie of somebody else does not exist here.                    *)
(***************************************************************************)
EXTENDS Integers

CONSTANTS Peers,       \* the two ends
          MaxResends,  \* 5 in the code, for INIT and for COOKIE_ECHO
          KeyKnown,    \* the answers bdSecurityKeyMap may give when it is asked
                       \* for the security ID of the association
          MaxTag       \* bound: random tags drawn

ASSUME AssociationAssumption ==
    /\ \E a, b \in Peers : a # b /\ Peers = {a, b}
    /\ MaxResends \in Nat /\ MaxTag \in Nat \ {0, 1}
    /\ KeyKnown \subseteq BOOLEAN

VARIABLES
    m_state, m_localTag, m_peerTag, m_initResends, m_cookieResends,
    m_initAck,       \* the cookie to echo
    m_sharedKey,     \* "none" until calculateSharedKey succeeded
    sent,            \* every packet ever sent
    lastTag          \* the random generator: tags 1..lastTag are used up

control == <<m_state, m_localTag, m_peerTag>>
resends == <<m_initResends, m_cookieResends>>
assocVars == <<control, resends, m_initAck, m_sharedKey,
               sent, lastTag>>

Other(e) == CHOOSE f \in Peers : f # e
Tags == 0 .. MaxTag

\* What INIT_ACK carries and COOKIE_ECHO brings back, signed by its author.
Cookies == [localTag : Tags, peerTag : Tags, localTieTag : Tags,
            peerTieTag : Tags]
NoCookie == [localTag |-> 0, peerTag |-> 0, localTieTag |-> 0,
             peerTieTag |-> 0]

\* The header's vtag is kept where the receiver looks at it; the vtag of an
\* INIT_ACK is its cookie's peerTag, its initTag the cookie's localTag.
Init(e)             == [type |-> "INIT", to |-> Other(e),
                        initTag |-> m_localTag[e]]
InitAck(e, c)       == [type |-> "INIT_ACK", to |-> Other(e), cookie |-> c]
CookieEcho(e, c)    == [type |-> "COOKIE_ECHO", to |-> Other(e), cookie |-> c]
CookieAck(e, vtag)  == [type |-> "COOKIE_ACK", to |-> Other(e), vtag |-> vtag]
Error(e, vtag)      == [type |-> "ERROR", to |-> Other(e), vtag |-> vtag]

Packets == [type : {"INIT"}, to : Peers, initTag : Tags]
           \cup [type : {"INIT_ACK", "COOKIE_ECHO"}, to : Peers,
                 cookie : Cookies]
           \cup [type : {"COOKIE_ACK", "ERROR"}, to : Peers, vtag : Tags]

Send(p) == sent' = sent \cup {p}
SetState(e, s) == m_state' = [m_state EXCEPT ![e] = s]

\* The constructor, and reset within it.
AssocInit == /\ m_state = [e \in Peers |-> "CLOSED"]
             /\ m_localTag \in {f \in [Peers -> 1 .. 2] :
                                    \A a, b \in Peers : f[a] = f[b] => a = b}
             /\ lastTag = 2
             /\ m_peerTag = [e \in Peers |-> 0]
             /\ m_initResends = [e \in Peers |-> 0]
             /\ m_cookieResends = [e \in Peers |-> 0]
             /\ m_initAck = [e \in Peers |-> NoCookie]
             /\ m_sharedKey = [e \in Peers |-> "none"]
             /\ sent = {}

\* The router deletes the association and creates a new one.
Recreate(e) ==
    /\ lastTag < MaxTag
    /\ lastTag' = lastTag + 1
    /\ SetState(e, "CLOSED")
    /\ m_localTag' = [m_localTag EXCEPT ![e] = lastTag + 1]
    /\ m_peerTag' = [m_peerTag EXCEPT ![e] = 0]
    /\ m_initResends' = [m_initResends EXCEPT ![e] = 0]
    /\ m_cookieResends' = [m_cookieResends EXCEPT ![e] = 0]
    /\ m_initAck' = [m_initAck EXCEPT ![e] = NoCookie]
    /\ m_sharedKey' = [m_sharedKey EXCEPT ![e] = "none"]
    /\ UNCHANGED << sent>>

-----------------------------------------------------------------------------
\* The resend counters count every attempt, the refused one included.
SendInit(e) ==
    /\ m_initResends' = [m_initResends EXCEPT ![e] = @ + 1]
    /\ IF m_initResends[e] > MaxResends THEN UNCHANGED sent ELSE Send(Init(e))

SendCookieEcho(e, c) ==
    /\ m_cookieResends' = [m_cookieResends EXCEPT ![e] = @ + 1]
    /\ IF m_cookieResends[e] > MaxResends THEN UNCHANGED sent
                                          ELSE Send(CookieEcho(e, c))

\* connect is called once, on a new association (bdSocketRouter.cpp:677).
Connect(e) ==
    /\ m_state[e] = "CLOSED" /\ m_initResends[e] = 0
    /\ SendInit(e)
    /\ SetState(e, "COOKIE_WAIT")
    /\ UNCHANGED <<m_localTag, m_peerTag, m_cookieResends, m_initAck,
                   m_sharedKey, lastTag>>

\* pump: m_receiveTimeout passed, or the address handle went bad.
PumpTimeout(e) ==
    /\ m_state[e] # "CLOSED"
    /\ SetState(e, "CLOSED")
    /\ UNCHANGED <<m_localTag, m_peerTag, resends, m_initAck, m_sharedKey,
                   sent, lastTag>>

\* Mutant: INIT is repeated for ever.
PumpInitForever(e) ==
    /\ m_state[e] = "COOKIE_WAIT"
    /\ SendInit(e)
    /\ UNCHANGED <<m_state, m_localTag, m_peerTag, m_cookieResends, m_initAck,
                   m_sharedKey, lastTag>>

\* pump: the init or the cookie timer passed one second.
PumpInit(e) ==
    /\ m_state[e] = "COOKIE_WAIT"
    /\ SendInit(e)
    /\ SetState(e, IF m_initResends[e] > MaxResends THEN "CLOSED"
                                                    ELSE "COOKIE_WAIT")
    /\ UNCHANGED <<m_localTag, m_peerTag, m_cookieResends, m_initAck,
                   m_sharedKey, lastTag>>

PumpCookie(e) ==
    /\ m_state[e] = "COOKIE_ECHOED"
    /\ SendCookieEcho(e, m_initAck[e])
    /\ SetState(e, IF m_cookieResends[e] > MaxResends THEN "CLOSED"
                                                      ELSE "COOKIE_ECHOED")
    /\ UNCHANGED <<m_localTag, m_peerTag, m_initResends, m_initAck,
                   m_sharedKey, lastTag>>

-----------------------------------------------------------------------------
\* handleInit: what sendInitAck answers depends on the state; in the closed
\* state the tag offered is 0, in the established state a new one.
HandleInit(e, p) ==
    /\ p.type = "INIT"
    /\ LET offer(tag, local, peer) ==
               Send(InitAck(e, [localTag |-> tag, peerTag |-> p.initTag,
                                localTieTag |-> local, peerTieTag |-> peer]))
       IN  \/ /\ m_state[e] = "CLOSED"
              /\ m_peerTag' = [m_peerTag EXCEPT ![e] = p.initTag]
              /\ offer(0, 0, 0) /\ UNCHANGED lastTag
           \/ /\ m_state[e] = "COOKIE_WAIT"
              /\ offer(m_localTag[e], 0, 0)
              /\ UNCHANGED <<m_peerTag, lastTag>>
           \/ /\ m_state[e] = "COOKIE_ECHOED"
              /\ offer(m_localTag[e], m_localTag[e], m_peerTag[e])
              /\ UNCHANGED <<m_peerTag, lastTag>>
           \/ /\ m_state[e] = "ESTABLISHED"
              /\ lastTag < MaxTag /\ lastTag' = lastTag + 1
              /\ offer(lastTag + 1, m_localTag[e], m_peerTag[e])
              /\ UNCHANGED m_peerTag
    /\ UNCHANGED <<m_state, m_localTag, resends, m_initAck, m_sharedKey>>

\* Mutant: the cookie is echoed before it is stored.
HandleInitAckLate(e, p) ==
    /\ p.type = "INIT_ACK"
    /\ m_state[e] = "COOKIE_WAIT"
    /\ p.cookie.peerTag = m_localTag[e]
    /\ m_peerTag' = [m_peerTag EXCEPT ![e] = p.cookie.localTag]
    /\ SendCookieEcho(e, m_initAck[e])
    /\ m_initAck' = [m_initAck EXCEPT ![e] = p.cookie]
    /\ SetState(e, "COOKIE_ECHOED")
    /\ UNCHANGED <<m_localTag, m_initResends, m_sharedKey, lastTag>>

\* Mutant: a further INIT_ACK is taken too, and begins the echoes anew.
HandleInitAckAnew(e, p) ==
    /\ p.type = "INIT_ACK"
    /\ m_state[e] \in {"COOKIE_WAIT", "COOKIE_ECHOED"}
    /\ p.cookie.peerTag = m_localTag[e]
    /\ m_peerTag' = [m_peerTag EXCEPT ![e] = p.cookie.localTag]
    /\ m_initAck' = [m_initAck EXCEPT ![e] = p.cookie]
    /\ Send(CookieEcho(e, p.cookie))
    /\ m_cookieResends' = [m_cookieResends EXCEPT ![e] = 1]
    /\ SetState(e, "COOKIE_ECHOED")
    /\ UNCHANGED <<m_localTag, m_initResends, m_sharedKey, lastTag>>

\* handleInitAck stores the cookie before it looks at the vtag, and ends in
\* COOKIE_ECHOED also when sendCookieEcho gave up.
HandleInitAck(e, p) ==
    /\ p.type = "INIT_ACK"
    /\ m_state[e] = "COOKIE_WAIT"
    /\ m_initAck' = [m_initAck EXCEPT ![e] = p.cookie]
    /\ IF p.cookie.peerTag = m_localTag[e]
       THEN /\ m_peerTag' = [m_peerTag EXCEPT ![e] = p.cookie.localTag]
            /\ SendCookieEcho(e, p.cookie)
            /\ SetState(e, "COOKIE_ECHOED")
       ELSE UNCHANGED <<m_peerTag, m_cookieResends, sent, m_state>>
    /\ UNCHANGED <<m_localTag, m_initResends, m_sharedKey, lastTag>>

-----------------------------------------------------------------------------
(***************************************************************************)
(* handleCookieEcho.  A closed association adopts the cookie's tags; the   *)
(* others compare the tags with their own, cases A to E of the source: A   *)
(* the peer started again, B both started at once, C and E are ignored, D  *)
(* the cookie names the association that exists.                           *)
(***************************************************************************)
\* Mutants: the tie tags are not compared; a first cookie that names the tags
\* the association already has is ignored.
PeerRestartedAnyTies(e, c) == m_localTag[e] # c.localTag
BothStartedNewPeerOnly(e, c) == /\ m_localTag[e] = c.localTag
                                /\ m_peerTag[e] # c.peerTag

PeerRestarted(e, c) == /\ m_localTag[e] # c.localTag
                       /\ m_peerTag[e] # c.peerTag
                       /\ m_localTag[e] = c.localTieTag
                       /\ m_peerTag[e] = c.peerTieTag
BothStarted(e, c) == /\ m_localTag[e] = c.localTag
                     /\ m_peerTag[e] # c.peerTag \/ c.peerTieTag = 0
SameAssociation(e, c) == /\ m_localTag[e] = c.localTag
                         /\ m_peerTag[e] = c.peerTag
                         /\ c.peerTieTag # 0

\* Mutant: only the local tag is taken over.
AdoptLocalTag(e, c) == /\ m_localTag' = [m_localTag EXCEPT ![e] = c.localTag]
                       /\ UNCHANGED m_peerTag
AdoptTags(e, c) == /\ m_localTag' = [m_localTag EXCEPT ![e] = c.localTag]
                   /\ m_peerTag' = [m_peerTag EXCEPT ![e] = c.peerTag]
ComputeKey(e) == m_sharedKey' = [m_sharedKey EXCEPT ![e] = "shared"]

\* The security ID is known: the key is computed and the cookie acknowledged.
Establish(e, c) == /\ TRUE \in KeyKnown
                   /\ ComputeKey(e)
                   /\ Send(CookieAck(e, c.peerTag))
                   /\ SetState(e, "ESTABLISHED")

\* It is not: the peer is told, and the association closed.
RefuseSecID(e, vtag) == /\ FALSE \in KeyKnown
                        /\ Send(Error(e, vtag))
                        /\ SetState(e, "CLOSED")
                        /\ UNCHANGED m_sharedKey

\* The security ID is known and the two keys give no shared one: the packet
\* is dropped, whatever has been taken from it by then.
NoSharedKey(e) == /\ TRUE \in KeyKnown
                  /\ UNCHANGED <<m_state, m_sharedKey, sent>>

EchoClosed(e, c) ==
    /\ m_state[e] = "CLOSED"
    /\ AdoptTags(e, c)
    /\ \/ Establish(e, c)
       \/ RefuseSecID(e, c.peerTag)
       \/ NoSharedKey(e)
       \/ /\ TRUE \in KeyKnown  \* the address map has no handle for the peer
          /\ ComputeKey(e)
          /\ UNCHANGED <<m_state, sent>>
    /\ UNCHANGED resends

\* Here the tags are taken over last, so without a key nothing changes.
EchoRestarted(e, c) ==
    /\ m_state[e] # "CLOSED" /\ PeerRestarted(e, c)
    /\ \/ /\ Establish(e, c)
          /\ AdoptTags(e, c)
          /\ m_initResends' = [m_initResends EXCEPT ![e] = 0]
          /\ m_cookieResends' = [m_cookieResends EXCEPT ![e] = 0]
       \/ /\ RefuseSecID(e, m_peerTag[e])
          /\ UNCHANGED <<m_localTag, m_peerTag, resends>>

EchoBothStarted(e, c) ==
    /\ m_state[e] # "CLOSED" /\ BothStarted(e, c)
    /\ m_peerTag' = [m_peerTag EXCEPT ![e] = c.peerTag]
    /\ Establish(e, c) \/ RefuseSecID(e, c.peerTag) \/ NoSharedKey(e)
    /\ UNCHANGED <<m_localTag, resends>>

EchoSame(e, c) ==
    /\ m_state[e] # "CLOSED" /\ SameAssociation(e, c)
    /\ Send(CookieAck(e, m_peerTag[e]))
    /\ SetState(e, "ESTABLISHED")
    /\ UNCHANGED <<m_localTag, m_peerTag, resends, m_sharedKey>>

HandleCookieEcho(e, p) ==
    /\ p.type = "COOKIE_ECHO"
    /\ \/ EchoClosed(e, p.cookie)
       \/ EchoRestarted(e, p.cookie)
       \/ EchoBothStarted(e, p.cookie)
       \/ EchoSame(e, p.cookie)
    /\ UNCHANGED <<m_initAck, lastTag>>

-----------------------------------------------------------------------------
HandleCookieAck(e, p) ==
    /\ p.type = "COOKIE_ACK" /\ p.vtag = m_localTag[e]
    /\ m_state[e] = "COOKIE_ECHOED" /\ TRUE \in KeyKnown
    /\ ComputeKey(e)
    /\ SetState(e, "ESTABLISHED")
    /\ UNCHANGED <<m_localTag, m_peerTag, resends, m_initAck, sent,
                   lastTag>>

HandleError(e, p) ==
    /\ p.type = "ERROR" /\ p.vtag = m_localTag[e]
    /\ SetState(e, "CLOSED")
    /\ UNCHANGED <<m_localTag, m_peerTag, resends, m_initAck, m_sharedKey,
                   sent, lastTag>>

Receive(e) == \E p \in {q \in sent : q.to = e} :
    \/ HandleInit(e, p)      \/ HandleInitAck(e, p)
    \/ HandleCookieEcho(e, p)
    \/ HandleCookieAck(e, p) \/ HandleError(e, p)

Pump(e) == PumpInit(e) \/ PumpCookie(e)

AssocNext == \E e \in Peers :
    \/ Connect(e) \/ Receive(e) \/ Pump(e) \/ PumpTimeout(e)
    \/ Recreate(e)

AssocSpec == AssocInit /\ [][AssocNext]_assocVars

\* No time limit passes, nobody gives up or starts again and the security
\* keys stay: packets are still repeated and reordered, and one whose
\* handling changes something arrives in the end.
CalmNext == \E e \in Peers : Connect(e) \/ Receive(e)
CalmFairSpec == /\ AssocInit /\ [][CalmNext]_assocVars
                /\ \A e \in Peers : WF_assocVars(Receive(e))

-----------------------------------------------------------------------------
AssocTypeOK ==
    /\ m_state \in [Peers -> {"CLOSED", "COOKIE_WAIT", "COOKIE_ECHOED",
                              "ESTABLISHED"}]
    /\ m_localTag \in [Peers -> Tags] /\ m_peerTag \in [Peers -> Tags]
    /\ m_initResends \in [Peers -> 0 .. MaxResends + 2]
    /\ m_cookieResends \in [Peers -> 0 .. MaxResends + 2]
    /\ m_initAck \in [Peers -> Cookies]
    /\ m_sharedKey \in [Peers -> {"none", "shared"}]
    /\ sent \subseteq Packets
    /\ lastTag \in Tags

\* The tags of an established association are the two tags of one cookie that
\* travelled to it or from it: no sequence of retries, restarts, stale and
\* repeated packets mixes the tags of two handshakes.
EchoedTo(e)   == \E p \in sent : /\ p.type = "COOKIE_ECHO" /\ p.to = e
                                 /\ p.cookie.localTag = m_localTag[e]
                                 /\ p.cookie.peerTag = m_peerTag[e]
EchoedFrom(e) == \E p \in sent : /\ p.type = "COOKIE_ECHO" /\ p.to = Other(e)
                                 /\ p.cookie.localTag = m_peerTag[e]
                                 /\ p.cookie.peerTag = m_localTag[e]
TagsOfOneCookie == \A e \in Peers :
    m_state[e] = "ESTABLISHED" => EchoedTo(e) \/ EchoedFrom(e)

\* A cookie that is echoed, at once or by a later retry, was issued by the end
\* it comes back to, and to the end that echoes it.
CookiesReturn == \A p \in sent :
    p.type = "COOKIE_ECHO" =>
        \E q \in sent : /\ q.type = "INIT_ACK" /\ q.cookie = p.cookie
                        /\ q.to = Other(p.to)

\* Two established ends have each other's tags, however the two handshakes of
\* a simultaneous open cross.
Agreed == \A e \in Peers : /\ m_state[e] = "ESTABLISHED"
                           /\ m_peerTag[e] = m_localTag[Other(e)]
BothAgree == (\A e \in Peers : m_state[e] = "ESTABLISHED") => Agreed

\* An open that is not disturbed ends in agreement: no crossing of the two
\* handshakes leaves a side waiting for ever.
OpenSucceeds ==
    (\E e \in Peers : m_state[e] = "COOKIE_WAIT") ~> Agreed

\* A half-open association can be pumped only so often, whatever arrives and
\* whoever starts again: no packet, repeated or of an earlier handshake, gives
\* it a retry back (handleInitAck, case A of handleCookieEcho), and each time a
\* timer fires it has one less or is closed (sendInit, sendCookieEcho).
HalfOpen(e) == m_state[e] \in {"COOKIE_WAIT", "COOKIE_ECHOED"}
Used(e) == m_initResends[e] + m_cookieResends[e]
RetriesRunOut ==
    /\ [][\A e \in Peers : HalfOpen(e) /\ HalfOpen(e)' => Used(e)' >= Used(e)]_assocVars
    /\ [][\A e \in Peers : Pump(e) /\ HalfOpen(e)' => Used(e)' > Used(e)]_assocVars
=============================================================================
