------------------------- MODULE AssociationProofs -------------------------
(***************************************************************************)
(* Proofs about the DTLS handshake, for every number of retries and of     *)
(* tags.  TagsOfOneCookie is not inductive: an association that waits for  *)
(* the COOKIE_ACK becomes established with the tags it has, which are      *)
(* those of the cookie it keeps (EchoKept), and that cookie was sent       *)
(* because the first attempt is never refused (CountersBounded).           *)
(***************************************************************************)
EXTENDS DTLSAssociation, TLAPS

\* An opening association has counted its INITs, the first COOKIE_ECHO is
\* the first attempt, and no counter passes its limit by more than two.
CountersBounded == \A e \in Peers :
    /\ m_initResends[e] = 0 =>
           m_cookieResends[e] = 0 /\ m_state[e] \notin {"COOKIE_WAIT", "COOKIE_ECHOED"}
    /\ m_state[e] = "COOKIE_WAIT" =>
           m_initResends[e] <= MaxResends + 1 /\ m_cookieResends[e] = 0
    /\ m_state[e] = "COOKIE_ECHOED" => m_cookieResends[e] <= MaxResends + 1

\* The cookie an association keeps is the one it echoed and took its tags from,
\* unless a cookie echoed to it has changed them and then given no shared key.
EchoKeptAt(e) ==
    m_state[e] = "COOKIE_ECHOED" =>
        /\ CookieEcho(e, m_initAck[e]) \in sent
        /\ \/ m_initAck[e].localTag = m_peerTag[e] /\ m_initAck[e].peerTag = m_localTag[e]
           \/ EchoedTo(e)
EchoKept == \A e \in Peers : EchoKeptAt(e)

TagsAt(e) == m_state[e] = "ESTABLISHED" => EchoedTo(e) \/ EchoedFrom(e)

AssocInv == /\ AssocTypeOK /\ CountersBounded /\ EchoKept
            /\ TagsOfOneCookie /\ CookiesReturn

-----------------------------------------------------------------------------
(* Facts about the two ends and the packets.                               *)

\* There are two ends: the other one of the other one is the one.
LEMMA OtherPeer ==
  ASSUME NEW e \in Peers
  PROVE  /\ Other(e) \in Peers /\ Other(e) # e /\ Other(Other(e)) = e
<1>1. PICK a \in Peers, b \in Peers : a # b /\ Peers = {a, b}
  BY AssociationAssumption
<1>2. \A f \in Peers : Other(f) \in Peers /\ Other(f) # f
  BY <1>1 DEF Other
<1> QED BY <1>1, <1>2

\* A packet of a kind that has a tag or a cookie has one of the right type.
LEMMA PacketShapes ==
  ASSUME NEW p \in Packets
  PROVE  /\ p.type = "INIT" => p.initTag \in Tags
         /\ p.type \in {"INIT_ACK", "COOKIE_ECHO"} => p.cookie \in Cookies
BY DEF Packets

\* The four tags of a cookie are tags.
LEMMA CookieShape ==
  ASSUME NEW c \in Cookies
  PROVE  /\ c.localTag \in Tags /\ c.peerTag \in Tags
         /\ c.localTieTag \in Tags /\ c.peerTieTag \in Tags
BY DEF Cookies

\* What a peer sends is a packet to the other one.
LEMMA SentShapes ==
  ASSUME NEW e \in Peers, m_localTag[e] \in Tags
  PROVE  /\ Init(e) \in Packets
         /\ \A c \in Cookies : InitAck(e, c) \in Packets /\ CookieEcho(e, c) \in Packets
         /\ \A t \in Tags : CookieAck(e, t) \in Packets /\ Error(e, t) \in Packets
BY OtherPeer DEF Packets, Init, InitAck, CookieEcho, CookieAck, Error

\* A packet is never taken back.
LEMMA SentGrows == ASSUME AssocNext PROVE sent \subseteq sent'
<1>1. PICK e \in Peers : \/ Connect(e) \/ Receive(e) \/ Pump(e) \/ PumpTimeout(e)
                        \/ Recreate(e)
  BY DEF AssocNext
<1>2. CASE Connect(e) \/ Pump(e) \/ PumpTimeout(e) \/ Recreate(e)
  BY <1>2 DEF Connect, Pump, PumpInit, PumpCookie, PumpTimeout, Recreate, SendInit,
     SendCookieEcho, Send
<1>3. CASE Receive(e)
  <2>1. PICK p \in sent : \/ HandleInit(e, p) \/ HandleInitAck(e, p)
                         \/ HandleCookieEcho(e, p)
                         \/ HandleCookieAck(e, p) \/ HandleError(e, p)
    BY <1>3 DEF Receive
  <2>2. CASE HandleInit(e, p)
    BY <2>2 DEF HandleInit, Send
  <2>3. CASE HandleInitAck(e, p)
    BY <2>3 DEF HandleInitAck, SendCookieEcho, Send
  <2>4. CASE HandleCookieEcho(e, p)
    BY <2>4 DEF HandleCookieEcho, EchoClosed, EchoRestarted, EchoBothStarted, EchoSame,
       Establish, RefuseSecID, NoSharedKey, Send
  <2>5. CASE HandleCookieAck(e, p) \/ HandleError(e, p)
    BY <2>5 DEF HandleCookieAck, HandleError
  <2> QED BY <2>1, <2>2, <2>3, <2>4, <2>5
<1> QED BY <1>1, <1>2, <1>3

-----------------------------------------------------------------------------
(* Type correctness, one lemma for each group of actions.                  *)

AssocStates == {"CLOSED", "COOKIE_WAIT", "COOKIE_ECHOED", "ESTABLISHED"}

\* The invariant holds of two fresh ends.
LEMMA InitInv == AssocInit => AssocInv
<1> SUFFICES ASSUME AssocInit PROVE AssocInv
  OBVIOUS
<1>1. 0 \in Tags /\ 1 \in Tags /\ 2 \in Tags /\ NoCookie \in Cookies
  BY AssociationAssumption DEF Tags, NoCookie, Cookies
<1>2. AssocTypeOK
  <2>1. m_localTag \in [Peers -> Tags]
    BY <1>1, AssociationAssumption DEF AssocInit, Tags
  <2> QED BY <1>1, <2>1, AssociationAssumption DEF AssocInit, AssocTypeOK
<1> QED BY <1>2 DEF AssocInit, AssocInv, CountersBounded, EchoKept, EchoKeptAt,
        TagsOfOneCookie, CookiesReturn

\* Types and counters when the program or a timer moves an end.
LEMMA LocalTypes ==
  ASSUME AssocInv, NEW e \in Peers,
         Connect(e) \/ Pump(e) \/ PumpTimeout(e) \/ Recreate(e)
  PROVE  AssocTypeOK' /\ CountersBounded'
<1>1. /\ m_localTag[e] \in Tags /\ m_initAck[e] \in Cookies
      /\ 0 \in Tags /\ NoCookie \in Cookies
  BY AssociationAssumption DEF AssocInv, AssocTypeOK, Tags, NoCookie, Cookies
<1>2. /\ Init(e) \in Packets /\ CookieEcho(e, m_initAck[e]) \in Packets
  BY <1>1, SentShapes
<1> USE AssociationAssumption DEF AssocInv, AssocTypeOK, CountersBounded, SetState
<1>3. CASE Connect(e)
  <2>1. sent' \subseteq Packets
    BY <1>2, <1>3 DEF Connect, SendInit, Send
  <2>2. CountersBounded'
    BY <1>3 DEF Connect, SendInit
  <2> QED BY <1>3, <2>1, <2>2 DEF Connect, SendInit
<1>4. CASE PumpInit(e)
  <2>1. sent' \subseteq Packets
    BY <1>2, <1>4 DEF PumpInit, SendInit, Send
  <2>2. CountersBounded'
    BY <1>4 DEF PumpInit, SendInit
  <2> QED BY <1>4, <2>1, <2>2 DEF PumpInit, SendInit
<1>5. CASE PumpCookie(e)
  <2>1. sent' \subseteq Packets
    BY <1>2, <1>5 DEF PumpCookie, SendCookieEcho, Send
  <2>2. CountersBounded'
    BY <1>5 DEF PumpCookie, SendCookieEcho
  <2> QED BY <1>5, <2>1, <2>2 DEF PumpCookie, SendCookieEcho
<1>6. CASE PumpTimeout(e)
  BY <1>6 DEF PumpTimeout, resends
<1>7. CASE Recreate(e)
  <2>1. lastTag + 1 \in Tags
    BY <1>7 DEF Recreate, Tags
  <2>2. CountersBounded'
    BY <1>7 DEF Recreate
  <2> QED BY <1>1, <1>7, <2>1, <2>2 DEF Recreate
<1> QED BY <1>3, <1>4, <1>5, <1>6, <1>7 DEF Pump

\* Types and counters when an INIT or an INIT_ACK arrives.
LEMMA OpenTypes ==
  ASSUME AssocInv, NEW e \in Peers, NEW p \in sent,
         HandleInit(e, p) \/ HandleInitAck(e, p)
  PROVE  AssocTypeOK' /\ CountersBounded'
<1> USE AssociationAssumption DEF AssocInv, AssocTypeOK, CountersBounded, SetState
<1>1. /\ m_localTag[e] \in Tags /\ m_peerTag[e] \in Tags /\ 0 \in Tags
      /\ lastTag < MaxTag => lastTag + 1 \in Tags
  BY DEF Tags
<1>2. CASE HandleInit(e, p)
  <2>1. p.initTag \in Tags
    BY <1>2, PacketShapes DEF HandleInit
  <2>2. /\ m_peerTag' \in [Peers -> Tags] /\ lastTag' \in Tags
        /\ UNCHANGED <<m_state, m_localTag, resends, m_initAck, m_sharedKey>>
    BY <1>1, <1>2, <2>1 DEF HandleInit
  <2>3. PICK tag \in Tags, local \in Tags, peer \in Tags :
            Send(InitAck(e, [localTag |-> tag, peerTag |-> p.initTag,
                             localTieTag |-> local, peerTieTag |-> peer]))
    BY <1>1, <1>2 DEF HandleInit
  <2>4. [localTag |-> tag, peerTag |-> p.initTag, localTieTag |-> local,
         peerTieTag |-> peer] \in Cookies
    BY <2>1 DEF Cookies
  <2>5. sent' \subseteq Packets
    BY <1>1, <2>3, <2>4, SentShapes DEF Send
  <2> QED BY <2>2, <2>5 DEF resends
<1>3. CASE HandleInitAck(e, p)
  <2>1. p.cookie \in Cookies
    BY <1>3, PacketShapes DEF HandleInitAck
  <2>2. p.cookie.localTag \in Tags /\ CookieEcho(e, p.cookie) \in Packets
    BY <1>1, <2>1, CookieShape, SentShapes
  <2>3. sent' \subseteq Packets
    BY <1>3, <2>2 DEF HandleInitAck, SendCookieEcho, Send
  <2>4. CountersBounded'
    BY <1>3 DEF HandleInitAck, SendCookieEcho
  <2> QED BY <1>3, <2>1, <2>2, <2>3, <2>4 DEF HandleInitAck, SendCookieEcho
<1> QED BY <1>2, <1>3

\* An end that answers a cookie is established or closed.
LEMMA VerdictTypes ==
  ASSUME AssocTypeOK, NEW e \in Peers, NEW c, NEW t,
         CookieAck(e, c.peerTag) \in Packets, Error(e, t) \in Packets,
         Establish(e, c) \/ RefuseSecID(e, t)
  PROVE  /\ m_state' \in [Peers -> AssocStates]
         /\ m_state'[e] \notin {"COOKIE_WAIT", "COOKIE_ECHOED"}
         /\ \A f \in Peers \ {e} : m_state'[f] = m_state[f]
         /\ m_sharedKey' \in [Peers -> {"none", "shared"}]
         /\ sent' \subseteq Packets
<1> USE DEF AssocTypeOK, AssocStates, SetState, Send
<1>1. CASE Establish(e, c)
  BY <1>1 DEF Establish, ComputeKey
<1>2. CASE RefuseSecID(e, t)
  BY <1>2 DEF RefuseSecID
<1> QED BY <1>1, <1>2

\* Types and counters when a COOKIE_ECHO, a COOKIE_ACK or an ERROR arrives.
LEMMA EchoTypes ==
  ASSUME AssocInv, NEW e \in Peers, NEW p \in sent,
         HandleCookieEcho(e, p) \/ HandleCookieAck(e, p) \/ HandleError(e, p)
  PROVE  AssocTypeOK' /\ CountersBounded'
<1> USE AssociationAssumption DEF AssocInv, AssocTypeOK, CountersBounded, SetState
<1>1. m_localTag[e] \in Tags /\ m_peerTag[e] \in Tags
  OBVIOUS
<1>2. CASE HandleCookieEcho(e, p)
  <2> DEFINE c == p.cookie
  <2>1. c \in Cookies
    BY <1>2, PacketShapes DEF HandleCookieEcho
  <2>2. c.localTag \in Tags /\ c.peerTag \in Tags
    BY <2>1, CookieShape
  <2>3. /\ CookieAck(e, c.peerTag) \in Packets /\ CookieAck(e, m_peerTag[e]) \in Packets
        /\ Error(e, c.peerTag) \in Packets /\ Error(e, m_peerTag[e]) \in Packets
    BY <1>1, <2>2, SentShapes
  <2>4. UNCHANGED <<m_initAck, lastTag>>
    BY <1>2 DEF HandleCookieEcho
  <2> HIDE DEF c
  <2>5. CASE EchoClosed(e, c)
    <3>1. /\ m_localTag' \in [Peers -> Tags] /\ m_peerTag' \in [Peers -> Tags]
          /\ UNCHANGED resends
      BY <2>2, <2>5 DEF EchoClosed, AdoptTags
    <3>2. /\ m_state' \in [Peers -> AssocStates]
          /\ m_state'[e] \notin {"COOKIE_WAIT", "COOKIE_ECHOED"}
          /\ \A f \in Peers \ {e} : m_state'[f] = m_state[f]
          /\ m_sharedKey' \in [Peers -> {"none", "shared"}]
          /\ sent' \subseteq Packets
      <4>1. CASE Establish(e, c) \/ RefuseSecID(e, c.peerTag)
        BY <2>3, <4>1, VerdictTypes
      <4>2. CASE (ComputeKey(e) \/ UNCHANGED m_sharedKey) /\ UNCHANGED <<m_state, sent>>
        BY <2>5, <4>2 DEF EchoClosed, ComputeKey, AssocStates
      <4> QED BY <2>5, <4>1, <4>2 DEF EchoClosed, NoSharedKey
    <3> QED BY <2>4, <3>1, <3>2 DEF resends, AssocStates
  <2>6. CASE EchoRestarted(e, c)
    <3>1. /\ m_localTag' \in [Peers -> Tags] /\ m_peerTag' \in [Peers -> Tags]
      BY <2>2, <2>6 DEF EchoRestarted, AdoptTags
    <3>2. /\ m_state' \in [Peers -> AssocStates]
          /\ m_state'[e] \notin {"COOKIE_WAIT", "COOKIE_ECHOED"}
          /\ \A f \in Peers \ {e} : m_state'[f] = m_state[f]
          /\ m_sharedKey' \in [Peers -> {"none", "shared"}]
          /\ sent' \subseteq Packets
      BY <2>3, <2>6, VerdictTypes DEF EchoRestarted
    <3>3. \/ UNCHANGED resends
          \/ /\ m_initResends' = [m_initResends EXCEPT ![e] = 0]
             /\ m_cookieResends' = [m_cookieResends EXCEPT ![e] = 0]
      BY <2>6 DEF EchoRestarted
    <3> QED BY <2>4, <3>1, <3>2, <3>3 DEF resends, AssocStates
  <2>7. CASE EchoBothStarted(e, c)
    <3>1. /\ m_peerTag' \in [Peers -> Tags] /\ UNCHANGED <<m_localTag, resends>>
      BY <2>2, <2>7 DEF EchoBothStarted
    <3>2. CASE Establish(e, c) \/ RefuseSecID(e, c.peerTag)
      <4>1. /\ m_state' \in [Peers -> AssocStates]
            /\ m_state'[e] \notin {"COOKIE_WAIT", "COOKIE_ECHOED"}
            /\ \A f \in Peers \ {e} : m_state'[f] = m_state[f]
            /\ m_sharedKey' \in [Peers -> {"none", "shared"}]
            /\ sent' \subseteq Packets
        BY <2>3, <3>2, VerdictTypes
      <4> QED BY <2>4, <3>1, <4>1 DEF resends, AssocStates
    <3>3. CASE NoSharedKey(e)
      BY <2>4, <3>1, <3>3 DEF NoSharedKey, resends
    <3> QED BY <2>7, <3>2, <3>3 DEF EchoBothStarted
  <2>8. CASE EchoSame(e, c)
    <3>1. sent' \subseteq Packets
      BY <2>3, <2>8 DEF EchoSame, Send
    <3> QED BY <2>4, <2>8, <3>1 DEF EchoSame, resends
  <2> QED BY <1>2, <2>5, <2>6, <2>7, <2>8 DEF HandleCookieEcho, c
<1>3. CASE HandleCookieAck(e, p)
  BY <1>3 DEF HandleCookieAck, ComputeKey, resends
<1>4. CASE HandleError(e, p)
  BY <1>4 DEF HandleError, resends
<1> QED BY <1>2, <1>3, <1>4

-----------------------------------------------------------------------------
(* The tags of the two ends.                                               *)

Move(e) == Connect(e) \/ Receive(e) \/ Pump(e) \/ PumpTimeout(e) \/ Recreate(e)

\* Every step is the move of one of the ends.
LEMMA NextIsMove == AssocNext => \E e \in Peers : Move(e)
BY DEF AssocNext, Move

\* An end that does not move keeps what it has.
LEMMA Untouched ==
  ASSUME AssocTypeOK, NEW e \in Peers, Move(e), NEW f \in Peers, f # e
  PROVE  /\ m_state'[f] = m_state[f] /\ m_localTag'[f] = m_localTag[f]
         /\ m_peerTag'[f] = m_peerTag[f] /\ m_initAck'[f] = m_initAck[f]
<1> USE DEF AssocTypeOK, SetState
<1>1. CASE Connect(e) \/ PumpTimeout(e) \/ Recreate(e) \/ Pump(e)
  BY <1>1 DEF Connect, PumpTimeout, Recreate, Pump, PumpInit, PumpCookie
<1>2. ASSUME NEW p \in sent, HandleInit(e, p) \/ HandleInitAck(e, p)
      PROVE  /\ m_state'[f] = m_state[f] /\ m_localTag'[f] = m_localTag[f]
             /\ m_peerTag'[f] = m_peerTag[f] /\ m_initAck'[f] = m_initAck[f]
  BY <1>2 DEF HandleInit, HandleInitAck
<1>3. ASSUME NEW p \in sent, HandleCookieEcho(e, p)
      PROVE  /\ m_state'[f] = m_state[f] /\ m_localTag'[f] = m_localTag[f]
             /\ m_peerTag'[f] = m_peerTag[f] /\ m_initAck'[f] = m_initAck[f]
  BY <1>3 DEF HandleCookieEcho, EchoClosed, EchoRestarted, EchoBothStarted, EchoSame,
     Establish, RefuseSecID, NoSharedKey, AdoptTags
<1>4. ASSUME NEW p \in sent, HandleCookieAck(e, p) \/ HandleError(e, p)
      PROVE  /\ m_state'[f] = m_state[f] /\ m_localTag'[f] = m_localTag[f]
             /\ m_peerTag'[f] = m_peerTag[f] /\ m_initAck'[f] = m_initAck[f]
  BY <1>4 DEF HandleCookieAck, HandleError
<1> QED BY <1>1, <1>2, <1>3, <1>4 DEF Move, Receive

\* What was true of an end stays true when only packets are added.
LEMMA Framed ==
  ASSUME NEW e \in Peers, sent \subseteq sent', EchoKeptAt(e), TagsAt(e),
         m_state'[e] = m_state[e], m_localTag'[e] = m_localTag[e],
         m_peerTag'[e] = m_peerTag[e], m_initAck'[e] = m_initAck[e]
  PROVE  EchoKeptAt(e)' /\ TagsAt(e)'
BY DEF EchoKeptAt, TagsAt, EchoedTo, EchoedFrom, CookieEcho

\* The moving end: the program, a timer, an INIT or an INIT_ACK.
LEMMA OpeningTags ==
  ASSUME AssocInv, NEW e \in Peers, sent \subseteq sent',
         \/ Connect(e) \/ Pump(e) \/ PumpTimeout(e) \/ Recreate(e)
         \/ \E p \in sent : HandleInit(e, p) \/ HandleInitAck(e, p)
  PROVE  EchoKeptAt(e)' /\ TagsAt(e)'
<1>0. EchoKeptAt(e) /\ TagsAt(e) /\ AssocTypeOK
  BY DEF AssocInv, EchoKept, TagsOfOneCookie, TagsAt
<1> USE DEF SetState
<1>1. CASE Connect(e) \/ PumpTimeout(e) \/ Recreate(e) \/ PumpInit(e)
  <2>1. m_state'[e] \notin {"COOKIE_ECHOED", "ESTABLISHED"}
    BY <1>0, <1>1 DEF AssocTypeOK, Connect, PumpTimeout, Recreate, PumpInit
  <2> QED BY <2>1 DEF EchoKeptAt, TagsAt
<1>2. CASE PumpCookie(e)
  <2>1. m_state'[e] \in {m_state[e], "CLOSED"}
    BY <1>0, <1>2 DEF AssocTypeOK, PumpCookie
  <2>2. UNCHANGED <<m_localTag, m_peerTag, m_initAck>>
    BY <1>2 DEF PumpCookie
  <2>3. CASE m_state'[e] = m_state[e]
    BY <1>0, <2>2, <2>3, Framed
  <2>4. CASE m_state'[e] = "CLOSED"
    BY <2>4 DEF EchoKeptAt, TagsAt
  <2> QED BY <2>1, <2>3, <2>4
<1>3. ASSUME NEW p \in sent, HandleInit(e, p)
      PROVE  EchoKeptAt(e)' /\ TagsAt(e)'
  <2>1. UNCHANGED <<m_state, m_localTag, m_initAck>>
    BY <1>3 DEF HandleInit
  <2>2. CASE m_state[e] = "CLOSED"
    BY <2>1, <2>2 DEF EchoKeptAt, TagsAt
  <2>3. CASE m_state[e] # "CLOSED"
    <3>1. UNCHANGED m_peerTag
      BY <1>3, <2>3 DEF HandleInit
    <3> QED BY <1>0, <2>1, <3>1, Framed
  <2> QED BY <2>2, <2>3
<1>4. ASSUME NEW p \in sent, HandleInitAck(e, p)
      PROVE  EchoKeptAt(e)' /\ TagsAt(e)'
  <2>1. CASE p.cookie.peerTag = m_localTag[e]
    <3>1. m_state'[e] = "COOKIE_ECHOED"
      BY <1>0, <1>4, <2>1 DEF HandleInitAck, AssocTypeOK
    <3>2. /\ m_initAck'[e] = p.cookie /\ m_peerTag'[e] = p.cookie.localTag
          /\ m_localTag'[e] = p.cookie.peerTag
      BY <1>0, <1>4, <2>1 DEF HandleInitAck, AssocTypeOK
    <3>3. m_cookieResends[e] = 0
      BY <1>4 DEF HandleInitAck, AssocInv, CountersBounded
    <3>4. CookieEcho(e, p.cookie) \in sent'
      BY <1>4, <2>1, <3>3, AssociationAssumption DEF HandleInitAck, SendCookieEcho, Send
    <3> QED BY <3>1, <3>2, <3>4 DEF EchoKeptAt, TagsAt, CookieEcho
  <2>2. CASE p.cookie.peerTag # m_localTag[e]
    <3>1. m_state'[e] = "COOKIE_WAIT"
      BY <1>4, <2>2 DEF HandleInitAck
    <3> QED BY <3>1 DEF EchoKeptAt, TagsAt
  <2> QED BY <2>1, <2>2
<1> QED BY <1>1, <1>2, <1>3, <1>4 DEF Pump

\* The moving end: an answer to a cookie takes the tags of that cookie.
LEMMA EchoTags ==
  ASSUME AssocInv, NEW e \in Peers, sent \subseteq sent', NEW p \in sent, p.to = e,
         HandleCookieEcho(e, p)
  PROVE  EchoKeptAt(e)' /\ TagsAt(e)'
<1>0. EchoKeptAt(e) /\ TagsAt(e) /\ AssocTypeOK
  BY DEF AssocInv, EchoKept, TagsOfOneCookie, TagsAt
<1> DEFINE c == p.cookie
<1> USE DEF SetState
<1>1. p.type = "COOKIE_ECHO" /\ p \in sent'
  BY DEF HandleCookieEcho
<1>2. ASSUME m_state'[e] # "COOKIE_ECHOED",
             m_state'[e] = "ESTABLISHED"
                => m_localTag'[e] = c.localTag /\ m_peerTag'[e] = c.peerTag
      PROVE  EchoKeptAt(e)' /\ TagsAt(e)'
  BY <1>1, <1>2 DEF EchoKeptAt, TagsAt, EchoedTo
<1>3. CASE EchoClosed(e, c)
  <2>1. m_localTag'[e] = c.localTag /\ m_peerTag'[e] = c.peerTag
    BY <1>0, <1>3 DEF EchoClosed, AdoptTags, AssocTypeOK
  <2>2. m_state'[e] # "COOKIE_ECHOED"
    BY <1>0, <1>3 DEF EchoClosed, Establish, RefuseSecID, NoSharedKey, AssocTypeOK
  <2> QED BY <1>2, <2>1, <2>2
<1>4. CASE EchoRestarted(e, c)
  <2>1. CASE Establish(e, c) /\ AdoptTags(e, c)
    <3>1. m_localTag'[e] = c.localTag /\ m_peerTag'[e] = c.peerTag
      BY <1>0, <2>1 DEF AdoptTags, AssocTypeOK
    <3>2. m_state'[e] = "ESTABLISHED"
      BY <1>0, <2>1 DEF Establish, AssocTypeOK
    <3> QED BY <1>2, <3>1, <3>2
  <2>2. CASE RefuseSecID(e, m_peerTag[e])
    <3>1. m_state'[e] = "CLOSED"
      BY <1>0, <2>2 DEF RefuseSecID, AssocTypeOK
    <3> QED BY <1>2, <3>1
  <2> QED BY <1>4, <2>1, <2>2 DEF EchoRestarted
<1>5. CASE EchoBothStarted(e, c)
  <2>1. m_localTag'[e] = c.localTag /\ m_peerTag'[e] = c.peerTag
    BY <1>0, <1>5 DEF EchoBothStarted, BothStarted, AssocTypeOK
  <2>2. EchoedTo(e)'
    BY <1>1, <2>1 DEF EchoedTo
  <2>3. CASE Establish(e, c) \/ RefuseSecID(e, c.peerTag)
    <3>1. m_state'[e] # "COOKIE_ECHOED"
      BY <1>0, <2>3 DEF Establish, RefuseSecID, AssocTypeOK
    <3> QED BY <1>2, <2>1, <3>1
  <2>4. CASE NoSharedKey(e)
    <3>1. UNCHANGED <<m_state, m_initAck, sent>>
      BY <2>4 DEF NoSharedKey, HandleCookieEcho
    <3> QED BY <1>0, <2>2, <3>1 DEF EchoKeptAt, TagsAt, CookieEcho
  <2> QED BY <1>5, <2>3, <2>4 DEF EchoBothStarted
<1>6. CASE EchoSame(e, c)
  <2>1. m_localTag'[e] = c.localTag /\ m_peerTag'[e] = c.peerTag
    BY <1>0, <1>6 DEF EchoSame, SameAssociation, AssocTypeOK
  <2>2. m_state'[e] = "ESTABLISHED"
    BY <1>0, <1>6 DEF EchoSame, AssocTypeOK
  <2> QED BY <1>2, <2>1, <2>2
<1> QED BY <1>3, <1>4, <1>5, <1>6 DEF HandleCookieEcho

\* The moving end: the acknowledgement of the cookie it echoed, or an error.
LEMMA AckTags ==
  ASSUME AssocInv, NEW e \in Peers, sent \subseteq sent', NEW p \in sent,
         HandleCookieAck(e, p) \/ HandleError(e, p)
  PROVE  EchoKeptAt(e)' /\ TagsAt(e)'
<1>0. EchoKeptAt(e) /\ TagsAt(e) /\ AssocTypeOK
  BY DEF AssocInv, EchoKept, TagsOfOneCookie, TagsAt
<1>1. CASE HandleCookieAck(e, p)
  <2>1. /\ m_state[e] = "COOKIE_ECHOED" /\ m_state'[e] = "ESTABLISHED"
        /\ UNCHANGED <<m_localTag, m_peerTag>>
    BY <1>0, <1>1 DEF HandleCookieAck, SetState, AssocTypeOK
  <2>2. EchoedTo(e) \/ EchoedFrom(e)
    BY <1>0, <2>1 DEF EchoKeptAt, EchoedFrom, CookieEcho
  <2>4. EchoedTo(e)' \/ EchoedFrom(e)'
    BY <2>1, <2>2 DEF EchoedTo, EchoedFrom
  <2> QED BY <2>1, <2>4 DEF EchoKeptAt, TagsAt
<1>2. CASE HandleError(e, p)
  <2>1. m_state'[e] = "CLOSED"
    BY <1>0, <1>2 DEF HandleError, SetState, AssocTypeOK
  <2> QED BY <2>1 DEF EchoKeptAt, TagsAt
<1> QED BY <1>1, <1>2

-----------------------------------------------------------------------------
(* The author of a cookie that comes back.                                 *)

\* A new COOKIE_ECHO brings back the INIT_ACK that is being handled.
LEMMA NewEcho ==
  ASSUME AssocInv, NEW e \in Peers, Move(e),
         NEW n \in sent' \ sent, n.type = "COOKIE_ECHO"
  PROVE  \E q \in sent : /\ q.type = "INIT_ACK" /\ q.cookie = n.cookie
                         /\ q.to = Other(n.to)
<1>1. CASE Connect(e) \/ PumpTimeout(e) \/ Recreate(e) \/ PumpInit(e)
  BY <1>1 DEF Connect, PumpTimeout, Recreate, PumpInit, SendInit, Send, Init
<1>2. CASE PumpCookie(e)
  <2>1. CookieEcho(e, m_initAck[e]) \in sent
    BY <1>2 DEF PumpCookie, AssocInv, EchoKept, EchoKeptAt
  <2> QED BY <1>2, <2>1 DEF PumpCookie, SendCookieEcho, Send
<1>3. ASSUME NEW p \in sent, p.to = e, HandleInitAck(e, p)
      PROVE  /\ p.type = "INIT_ACK" /\ p.cookie = n.cookie
             /\ p.to = Other(n.to)
  <2>1. n = CookieEcho(e, p.cookie) /\ p.type = "INIT_ACK"
    BY <1>3 DEF HandleInitAck, SendCookieEcho, Send
  <2> QED BY <1>3, <2>1, OtherPeer DEF CookieEcho
<1>4. ASSUME NEW p \in sent, HandleInit(e, p)
      PROVE  FALSE
  BY <1>4 DEF HandleInit, Send, InitAck
<1>5. ASSUME NEW p \in sent, HandleCookieEcho(e, p)
      PROVE  FALSE
  <2> DEFINE c == p.cookie
  <2>1. \A t : CookieAck(e, t) # n /\ Error(e, t) # n
    <3>1. \A t : CookieAck(e, t).type = "COOKIE_ACK" /\ Error(e, t).type = "ERROR"
      BY DEF CookieAck, Error
    <3> QED BY <3>1
  <2>2. ASSUME NEW t, Establish(e, c) \/ RefuseSecID(e, t) PROVE FALSE
    <3>1. sent' = sent \cup {CookieAck(e, c.peerTag)} \/ sent' = sent \cup {Error(e, t)}
      BY <2>2 DEF Establish, RefuseSecID, Send
    <3>2. CookieAck(e, c.peerTag) # n /\ Error(e, t) # n
      BY <2>1
    <3> QED BY <3>1, <3>2
  <2>3. CASE EchoClosed(e, c)
    BY <2>2, <2>3 DEF EchoClosed, NoSharedKey
  <2>4. CASE EchoRestarted(e, c)
    BY <2>2, <2>4 DEF EchoRestarted
  <2>5. CASE EchoBothStarted(e, c)
    BY <2>2, <2>5 DEF EchoBothStarted, NoSharedKey
  <2>6. CASE EchoSame(e, c)
    BY <2>1, <2>6 DEF EchoSame, Send
  <2> QED BY <1>5, <2>3, <2>4, <2>5, <2>6 DEF HandleCookieEcho
<1>6. ASSUME NEW p \in sent, HandleCookieAck(e, p) \/ HandleError(e, p)
      PROVE  FALSE
  BY <1>6 DEF HandleCookieAck, HandleError
<1>7. CASE Receive(e)
  <2>1. PICK p \in sent : p.to = e /\ \/ HandleInit(e, p) \/ HandleInitAck(e, p)
                                      \/ HandleCookieEcho(e, p)
                                      \/ HandleCookieAck(e, p) \/ HandleError(e, p)
    BY <1>7 DEF Receive
  <2>2. HandleInitAck(e, p)
    BY <2>1, <1>4, <1>5, <1>6
  <2> QED BY <2>1, <2>2, <1>3
<1> QED BY <1>1, <1>2, <1>7 DEF Move, Pump

-----------------------------------------------------------------------------
(* The invariant.                                                          *)

\* A move keeps the types and the bounds of the counters.
LEMMA MoveTypes ==
  ASSUME AssocInv, NEW e \in Peers, Move(e)
  PROVE  AssocTypeOK' /\ CountersBounded'
BY LocalTypes, OpenTypes, EchoTypes DEF Move, Receive

\* A move keeps what the tags of either end come from.
LEMMA MoveTags ==
  ASSUME AssocInv, NEW e \in Peers, Move(e), sent \subseteq sent'
  PROVE  EchoKept' /\ TagsOfOneCookie'
<1>1. AssocTypeOK /\ \A f \in Peers : EchoKeptAt(f) /\ TagsAt(f)
  BY DEF AssocInv, EchoKept, TagsOfOneCookie, TagsAt
<1>2. EchoKeptAt(e)' /\ TagsAt(e)'
  BY OpeningTags, EchoTags, AckTags DEF Move, Receive
<1>3. \A f \in Peers : EchoKeptAt(f)' /\ TagsAt(f)'
  <2> SUFFICES ASSUME NEW f \in Peers, f # e PROVE EchoKeptAt(f)' /\ TagsAt(f)'
    BY <1>2
  <2>1. /\ m_state'[f] = m_state[f] /\ m_localTag'[f] = m_localTag[f]
        /\ m_peerTag'[f] = m_peerTag[f] /\ m_initAck'[f] = m_initAck[f]
    BY <1>1, Untouched
  <2> QED BY <1>1, <2>1, Framed
<1> QED BY <1>3 DEF EchoKept, TagsOfOneCookie, TagsAt

\* Every step keeps the invariant.
LEMMA AssocStep == AssocInv /\ [AssocNext]_assocVars => AssocInv'
<1> SUFFICES ASSUME AssocInv, [AssocNext]_assocVars PROVE AssocInv'
  OBVIOUS
<1>1. CASE AssocNext
  <2>1. PICK e \in Peers : Move(e)
    BY <1>1, NextIsMove
  <2>2. sent \subseteq sent'
    BY <1>1, SentGrows
  <2>3. AssocTypeOK' /\ CountersBounded'
    BY <2>1, MoveTypes
  <2>4. EchoKept' /\ TagsOfOneCookie'
    BY <2>1, <2>2, MoveTags
  <2>5. CookiesReturn'
    <3> SUFFICES ASSUME NEW n \in sent', n.type = "COOKIE_ECHO"
                 PROVE  \E q \in sent' : /\ q.type = "INIT_ACK" /\ q.cookie = n.cookie
                                         /\ q.to = Other(n.to)
      BY DEF CookiesReturn
    <3>1. \E q \in sent : /\ q.type = "INIT_ACK" /\ q.cookie = n.cookie
                          /\ q.to = Other(n.to)
      BY <2>1, NewEcho DEF AssocInv, CookiesReturn
    <3> QED BY <2>2, <3>1
  <2> QED BY <2>3, <2>4, <2>5 DEF AssocInv
<1>2. CASE UNCHANGED assocVars
  BY <1>2 DEF assocVars, control, resends, AssocInv, AssocTypeOK, CountersBounded,
     EchoKept, EchoKeptAt, TagsOfOneCookie, EchoedTo, EchoedFrom, CookiesReturn
<1> QED BY <1>1, <1>2

\* The inductive invariant of the handshake, on which the theorems below rest.
THEOREM AssocInvHolds == AssocSpec => []AssocInv
BY InitInv, AssocStep, PTL DEF AssocSpec

\* Every variable of the handshake has its type; in particular the resend
\* counters stay within two of their limit.
THEOREM AssocTypesHold == AssocSpec => []AssocTypeOK
<1>1. AssocInv => AssocTypeOK
  BY DEF AssocInv
<1> QED BY <1>1, AssocInvHolds, PTL

\* An established association has the two tags of one cookie.
THEOREM TagsHold == AssocSpec => []TagsOfOneCookie
<1>1. AssocInv => TagsOfOneCookie
  BY DEF AssocInv
<1> QED BY <1>1, AssocInvHolds, PTL

\* A cookie comes back only to its author, from the end it was given to.
THEOREM CookiesReturnHolds == AssocSpec => []CookiesReturn
<1>1. AssocInv => CookiesReturn
  BY DEF AssocInv
<1> QED BY <1>1, AssocInvHolds, PTL

-----------------------------------------------------------------------------
(* The retries.                                                            *)

\* A move of one end uses up retries or leaves them, as long as the end is half
\* open; where they are given back it is established, closed or new.
LEMMA RetriesAreUsed ==
  ASSUME AssocInv, NEW e \in Peers, Move(e), HalfOpen(e), HalfOpen(e)'
  PROVE  Used(e)' >= Used(e) /\ (Pump(e) => Used(e)' > Used(e))
<1> USE DEF AssocInv, AssocTypeOK, HalfOpen, Used, SetState
<1>1. m_initResends[e] \in Nat /\ m_cookieResends[e] \in Nat
  BY AssociationAssumption
<1>2. CASE Pump(e)
  BY <1>1, <1>2 DEF Pump, PumpInit, PumpCookie, SendInit, SendCookieEcho
<1>3. CASE ~Pump(e)
  <2>1. CASE Connect(e) \/ PumpTimeout(e) \/ Recreate(e)
    BY <1>1, <2>1 DEF Connect, SendInit, PumpTimeout, Recreate
  <2>2. ASSUME NEW p \in sent, HandleInit(e, p) \/ HandleInitAck(e, p)
        PROVE  Used(e)' >= Used(e)
    BY <1>1, <2>2 DEF HandleInit, HandleInitAck, SendCookieEcho, resends
  <2>3. ASSUME NEW p \in sent, HandleCookieEcho(e, p)
        PROVE  Used(e)' >= Used(e)
    <3>1. ASSUME EchoRestarted(e, p.cookie) PROVE UNCHANGED resends
      BY <3>1 DEF EchoRestarted, Establish, RefuseSecID
    <3>2. UNCHANGED resends
      BY <2>3, <3>1 DEF HandleCookieEcho, EchoClosed, EchoBothStarted, EchoSame
    <3> QED BY <1>1, <3>2 DEF resends
  <2>4. ASSUME NEW p \in sent, HandleCookieAck(e, p) \/ HandleError(e, p)
        PROVE  Used(e)' >= Used(e)
    BY <1>1, <2>4 DEF HandleCookieAck, HandleError, resends
  <2> QED BY <1>3, <2>1, <2>2, <2>3, <2>4 DEF Move, Receive
<1> QED BY <1>2, <1>3

\* A move of the other end leaves the retries alone.
LEMMA RetriesKept ==
  ASSUME AssocInv, NEW e \in Peers, Move(e), NEW f \in Peers, f # e
  PROVE  m_initResends'[f] = m_initResends[f] /\ m_cookieResends'[f] = m_cookieResends[f]
<1> USE DEF AssocInv, AssocTypeOK, resends
<1>1. CASE Connect(e) \/ PumpTimeout(e) \/ Recreate(e) \/ Pump(e)
  BY <1>1 DEF Connect, PumpTimeout, Recreate, Pump, PumpInit, PumpCookie, SendInit, SendCookieEcho
<1>2. ASSUME NEW p \in sent, HandleInit(e, p) \/ HandleInitAck(e, p)
      PROVE  m_initResends'[f] = m_initResends[f] /\ m_cookieResends'[f] = m_cookieResends[f]
  BY <1>2 DEF HandleInit, HandleInitAck, SendCookieEcho
<1>3. ASSUME NEW p \in sent, HandleCookieEcho(e, p) \/ HandleCookieAck(e, p) \/ HandleError(e, p)
      PROVE  m_initResends'[f] = m_initResends[f] /\ m_cookieResends'[f] = m_cookieResends[f]
  BY <1>3 DEF HandleCookieEcho, EchoClosed, EchoRestarted, EchoBothStarted, EchoSame,
     HandleCookieAck, HandleError
<1> QED BY <1>1, <1>2, <1>3 DEF Move, Receive

\* RetriesRunOut: whatever arrives, an end that stays half open never gets a
\* retry back, and each time a timer fires it has one less.
THEOREM RetriesHold == AssocSpec => RetriesRunOut
<1> DEFINE NoneBack == \A e \in Peers : HalfOpen(e) /\ HalfOpen(e)' => Used(e)' >= Used(e)
           OneLess == \A e \in Peers : Pump(e) /\ HalfOpen(e)' => Used(e)' > Used(e)
<1>1. AssocInv /\ [AssocNext]_assocVars => [NoneBack]_assocVars
  <2> SUFFICES ASSUME AssocInv, AssocNext, NEW f \in Peers, HalfOpen(f), HalfOpen(f)'
               PROVE  Used(f)' >= Used(f)
    OBVIOUS
  <2>1. PICK e \in Peers : Move(e)
    BY NextIsMove
  <2>2. CASE f = e
    BY <2>1, <2>2, RetriesAreUsed
  <2>3. CASE f # e
    <3>1. m_initResends[f] \in Nat /\ m_cookieResends[f] \in Nat
      BY AssociationAssumption DEF AssocInv, AssocTypeOK
    <3> QED BY <2>1, <2>3, <3>1, RetriesKept DEF Used
  <2> QED BY <2>2, <2>3
<1>2. AssocInv /\ [AssocNext]_assocVars => [OneLess]_assocVars
  <2> SUFFICES ASSUME AssocInv, NEW f \in Peers, Pump(f), HalfOpen(f)'
               PROVE  Used(f)' > Used(f)
    OBVIOUS
  <2>1. Move(f) /\ HalfOpen(f)
    BY DEF Move, Pump, PumpInit, PumpCookie, HalfOpen
  <2> QED BY <2>1, RetriesAreUsed
<1> QED BY <1>1, <1>2, AssocInvHolds, PTL DEF AssocSpec, RetriesRunOut

-----------------------------------------------------------------------------
(***************************************************************************)
(* The calm opening.  The tag of an end is its own from the moment it      *)
(* leaves the closed state, so what was said of it stays true; an end that *)
(* is closed offers the tag 0, which it then adopts.  So every cookie that *)
(* is echoed has the tags the two ends use, and nobody looks started again.*)
(***************************************************************************)
Answered == {"COOKIE_ECHOED", "ESTABLISHED"}

\* A cookie that end e offers to one that still waits for it.
Offered(e, c) == \/ c.localTag = 0 /\ c.localTieTag = 0
                 \/ m_state[e] # "CLOSED" /\ c.localTag = m_localTag[e]

\* What is true of the sender of a packet and of the one it was sent to, by
\* the kind of the packet.
InitKept(p) == p.type = "INIT" => /\ m_state[Other(p.to)] # "CLOSED"
                                  /\ p.initTag = m_localTag[Other(p.to)]
OfferKept(p) == p.type = "INIT_ACK" =>
    /\ m_state[p.to] # "CLOSED" /\ p.cookie.peerTag = m_localTag[p.to]
    /\ m_state[p.to] = "COOKIE_WAIT" => Offered(Other(p.to), p.cookie)
ReturnKept(p) == p.type = "COOKIE_ECHO" =>
    /\ m_state[Other(p.to)] \in Answered /\ p.cookie = m_initAck[Other(p.to)]
    /\ p.cookie.peerTag = m_localTag[Other(p.to)]
    /\ Offered(p.to, p.cookie)
AckKept(p) == p.type = "COOKIE_ACK" =>
    /\ m_state[Other(p.to)] = "ESTABLISHED" /\ m_state[p.to] \in Answered
    /\ m_localTag[Other(p.to)] = m_initAck[p.to].localTag
Kept(p) == /\ InitKept(p) /\ OfferKept(p) /\ ReturnKept(p) /\ AckKept(p)
           /\ p.type # "ERROR"

\* An end that is established has the other one's tag.
UpKept == \A e \in Peers :
    m_state[e] = "ESTABLISHED" =>
        m_peerTag[e] = m_localTag[Other(e)] /\ m_state[Other(e)] \in Answered

CalmInv == AssocInv /\ (\A p \in sent : Kept(p)) /\ UpKept

\* What the handlers do to the end e in a calm opening: it keeps its tag from
\* the moment it leaves the closed state, and its cookie once it has echoed it.
Onward(e) ==
    /\ m_state[e] # "CLOSED" => m_state'[e] # "CLOSED" /\ m_localTag'[e] = m_localTag[e]
    /\ m_state[e] \in Answered => m_state'[e] \in Answered /\ m_initAck'[e] = m_initAck[e]
    /\ m_state[e] = "ESTABLISHED" => m_state'[e] = "ESTABLISHED"
    /\ m_state'[e] = "COOKIE_WAIT" => m_state[e] \in {"CLOSED", "COOKIE_WAIT"}

\* What was true of a packet stays true while the ends go onward, if the end it
\* was offered to does not begin to wait behind it.
LEMMA KeptOnward ==
  ASSUME NEW p \in sent, Kept(p), p.to \in Peers, \A e \in Peers : Onward(e)
  PROVE  Kept(p)'
<1>1. Other(p.to) \in Peers /\ Other(Other(p.to)) = p.to
  BY OtherPeer
<1>2. Onward(p.to) /\ Onward(Other(p.to))
  BY <1>1
<1> DEFINE f == p.to
           e == Other(p.to)
<1>3. InitKept(p)'
  BY <1>2 DEF Kept, InitKept, Onward
<1>4. \A c : Offered(e, c) => Offered(e, c)'
  BY <1>2 DEF Offered, Onward
<1>5. \A c : Offered(f, c) => Offered(f, c)'
  BY <1>2 DEF Offered, Onward
<1>6. OfferKept(p)'
  BY <1>2, <1>4 DEF Kept, OfferKept, Onward
<1>7. ReturnKept(p)'
  BY <1>2, <1>5 DEF Kept, ReturnKept, Onward, Answered
<1>8. AckKept(p)'
  BY <1>2 DEF Kept, AckKept, Onward
<1> QED
  BY <1>3, <1>6, <1>7, <1>8 DEF Kept

\* An established end stays right about the other one.
LEMMA UpOnward ==
  ASSUME NEW e \in Peers, UpKept, \A f \in Peers : Onward(f),
         m_state[e] = "ESTABLISHED", m_peerTag'[e] = m_peerTag[e]
  PROVE  m_peerTag'[e] = m_localTag'[Other(e)] /\ m_state'[Other(e)] \in Answered
<1>1. Other(e) \in Peers
  BY OtherPeer
<1>2. Onward(Other(e)) /\ m_state[Other(e)] \in Answered /\ m_state[Other(e)] # "CLOSED"
  BY <1>1 DEF UpKept, Answered
<1> QED
  BY <1>2 DEF UpKept, Onward

\* All that a step has to show: the ends go onward, the packets sent are right,
\* and so is an end that has become established or has changed its mind.
LEMMA CalmKept ==
  ASSUME CalmInv, AssocInv', \A f \in Peers : Onward(f), \A p \in sent' \ sent : Kept(p)',
         \A f \in Peers : m_state'[f] = "ESTABLISHED" =>
            \/ m_state[f] = "ESTABLISHED" /\ m_peerTag'[f] = m_peerTag[f]
            \/ m_peerTag'[f] = m_localTag'[Other(f)] /\ m_state'[Other(f)] \in Answered
  PROVE  CalmInv'
<1>1. \A p \in sent : p.to \in Peers
  BY DEF CalmInv, AssocInv, AssocTypeOK, Packets
<1>2. \A p \in sent : Kept(p)'
  BY <1>1, KeptOnward DEF CalmInv
<1>3. UpKept'
  BY UpOnward DEF CalmInv, UpKept
<1> QED
  BY <1>2, <1>3 DEF CalmInv

\* The end that does not move goes onward.
LEMMA OthersOnward ==
  ASSUME CalmInv, NEW e \in Peers, Move(e), Onward(e)
  PROVE  \A f \in Peers : Onward(f)
BY Untouched DEF CalmInv, AssocInv, Onward

\* The move of one end, as far as it is the only one that changes.
LEMMA CalmMove ==
  ASSUME CalmInv, AssocInv', NEW e \in Peers, Move(e), Onward(e), \A p \in sent' \ sent : Kept(p)',
         m_state'[e] = "ESTABLISHED" =>
            \/ m_state[e] = "ESTABLISHED" /\ m_peerTag'[e] = m_peerTag[e]
            \/ m_peerTag'[e] = m_localTag'[Other(e)] /\ m_state'[Other(e)] \in Answered
  PROVE  CalmInv'
<1>1. \A f \in Peers : Onward(f)
  BY OthersOnward
<1>2. ASSUME NEW f \in Peers, f # e
      PROVE  m_state'[f] = m_state[f] /\ m_peerTag'[f] = m_peerTag[f]
  BY <1>2, Untouched DEF CalmInv, AssocInv
<1> QED
  BY <1>1, <1>2, CalmKept

\* connect.
LEMMA ConnectCalm ==
  ASSUME CalmInv, AssocInv', NEW e \in Peers, Connect(e)
  PROVE  CalmInv'
<1>1. m_state'[e] = "COOKIE_WAIT" /\ m_state[e] = "CLOSED" /\ UNCHANGED <<m_localTag, m_initAck>>
  BY DEF Connect, SetState, CalmInv, AssocInv, AssocTypeOK
<1>2. Onward(e)
  BY <1>1 DEF Onward, Answered
<1>3. ASSUME NEW p \in sent' \ sent PROVE Kept(p)'
  <2>1. p = Init(e)
    BY DEF Connect, SendInit, Send
  <2>2. p.type = "INIT" /\ p.to = Other(e) /\ p.initTag = m_localTag[e] /\ Other(p.to) = e
    BY <2>1, OtherPeer DEF Init
  <2> QED
    BY <1>1, <2>2 DEF Kept, InitKept, OfferKept, ReturnKept, AckKept
<1>4. Move(e)
  BY DEF Move
<1> QED
  BY <1>1, <1>2, <1>3, <1>4, CalmMove

\* An INIT: the offer is made to an end that is no more closed, under its tag.
LEMMA InitCalm ==
  ASSUME CalmInv, AssocInv', NEW e \in Peers, NEW p \in sent, p.to = e, Move(e), HandleInit(e, p)
  PROVE  CalmInv'
<1> DEFINE f == Other(e)
<1>1. f \in Peers /\ f # e /\ Other(f) = e
  BY OtherPeer
<1>2. m_state[f] # "CLOSED" /\ p.initTag = m_localTag[f] /\ UNCHANGED <<m_state, m_localTag, m_initAck>>
  BY DEF HandleInit, CalmInv, Kept, InitKept
<1>3. Onward(e)
  BY <1>2 DEF Onward
<1>4. m_state[e] # "CLOSED" => UNCHANGED m_peerTag
  BY DEF HandleInit
<1>5. m_state[e] = "ESTABLISHED" => m_state[f] \in Answered
  BY DEF CalmInv, UpKept
<1>6. ASSUME NEW n \in sent' \ sent PROVE Kept(n)'
  <2>1. PICK c : /\ n = InitAck(e, c) /\ c.peerTag = p.initTag
                 /\ \/ c.localTag = 0 /\ c.localTieTag = 0
                    \/ m_state[e] # "CLOSED" /\ c.localTag = m_localTag[e]
                    \/ m_state[e] = "ESTABLISHED"
    <3> DEFINE k(tag, local, peer) == [localTag |-> tag, peerTag |-> p.initTag,
                                       localTieTag |-> local, peerTieTag |-> peer]
    <3>1. \A tag, local, peer : /\ k(tag, local, peer).localTag = tag /\ k(tag, local, peer).peerTag = p.initTag
                                /\ k(tag, local, peer).localTieTag = local
      OBVIOUS
    <3>2. \/ m_state[e] = "CLOSED" /\ n = InitAck(e, k(0, 0, 0))
          \/ m_state[e] = "COOKIE_WAIT" /\ n = InitAck(e, k(m_localTag[e], 0, 0))
          \/ m_state[e] = "COOKIE_ECHOED" /\ n = InitAck(e, k(m_localTag[e], m_localTag[e], m_peerTag[e]))
          \/ m_state[e] = "ESTABLISHED" /\ n = InitAck(e, k(lastTag + 1, m_localTag[e], m_peerTag[e]))
      BY <1>6 DEF HandleInit, Send
    <3> HIDE DEF k
    <3> QED
      BY <3>1, <3>2
  <2>2. n.type = "INIT_ACK" /\ n.to = f /\ n.cookie = c
    BY <2>1 DEF InitAck
  <2>3. m_state[f] = "COOKIE_WAIT" => Offered(e, c)'
    BY <1>2, <1>5, <2>1 DEF Offered, Answered
  <2> QED
    BY <1>1, <1>2, <2>1, <2>2, <2>3 DEF Kept, InitKept, OfferKept, ReturnKept, AckKept
<1> QED
  BY <1>2, <1>3, <1>4, <1>6, CalmMove

\* An INIT_ACK: the cookie that is kept and echoed is one that was offered.
LEMMA InitAckCalm ==
  ASSUME CalmInv, AssocInv', NEW e \in Peers, NEW p \in sent, p.to = e, Move(e), HandleInitAck(e, p)
  PROVE  CalmInv'
<1> DEFINE f == Other(e)
<1>1. f \in Peers /\ f # e /\ Other(f) = e
  BY OtherPeer
<1>2. m_state[e] = "COOKIE_WAIT" /\ p.cookie.peerTag = m_localTag[e] /\ Offered(f, p.cookie)
  BY DEF HandleInitAck, CalmInv, Kept, OfferKept
<1>3. /\ m_state'[e] = "COOKIE_ECHOED" /\ m_localTag' = m_localTag /\ m_initAck'[e] = p.cookie
      /\ m_state'[f] = m_state[f]
  BY <1>1, <1>2 DEF HandleInitAck, SetState, CalmInv, AssocInv, AssocTypeOK
<1>4. Onward(e)
  BY <1>2, <1>3 DEF Onward, Answered
<1>5. ASSUME NEW n \in sent' \ sent PROVE Kept(n)'
  <2>1. n = CookieEcho(e, p.cookie)
    BY <1>5 DEF HandleInitAck, SendCookieEcho, Send
  <2>2. n.type = "COOKIE_ECHO" /\ n.to = f /\ n.cookie = p.cookie
    BY <2>1 DEF CookieEcho
  <2>3. Offered(f, p.cookie)'
    BY <1>2, <1>3 DEF Offered
  <2> QED
    BY <1>1, <1>2, <1>3, <2>2, <2>3 DEF Kept, InitKept, OfferKept, ReturnKept, AckKept, Answered
<1> QED
  BY <1>3, <1>4, <1>5, CalmMove

\* A COOKIE_ECHO that is accepted: both ends then have each other's tags.
LEMMA AcceptedCalm ==
  ASSUME CalmInv, AssocInv', NEW e \in Peers, NEW p \in sent, p.to = e, p.type = "COOKIE_ECHO", Move(e),
         m_state'[e] = "ESTABLISHED", m_localTag'[e] = p.cookie.localTag, m_peerTag'[e] = p.cookie.peerTag,
         m_initAck' = m_initAck, m_state[e] # "CLOSED" => m_localTag'[e] = m_localTag[e],
         \A n \in sent' \ sent : n.type = "COOKIE_ACK" /\ n.to = Other(e)
  PROVE  CalmInv'
<1> DEFINE f == Other(e)
<1>1. f \in Peers /\ f # e /\ Other(f) = e
  BY OtherPeer
<1>2. m_state[f] \in Answered /\ p.cookie = m_initAck[f] /\ p.cookie.peerTag = m_localTag[f]
  BY DEF CalmInv, Kept, ReturnKept
<1>3. m_state'[f] = m_state[f] /\ m_localTag'[f] = m_localTag[f]
  BY <1>1, Untouched DEF CalmInv, AssocInv
<1>4. Onward(e)
  BY DEF Onward, Answered
<1>5. ASSUME NEW n \in sent' \ sent PROVE Kept(n)'
  BY <1>1, <1>2, <1>3 DEF Kept, InitKept, OfferKept, ReturnKept, AckKept
<1> QED
  BY <1>2, <1>3, <1>4, <1>5, CalmMove

\* A COOKIE_ECHO, case by case: nobody looks started again.
LEMMA EchoCalm ==
  ASSUME FALSE \notin KeyKnown, CalmInv, AssocInv', NEW e \in Peers, NEW p \in sent, p.to = e, Move(e),
         HandleCookieEcho(e, p)
  PROVE  CalmInv'
<1> DEFINE c == p.cookie
<1>1. p.type = "COOKIE_ECHO" /\ m_initAck' = m_initAck
  BY DEF HandleCookieEcho
<1>2. Offered(e, c)
  BY <1>1 DEF CalmInv, Kept, ReturnKept
<1>3. /\ m_state \in [Peers -> AssocStates] /\ m_localTag \in [Peers -> Tags] /\ m_peerTag \in [Peers -> Tags]
  BY DEF CalmInv, AssocInv, AssocTypeOK, AssocStates
<1>4. \A t : ~RefuseSecID(e, t)
  BY DEF RefuseSecID
<1>5. ASSUME Establish(e, c)
      PROVE  /\ m_state'[e] = "ESTABLISHED"
             /\ \A n \in sent' \ sent : n.type = "COOKIE_ACK" /\ n.to = Other(e)
  BY <1>3, <1>5 DEF Establish, SetState, Send, CookieAck
<1>6. CASE EchoClosed(e, c)
  <2>1. m_state[e] = "CLOSED" /\ m_localTag'[e] = c.localTag /\ m_peerTag'[e] = c.peerTag
    BY <1>3, <1>6 DEF EchoClosed, AdoptTags
  <2>2. CASE Establish(e, c)
    BY <1>1, <1>5, <2>1, <2>2, AcceptedCalm
  <2>3. CASE UNCHANGED <<m_state, sent>>
    <3>1. Onward(e)
      BY <2>1, <2>3 DEF Onward, Answered
    <3> QED
      BY <2>1, <2>3, <3>1, CalmMove
  <2> QED
    BY <1>4, <1>6, <2>2, <2>3 DEF EchoClosed, NoSharedKey
<1>7. CASE EchoRestarted(e, c)
  BY <1>2, <1>7 DEF EchoRestarted, PeerRestarted, Offered
<1>8. CASE EchoBothStarted(e, c)
  <2>1. /\ Establish(e, c) \/ NoSharedKey(e)
        /\ m_localTag' = m_localTag /\ m_localTag[e] = c.localTag /\ m_peerTag'[e] = c.peerTag
    BY <1>3, <1>4, <1>8 DEF EchoBothStarted, BothStarted
  <2>2. CASE Establish(e, c)
    BY <1>1, <1>5, <2>1, <2>2, AcceptedCalm
  <2>3. CASE NoSharedKey(e)
    <3>1. UNCHANGED <<m_state, m_localTag, m_initAck, sent>> /\ Onward(e)
      BY <1>1, <2>1, <2>3 DEF NoSharedKey, Onward
    <3>2. m_state[Other(e)] \in Answered /\ c.peerTag = m_localTag[Other(e)]
      BY <1>1 DEF CalmInv, Kept, ReturnKept
    <3> QED
      BY <2>1, <3>1, <3>2, CalmMove
  <2> QED
    BY <2>1, <2>2, <2>3
<1>9. CASE EchoSame(e, c)
  <2>1. /\ m_state'[e] = "ESTABLISHED" /\ m_localTag'[e] = c.localTag /\ m_peerTag'[e] = c.peerTag
        /\ m_localTag' = m_localTag
    BY <1>3, <1>9 DEF EchoSame, SameAssociation, SetState
  <2>2. \A n \in sent' \ sent : n.type = "COOKIE_ACK" /\ n.to = Other(e)
    BY <1>9 DEF EchoSame, Send, CookieAck
  <2> QED
    BY <1>1, <2>1, <2>2, AcceptedCalm
<1> QED
  BY <1>6, <1>7, <1>8, <1>9 DEF HandleCookieEcho

\* A COOKIE_ACK: the other end has taken the tags of the cookie that is kept.
LEMMA AckCalm ==
  ASSUME CalmInv, AssocInv', NEW e \in Peers, NEW p \in sent, p.to = e, Move(e), HandleCookieAck(e, p)
  PROVE  CalmInv'
<1> DEFINE f == Other(e)
<1>1. f \in Peers /\ f # e
  BY OtherPeer
<1>2. m_state[f] = "ESTABLISHED" /\ m_localTag[f] = m_initAck[e].localTag
  BY DEF HandleCookieAck, CalmInv, Kept, AckKept
<1>3. m_peerTag[e] = m_localTag[f]
  <2>1. CASE EchoedTo(e)
    BY <2>1 DEF EchoedTo, CalmInv, Kept, ReturnKept
  <2>2. CASE ~EchoedTo(e)
    BY <1>2, <2>2 DEF HandleCookieAck, CalmInv, AssocInv, EchoKept, EchoKeptAt
  <2> QED
    BY <2>1, <2>2
<1>4. /\ m_state[e] = "COOKIE_ECHOED" /\ m_state'[e] = "ESTABLISHED" /\ m_state'[f] = m_state[f]
      /\ UNCHANGED <<m_localTag, m_peerTag, m_initAck, sent>>
  BY <1>1 DEF HandleCookieAck, SetState, CalmInv, AssocInv, AssocTypeOK
<1>5. Onward(e)
  BY <1>4 DEF Onward, Answered
<1> QED
  BY <1>2, <1>3, <1>4, <1>5, CalmMove DEF Answered

\* Every step of a calm opening keeps its invariant.
LEMMA CalmStep ==
  ASSUME FALSE \notin KeyKnown, CalmInv, [CalmNext]_assocVars
  PROVE  CalmInv'
<1>1. [AssocNext]_assocVars
  BY DEF CalmNext, AssocNext
<1>2. AssocInv'
  BY <1>1, AssocStep DEF CalmInv
<1>3. ASSUME NEW e \in Peers, Receive(e) PROVE CalmInv'
  <2>1. PICK p \in sent : p.to = e /\ \/ HandleInit(e, p) \/ HandleInitAck(e, p)
                                      \/ HandleCookieEcho(e, p)
                                      \/ HandleCookieAck(e, p) \/ HandleError(e, p)
    BY <1>3 DEF Receive
  <2>2. Move(e) /\ ~HandleError(e, p)
    BY <1>3 DEF Move, HandleError, CalmInv, Kept
  <2> QED
    BY <1>2, <2>1, <2>2, InitCalm, InitAckCalm, EchoCalm, AckCalm
<1>4. CASE UNCHANGED assocVars
  <2>1. UNCHANGED <<m_state, m_localTag, m_peerTag, m_initAck, sent>>
    BY <1>4 DEF assocVars, control
  <2>2. \A f \in Peers : Onward(f)
    BY <2>1 DEF Onward
  <2> QED
    BY <1>2, <2>1, <2>2, CalmKept
<1> QED
  BY <1>2, <1>3, <1>4, ConnectCalm DEF CalmNext

\* The invariant of an opening in which no key is unknown.
THEOREM CalmInvHolds ==
  ASSUME FALSE \notin KeyKnown
  PROVE  CalmFairSpec => []CalmInv
<1>1. AssocInit => CalmInv
  <2>1. AssocInit => (\A p \in sent : Kept(p)) /\ UpKept
    BY DEF AssocInit, UpKept
  <2> QED
    BY <2>1, InitInv DEF CalmInv
<1>2. CalmInv /\ [CalmNext]_assocVars => CalmInv'
  BY CalmStep
<1> QED
  BY <1>1, <1>2, PTL DEF CalmFairSpec

\* BothAgree: if nobody gives up or starts again and the security keys are
\* known, two established ends have each other's tags, however the packets of
\* two openings cross and are repeated, for any limit of resends and any number
\* of tags.
THEOREM CalmOpeningAgrees ==
  ASSUME FALSE \notin KeyKnown
  PROVE  CalmFairSpec => []BothAgree
<1>1. CalmInv => BothAgree
  BY DEF CalmInv, UpKept, BothAgree, Agreed
<1> QED
  BY <1>1, CalmInvHolds, PTL
=============================================================================
