----------------------------- MODULE AuthProofs -----------------------------
(***************************************************************************)
(* Theorems of AuthService, for any credentials and any number of requests. *)
(***************************************************************************)
EXTENDS AuthService, TLAPS

AuthInv == AuthTypeOK /\ BusyIsConnected /\ AuthInfoOfOneReply

-----------------------------------------------------------------------------
\* A ticket is that of the request which is out, or none.
LEMMA TicketFacts ==
  ASSUME AuthTypeOK, NEW r
  PROVE  Ticket(r) \in {0, task} /\ Ticket(r) \in 0 .. task
BY DEF AuthTypeOK, Ticket

\* What a reply leaves has its type, whatever the request and the reply are:
\* the account error of a ticket that is refused keeps the data for the lobby.
LEMMA AccountReplyTypes ==
  ASSUME AuthTypeOK, NEW r \in Replies
  PROVE  /\ AccountReply(r).code \in ErrorCodes
         /\ AccountReply(r).ticket \in 0 .. task
         /\ AccountReply(r).info \in [key : 0 .. task, data : 0 .. task]
<1>1. CASE r.parts < 2
  BY <1>1 DEF AccountReply, Unchanged, Result, AuthTypeOK, ErrorCodes
<1>2. CASE ~(r.parts < 2) /\ Ticket(r) = 0
  BY <1>2 DEF AccountReply, Result, AuthTypeOK, ErrorCodes
<1>3. CASE ~(r.parts < 2) /\ Ticket(r) # 0
  BY <1>3 DEF AccountReply, Result, AuthTypeOK, ErrorCodes
<1> QED
  BY <1>1, <1>2, <1>3

\* What the handler of a Steam reply makes of it has the right type.
LEMMA SteamReplyTypes ==
  ASSUME AuthTypeOK, NEW r \in Replies
  PROVE  /\ SteamReply(r).code \in ErrorCodes
         /\ SteamReply(r).ticket \in 0 .. task
         /\ SteamReply(r).info \in [key : 0 .. task, data : 0 .. task]
<1> DEFINE read == (r.parts >= 1) = (r.parts >= 2)
           ticket == IF ~read THEN m_authTicket
                     ELSE IF r.parts >= 2 THEN Ticket(r) ELSE 0
           ok == read = (r.parts = 3)
           data == IF r.parts = 3 THEN task ELSE m_authInfo.data
<1>1. ticket \in 0 .. task /\ data \in 0 .. task /\ m_authInfo.key \in 0 .. task
  BY TicketFacts DEF AuthTypeOK
<1>2. SteamReply(r) = Result(IF ok THEN "AUTH_NO_ERROR" ELSE "UNKNOWN_ERROR", ticket,
                             [key |-> IF ok /\ ticket # 0 THEN ticket ELSE m_authInfo.key,
                              data |-> data])
  BY DEF SteamReply
<1> HIDE DEF ok, ticket, data
<1> QED
  BY <1>1, <1>2 DEF Result, ErrorCodes

\* What handleReply makes of any reply has the right type.
LEMMA HandleReplyTypes ==
  ASSUME AuthTypeOK, NEW r \in Replies
  PROVE  /\ HandleReply(r).code \in ErrorCodes
         /\ HandleReply(r).ticket \in 0 .. task
         /\ HandleReply(r).info \in [key : 0 .. task, data : 0 .. task]
<1>1. ASSUME NEW code \in ErrorCodes
      PROVE  /\ Unchanged(code).code \in ErrorCodes
             /\ Unchanged(code).ticket \in 0 .. task
             /\ Unchanged(code).info \in [key : 0 .. task, data : 0 .. task]
  BY DEF Unchanged, Result, AuthTypeOK
<1>2. r.code \in {"none", "refused", "AUTH_NO_ERROR"} /\ r.code \in ErrorCodes \cup {"none"}
  BY DEF Replies, ErrorCodes
<1>3. {"NO_ERROR", "AUTH_NO_ERROR", "refused", "UNKNOWN_ERROR"} \subseteq ErrorCodes
  BY DEF ErrorCodes
<1>4. CASE r.code = "none"
  BY <1>1, <1>3, <1>4 DEF HandleReply
<1>5. CASE r.code = "refused"
  BY <1>1, <1>3, <1>5 DEF HandleReply
<1>6. CASE r.code = "AUTH_NO_ERROR"
  <2>1. HandleReply(r) \in {AccountReply(r), SteamReply(r), NamesReply(r), Unchanged("AUTH_NO_ERROR")}
    BY <1>6 DEF HandleReply
  <2>2. NamesReply(r) \in {Unchanged("AUTH_NO_ERROR"), Unchanged("UNKNOWN_ERROR")}
    BY DEF NamesReply
  <2> QED
    BY <1>1, <1>3, <2>1, <2>2, AccountReplyTypes, SteamReplyTypes
<1> QED
  BY <1>2, <1>4, <1>5, <1>6

\* A reply that is not cut where it matters leaves a session key and data of
\* one request: both of its own or both as they were.
LEMMA ReplyOfOneRequest ==
  ASSUME AuthTypeOK, NEW r \in Replies, ~Spoils(r), m_authInfo.key = m_authInfo.data
  PROVE  HandleReply(r).info.key = HandleReply(r).info.data
<1>1. \A code : Unchanged(code).info = m_authInfo
  BY DEF Unchanged, Result
<1>2. CASE r.code # "AUTH_NO_ERROR"
  BY <1>1, <1>2 DEF HandleReply, Replies
<1>3. CASE r.code = "AUTH_NO_ERROR"
  <2>1. r.parts \in 0 .. 3 /\ r.parts # 2
    BY <1>3 DEF Spoils, Replies
  <2>2. AccountReply(r).info.key = AccountReply(r).info.data
    BY <1>1, <2>1, TicketFacts DEF AccountReply, Result
  <2>3. CASE m_request.kind = "steam"
    <3>1. r.parts \in {0, 3} /\ Ticket(r) = task /\ task # 0
      BY <1>3, <2>1, <2>3, TicketFacts DEF Spoils
    <3> DEFINE read == (r.parts >= 1) = (r.parts >= 2)
               ticket == IF ~read THEN m_authTicket
                         ELSE IF r.parts >= 2 THEN Ticket(r) ELSE 0
               ok == read = (r.parts = 3)
               data == IF r.parts = 3 THEN task ELSE m_authInfo.data
               key == IF ok /\ ticket # 0 THEN ticket ELSE m_authInfo.key
    <3>2. SteamReply(r).info = [key |-> key, data |-> data]
      BY DEF SteamReply, Result
    <3>3. CASE r.parts = 0
      <4>1. read /\ ~(r.parts = 3)
        BY <3>3
      <4>2. ~ok
        BY <4>1
      <4>3. key = m_authInfo.key /\ data = m_authInfo.data
        BY <3>3, <4>2
      <4> QED
        BY <1>3, <2>3, <3>2, <4>3 DEF HandleReply
    <3>4. CASE r.parts = 3
      <4>1. read /\ r.parts >= 2
        BY <3>4
      <4>2. ok
        BY <3>4, <4>1
      <4>3. key = task /\ data = task
        BY <3>1, <3>4, <4>1, <4>2
      <4> QED
        BY <1>3, <2>3, <3>2, <4>3 DEF HandleReply
    <3> QED
      BY <3>1, <3>3, <3>4
  <2>4. CASE m_request.kind # "steam"
    BY <1>1, <1>3, <2>2, <2>4 DEF HandleReply, NamesReply
  <2> QED
    BY <2>3, <2>4
<1> QED
  BY <1>2, <1>3

-----------------------------------------------------------------------------
\* Requests, and the callbacks inside them.
LEMMA AuthorizeKeeps ==
  ASSUME AuthInv, NEW kind \in Kinds, NEW cred \in Credentials, Authorize(kind, cred)
  PROVE  AuthInv'
<1>1. m_keys' \in [Keys -> Credentials \cup {NoCredential}]
  BY DEF AuthInv, AuthTypeOK, Authorize
<1>2. m_authTicket' = m_authTicket /\ m_authInfo' = m_authInfo /\ spoiled' = spoiled
  BY DEF Authorize, decoded
<1>3. CASE MayStart
  <2>1. /\ task < MaxTasks /\ task' = task + 1 /\ m_request' = [kind |-> kind, cred |-> cred]
        /\ ended' = "none" /\ StartTask
    BY <1>3 DEF Authorize
  <2>2. task' \in 0 .. MaxTasks /\ m_authTicket \in 0 .. task' /\ m_authInfo \in [key : 0 .. task', data : 0 .. task']
    BY <2>1, AuthAssumption DEF AuthInv, AuthTypeOK
  <2>3. /\ m_status' \in {"READY", "CONNECTING", "PENDING_REPLY"} /\ m_errorCode' \in ErrorCodes
        /\ m_connection' \in {"NULL", "CONNECTING", "CONNECTED", "DISCONNECTED"}
        /\ brokeInCallback' \in BOOLEAN /\ inbox' \subseteq Replies
    BY <2>1 DEF AuthInv, AuthTypeOK, StartTask, ErrorCodes
  <2>4. BusyIsConnected'
    BY <1>3, <2>1 DEF BusyIsConnected, StartTask, MayStart
  <2> QED
    BY <1>1, <1>2, <2>1, <2>2, <2>3, <2>4 DEF AuthInv, AuthTypeOK, AuthInfoOfOneReply
<1>4. CASE ~MayStart
  BY <1>1, <1>2, <1>4 DEF Authorize, AuthInv, AuthTypeOK, BusyIsConnected, AuthInfoOfOneReply
<1> QED
  BY <1>3, <1>4

\* Polls, and the callbacks inside them.
LEMMA PollsKeep ==
  ASSUME AuthInv, PollConnecting \/ PollLost \/ PollReply
  PROVE  AuthInv'
<1>1. CASE PollConnecting
  BY <1>1 DEF PollConnecting, AuthInv, AuthTypeOK, BusyIsConnected, AuthInfoOfOneReply, decoded, ErrorCodes
<1>2. CASE PollLost
  BY <1>2 DEF PollLost, Listens, AuthInv, AuthTypeOK, BusyIsConnected, AuthInfoOfOneReply, decoded, ErrorCodes
<1>3. CASE PollReply
  <2>1. PICK r \in inbox :
          /\ m_errorCode' = HandleReply(r).code
          /\ m_authTicket' = HandleReply(r).ticket /\ m_authInfo' = HandleReply(r).info
          /\ spoiled' = (spoiled \/ Spoils(r))
          /\ ended' \in {"cut", "reply"}
    BY <1>3 DEF PollReply
  <2>2. r \in Replies
    BY DEF AuthInv, AuthTypeOK
  <2>3. AuthTypeOK'
    BY <1>3, <2>1, <2>2, HandleReplyTypes DEF PollReply, AuthInv, AuthTypeOK
  <2>4. BusyIsConnected'
    BY <1>3 DEF PollReply, BusyIsConnected
  <2>5. AuthInfoOfOneReply'
    BY <2>1, <2>2, ReplyOfOneRequest DEF AuthInv, AuthInfoOfOneReply
  <2> QED
    BY <2>3, <2>4, <2>5 DEF AuthInv
<1> QED
  BY <1>1, <1>2, <1>3

\* Every step keeps the invariant.
LEMMA AuthStep == AuthInv /\ [AuthNext]_authVars => AuthInv'
<1> SUFFICES ASSUME AuthInv, [AuthNext]_authVars PROVE AuthInv'
  OBVIOUS
<1>1. ASSUME NEW cred \in Credentials, GetSteamRequestData(cred) PROVE AuthInv'
  BY <1>1 DEF GetSteamRequestData, AuthInv, AuthTypeOK, BusyIsConnected, AuthInfoOfOneReply, decoded
<1>2. ASSUME NEW r \in Replies, ServerReplies(r) PROVE AuthInv'
  BY <1>2 DEF ServerReplies, AuthInv, AuthTypeOK, BusyIsConnected, AuthInfoOfOneReply, decoded
<1>3. CASE UNCHANGED authVars
  BY <1>3 DEF authVars, AuthInv, AuthTypeOK, BusyIsConnected, AuthInfoOfOneReply
<1> QED
  BY <1>1, <1>2, <1>3, AuthorizeKeeps, PollsKeep DEF AuthNext

\* The three invariants are inductive together: the data of a reply needs its
\* types, and neither needs anything more.
THEOREM AuthInvHolds == AuthSpec => []AuthInv
<1>1. AuthInit => AuthInv
  <2> SUFFICES ASSUME AuthInit PROVE AuthInv
    OBVIOUS
  <2>1. m_authInfo \in [key : 0 .. task, data : 0 .. task] /\ m_authInfo.key = m_authInfo.data
    BY DEF AuthInit
  <2>2. m_request \in [kind : Kinds \cup {"none"}, cred : Credentials \cup {NoCredential}]
    BY DEF AuthInit
  <2>3. m_keys \in [Keys -> Credentials \cup {NoCredential}]
    BY DEF AuthInit
  <2>4. task \in 0 .. MaxTasks /\ m_authTicket \in 0 .. task
    BY AuthAssumption DEF AuthInit
  <2>5. {brokeInCallback, spoiled} \subseteq BOOLEAN /\ inbox \subseteq Replies
    BY DEF AuthInit
  <2> QED
    BY <2>1, <2>2, <2>3, <2>4, <2>5
    DEF AuthInit, AuthInv, AuthTypeOK, BusyIsConnected, AuthInfoOfOneReply, ErrorCodes
<1> QED
  BY <1>1, AuthStep, PTL DEF AuthSpec

\* Every variable of bdAuthService keeps its type (AuthService.tla): no ticket
\* or key is of a request that was not made.
THEOREM AuthTypesHold == AuthSpec => []AuthTypeOK
<1>1. AuthInv => AuthTypeOK
  BY DEF AuthInv
<1> QED
  BY <1>1, AuthInvHolds, PTL

\* A busy service has a connection that will tell it of its end, but for the
\* one that broke inside onConnect (bdAuthService.cpp:152).
THEOREM BusyIsConnectedHolds == AuthSpec => []BusyIsConnected
<1>1. AuthInv => BusyIsConnected
  BY DEF AuthInv
<1> QED
  BY <1>1, AuthInvHolds, PTL

\* The session key and the data the lobby connection is given are of one
\* reply, unless one was cut where bdAuthService does not notice it.
THEOREM AuthInfoHolds == AuthSpec => []AuthInfoOfOneReply
<1>1. AuthInv => AuthInfoOfOneReply
  BY DEF AuthInv
<1> QED
  BY <1>1, AuthInvHolds, PTL
=============================================================================
