---------------------------- MODULE AuthService ----------------------------
(***************************************************************************)
(* bdLobby/bdAuthService: one request and one reply over a lobby connection *)
(* made for the purpose.  The connection is what LobbyChannel promises; the *)
(* service is its listener, so onConnect, onConnectFailed and onDisconnect  *)
(* run inside connect and inside the poll of getStatus.                     *)
(* Requests are numbered; what is decrypted from a reply is represented by  *)
(* the number of the request it answers, 0 where there is nothing valid.    *)
(***************************************************************************)
EXTENDS Naturals

CONSTANTS Credentials,   \* passwords, licence keys or cookies
          NoCredential,
          MaxTasks       \* bound: requests made

ASSUME AuthAssumption == MaxTasks \in Nat /\ NoCredential \notin Credentials

\* The replies 11, 13 and 29 carry a ticket, 21 a list of names; createAccount
\* is answered by an error code only.
Kinds == {"account", "host", "names", "steam", "create"}
Storing == {"account", "host", "names"}   \* the calls that store their key
Ticketed == {"account", "host", "steam"}
KeyOf(kind) == CASE kind = "account" -> "m_userKey"
                 [] kind \in {"host", "names"} -> "m_licenseKey"
                 [] OTHER -> "m_steamCookieKey"
Keys == {"m_userKey", "m_licenseKey", "m_steamCookieKey"}

\* A reply ends after its error code, after the seed, after the ticket or
\* after the data for the lobby; one that is cut cannot be told from another.
\* fails: its ticket does not decrypt, whatever the key.
Replies == [code : {"none", "refused", "AUTH_NO_ERROR"}, parts : 0 .. 3,
            fails : BOOLEAN]
ErrorCodes == {"NO_ERROR", "AUTH_NO_ERROR", "START_TASK_FAILED",
               "CONNECTION_RESET", "refused", "INCORRECT", "UNKNOWN_ERROR"}

VARIABLES m_status, m_errorCode,
          m_connection,   \* NULL or the status of the connection
          m_keys,         \* the three keys the service keeps
          m_request,      \* the last request: its kind and its credential
          task,           \* history: the number of the last request
          m_authTicket,   \* the request whose valid ticket it holds, or 0
          m_authInfo,     \* the requests its session key and its data are of
          inbox,          \* replies the connection has not delivered
          brokeInCallback,\* history: the connection broke inside onConnect
          spoiled,        \* history: a reply was cut where it matters
          ended           \* history: how the last request ended

authVars == <<m_status, m_errorCode, m_connection, m_keys, m_request, task,
              m_authTicket, m_authInfo, inbox, brokeInCallback, spoiled, ended>>

AuthInit == /\ m_status = "READY" /\ m_errorCode = "NO_ERROR"
            /\ m_connection = "NULL"
            /\ m_keys = [k \in Keys |-> NoCredential]
            /\ m_request = [kind |-> "none", cred |-> NoCredential]
            /\ task = 0 /\ m_authTicket = 0
            /\ m_authInfo = [key |-> 0, data |-> 0]
            /\ inbox = {} /\ brokeInCallback = FALSE /\ spoiled = FALSE
            /\ ended = "none"

decoded == <<m_authTicket, m_authInfo, spoiled>>

-----------------------------------------------------------------------------
\* startTask: a new connection, and what connect makes of it before it returns.
\* onConnect finds m_status READY and sets PENDING_REPLY, but startTask sets
\* CONNECTING after it; a send that fails in onConnect closes the connection
\* with an onDisconnect that READY ignores.
StartTask ==
    /\ inbox' = {}
    /\ \/ /\ m_connection' = "CONNECTING" /\ m_status' = "CONNECTING"
          /\ brokeInCallback' = FALSE
          /\ UNCHANGED m_errorCode
       \/ /\ m_connection' = "CONNECTED" /\ m_status' = "CONNECTING"
          /\ brokeInCallback' = FALSE
          /\ UNCHANGED m_errorCode
       \/ /\ m_connection' = "DISCONNECTED" /\ m_status' = "CONNECTING"
          /\ brokeInCallback' = TRUE
          /\ UNCHANGED m_errorCode
       \/ /\ m_connection' = "DISCONNECTED" /\ UNCHANGED m_status
          /\ m_errorCode' = "START_TASK_FAILED"
          /\ brokeInCallback' = FALSE

\* Mutant: a request is started whatever the status is.
StartAlways == TRUE
MayStart == m_status = "READY"

\* authorizeAccount, authorizeDedicatedHost, getUsernamesForLicense, which
\* store the key before they look at the status; authorizeSteamTicket and
\* createAccount.
Authorize(kind, cred) ==
    /\ m_keys' = IF kind \in Storing THEN [m_keys EXCEPT ![KeyOf(kind)] = cred]
                                     ELSE m_keys
    /\ IF MayStart
       THEN /\ task < MaxTasks
            /\ task' = task + 1 /\ m_request' = [kind |-> kind, cred |-> cred]
            /\ ended' = "none"
            /\ StartTask
       ELSE UNCHANGED <<m_status, m_errorCode, m_connection, m_request, task,
                        inbox, brokeInCallback, ended>>
    /\ UNCHANGED decoded

\* The cookie a Steam ticket is to be encrypted under.
GetSteamRequestData(cred) ==
    /\ m_keys' = [m_keys EXCEPT !["m_steamCookieKey"] = cred]
    /\ UNCHANGED <<m_status, m_errorCode, m_connection, m_request, task, inbox,
                   brokeInCallback, ended, decoded>>

-----------------------------------------------------------------------------
(* What handleReply makes of a reply, as [code, ticket, info].             *)

Result(code, ticket, info) == [code |-> code, ticket |-> ticket, info |-> info]
Unchanged(code) == Result(code, m_authTicket, m_authInfo)

\* The ticket after deserialize: this request's, or nothing valid.
Ticket(r) == IF ~r.fails /\ m_keys[KeyOf(m_request.kind)] = m_request.cred
             THEN task ELSE 0

\* Mutant: the magic number is not compared.
AccountReplyUnchecked(r) ==
    IF r.parts < 2 THEN Unchanged("AUTH_NO_ERROR")
    ELSE Result("AUTH_NO_ERROR", Ticket(r),
                [key |-> Ticket(r),
                 data |-> IF r.parts = 3 THEN task ELSE m_authInfo.data])

\* Cases 11 and 13: a reply without a ticket leaves the switch like a good one.
AccountReply(r) ==
    IF r.parts < 2 THEN Unchanged("AUTH_NO_ERROR")
    ELSE IF Ticket(r) = 0 THEN Result("INCORRECT", 0, m_authInfo)
    ELSE Result("AUTH_NO_ERROR", task,
                [key |-> task,
                 data |-> IF r.parts = 3 THEN task ELSE m_authInfo.data])

\* Case 29: each read is compared with the outcome of the one before, so two
\* failures in a row count as success; the ticket used may be an older one.
SteamReply(r) ==
    LET read == (r.parts >= 1) = (r.parts >= 2)
        ticket == IF ~read THEN m_authTicket
                  ELSE IF r.parts >= 2 THEN Ticket(r) ELSE 0
        ok == read = (r.parts = 3)
        data == IF r.parts = 3 THEN task ELSE m_authInfo.data
    IN  Result(IF ok THEN "AUTH_NO_ERROR" ELSE "UNKNOWN_ERROR", ticket,
               [key |-> IF ok /\ ticket # 0 THEN ticket ELSE m_authInfo.key,
                data |-> data])

\* Case 21: the count and the names; their content is left out.
NamesReply(r) == Unchanged(IF r.parts = 3 THEN "AUTH_NO_ERROR"
                                          ELSE "UNKNOWN_ERROR")

\* Mutant: an error code that could not be read is returned as it is.
HandleReplyUnread(r) ==
    CASE r.code \in {"none", "refused"} -> Unchanged(r.code)
      [] r.code = "AUTH_NO_ERROR" /\ m_request.kind = "steam" -> SteamReply(r)
      [] OTHER -> AccountReply(r)

HandleReply(r) ==
    CASE r.code = "none" -> Unchanged("NO_ERROR")
      [] r.code = "refused" -> Unchanged("refused")
      [] r.code = "AUTH_NO_ERROR" /\ m_request.kind \in {"account", "host"} ->
            AccountReply(r)
      [] r.code = "AUTH_NO_ERROR" /\ m_request.kind = "steam" -> SteamReply(r)
      [] r.code = "AUTH_NO_ERROR" /\ m_request.kind = "names" -> NamesReply(r)
      [] OTHER -> Unchanged(r.code)

-----------------------------------------------------------------------------
(* The outcomes of a poll of the connection, within getStatus.             *)

\* onConnect: the request is sent.  A send that fails closes the connection,
\* and onDisconnect comes before onConnect sets PENDING_REPLY.
PollConnecting ==
    /\ m_connection = "CONNECTING"
    /\ \/ /\ m_connection' = "CONNECTED" /\ m_status' = "PENDING_REPLY"
          /\ UNCHANGED <<m_errorCode, brokeInCallback, ended>>
       \/ /\ m_connection' = "DISCONNECTED" /\ m_status' = "PENDING_REPLY"
          /\ m_errorCode' = "CONNECTION_RESET"
          /\ brokeInCallback' = TRUE
          /\ UNCHANGED ended
       \/ /\ m_connection' = "DISCONNECTED" /\ m_status' = "READY"
          /\ m_errorCode' = "CONNECTION_RESET" /\ ended' = "reset"
          /\ UNCHANGED brokeInCallback
    /\ UNCHANGED <<m_keys, m_request, task, inbox, decoded>>

\* Mutant: the service is told only while it waits for the reply.
ListensPending == m_status = "PENDING_REPLY"
Listens == m_status # "READY"

\* The connection is lost: closed by the server, by an error or by a timer.
PollLost ==
    /\ m_connection = "CONNECTED"
    /\ m_connection' = "DISCONNECTED"
    /\ IF Listens
       THEN m_status' = "READY" /\ m_errorCode' = "CONNECTION_RESET"
                                /\ ended' = "reset"
       ELSE UNCHANGED <<m_status, m_errorCode, ended>>
    /\ UNCHANGED <<m_keys, m_request, task, inbox, brokeInCallback, decoded>>

\* A reply cut between its ticket and its data; for Steam also one cut before
\* them, or whose ticket does not decrypt.
Spoils(r) == /\ r.code = "AUTH_NO_ERROR"
             /\ \/ r.parts = 2
                \/ m_request.kind = "steam" /\ (r.parts = 1 \/ Ticket(r) = 0)

\* A reply: it is decoded, and the connection is closed and forgotten; the
\* onDisconnect of that close finds m_status READY.
PollReply ==
    /\ m_connection = "CONNECTED"
    /\ \E r \in inbox :
          LET result == HandleReply(r)
          IN  /\ m_errorCode' = result.code
              /\ m_authTicket' = result.ticket /\ m_authInfo' = result.info
              /\ spoiled' = (spoiled \/ Spoils(r))
              /\ ended' = IF r.code = "AUTH_NO_ERROR" /\ r.parts < 3
                          THEN "cut" ELSE "reply"
    /\ m_status' = "READY" /\ m_connection' = "NULL" /\ inbox' = {}
    /\ UNCHANGED <<m_keys, m_request, task, brokeInCallback>>

\* The server answers the request it was sent, once.
ServerReplies(r) ==
    /\ m_connection = "CONNECTED" /\ inbox = {}
    /\ inbox' = {r}
    /\ UNCHANGED <<m_status, m_errorCode, m_connection, m_keys, m_request, task,
                   brokeInCallback, ended, decoded>>

AuthNext == \/ \E kind \in Kinds, cred \in Credentials : Authorize(kind, cred)
            \/ \E cred \in Credentials : GetSteamRequestData(cred)
            \/ PollConnecting \/ PollLost \/ PollReply
            \/ \E r \in Replies : ServerReplies(r)

AuthSpec == AuthInit /\ [][AuthNext]_authVars

\* The program polls getStatus, and a connection that is up brings the reply
\* or is given up: what LobbyConnection keeps (AllSentComesOut), and its timer
\* of 120 seconds where the server says nothing.
AuthFairSpec == /\ AuthSpec
                /\ WF_authVars(PollConnecting)
                /\ WF_authVars(PollLost \/ PollReply)
-----------------------------------------------------------------------------
AuthTypeOK ==
    /\ m_status \in {"READY", "CONNECTING", "PENDING_REPLY"}
    /\ m_errorCode \in ErrorCodes
    /\ m_connection \in {"NULL", "CONNECTING", "CONNECTED", "DISCONNECTED"}
    /\ m_keys \in [Keys -> Credentials \cup {NoCredential}]
    /\ m_request \in [kind : Kinds \cup {"none"},
                      cred : Credentials \cup {NoCredential}]
    /\ task \in 0 .. MaxTasks /\ m_authTicket \in 0 .. task
    /\ m_authInfo \in [key : 0 .. task, data : 0 .. task]
    /\ inbox \subseteq Replies
    /\ {brokeInCallback, spoiled} \subseteq BOOLEAN
    /\ ended \in {"none", "reply", "cut", "reset"}

\* A service that is busy has a connection that will tell it how that ends:
\* it is left waiting on a dead one only if a send inside onConnect broke it,
\* whose onDisconnect is overwritten (bdAuthService.cpp:152, :167).
BusyIsConnected ==
    m_status # "READY" /\ ~brokeInCallback
        => m_connection \in {"CONNECTING", "CONNECTED"}

\* What the lobby connection is given later, the session key and the data that
\* introduces it to the server, comes from the reply to one request, however
\* requests, wrong passwords, replaced keys and lost connections follow each
\* other, unless a reply was cut behind its ticket or a Steam reply failed.
AuthInfoOfOneReply == ~spoiled => m_authInfo.key = m_authInfo.data

\* Every request ends, but for the one whose sends broke the connection.
RequestsEnd == m_status # "READY" ~> m_status = "READY" \/ brokeInCallback

\* "Task completed sucessfully" (bdAuthService.cpp:552) is said of requests
\* that were answered: one for a ticket ends in AUTH_NO_ERROR with the session
\* key of its own reply.
SuccessMeansTicket ==
    m_errorCode = "AUTH_NO_ERROR" /\ ended \in {"reply", "cut"}
        /\ m_request.kind \in Ticketed => m_authInfo.key = task
=============================================================================
