------------------------- MODULE RemoteTaskManager -------------------------
(***************************************************************************)
(* bdRemoteTaskManager (src/src/bdLobby/bdRemoteTaskManager/) and the part *)
(* of bdLobbyService that owns it.  A request carries no identifier: the   *)
(* client keeps the tasks it has sent in the list m_tasks and gives each   *)
(* reply to the head of that list.  An asynchronous task is answered twice,*)
(* by a reply that says "asynchronous" and by a push message that carries  *)
(* a transaction identifier; the two may come in either order.             *)
(*                                                                         *)
(* The server is not part of the source: it answers the requests of a      *)
(* connection in the order it gets them, a request's transaction           *)
(* identifier is written here as the task itself, and replies and push     *)
(* messages are kept apart because their relative order is the server's to *)
(* choose.                                                                 *)
(***************************************************************************)
EXTENDS Naturals, Sequences

CONSTANTS
  Tasks,         \* the task objects the program may start, each once
  RawTasks,      \* those started with startLSGTask, answered by message type 5
  Nobody,        \* no task, or no result
  MaxConnects    \* bound: connections opened

\* A bad answer is one with an error code or one that cannot be read; the
\* handler of message type 5 reads no code, so only the second kind is bad.
Kinds == {"ok", "async", "bad"}

ASSUME TasksAssumption ==
  /\ RawTasks \subseteq Tasks
  /\ Nobody \notin Tasks
  /\ Nobody \notin Kinds
  /\ MaxConnects \in Nat

VARIABLES
  link,            \* m_lobbyConnection: none, open, or closed by an error
  connects,        \* connections opened so far
  m_tasks,         \* the tasks that wait for their reply, oldest first
  m_asyncTasks,    \* transaction identifier -> the task that waits for its result
  m_asyncResults,  \* transaction identifier -> a result that came too early
  status,          \* bdRemoteTask::m_status
  answer,          \* the transaction whose answer a task holds
  pump,            \* bdLobbyService::pump: idle, running, or never to return
  requests,        \* requests on their way to the server or waiting there
  replies,         \* replies on their way back
  results,         \* push messages on their way back
  work             \* the server's side of a task: none, owed, pushed

manager == <<m_tasks, m_asyncTasks, m_asyncResults>>
wires == <<requests, replies, results, work>>
rtmVars == <<link, connects, manager, status, answer, pump, wires>>

Empty == [id \in Tasks |-> Nobody]

RTMInit ==
  /\ link = "none" /\ connects = 0
  /\ m_tasks = <<>> /\ m_asyncTasks = Empty /\ m_asyncResults = Empty
  /\ status = [t \in Tasks |-> "NEW"] /\ answer = Empty
  /\ pump = "idle"
  /\ requests = <<>> /\ replies = <<>> /\ results = {}
  /\ work = [t \in Tasks |-> "none"]

\* mutant: the task list outlives the connection
KeepTasks ==
  UNCHANGED m_tasks /\ m_asyncTasks' = Empty /\ m_asyncResults' = Empty

NewManager ==
  m_tasks' = <<>> /\ m_asyncTasks' = Empty /\ m_asyncResults' = Empty

\* what the server still owes a lost connection is never sent
CutWires ==
  /\ requests' = <<>> /\ replies' = <<>> /\ results' = {}
  /\ work' = [t \in Tasks |-> IF work[t] = "owed" THEN "pushed" ELSE work[t]]

-----------------------------------------------------------------------------
(* The connection.                                                         *)

\* bdLobbyService::onConnect: a connection object and a task manager of its own
Connect ==
  /\ pump = "idle" /\ link = "none" /\ connects < MaxConnects
  /\ link' = "open" /\ connects' = connects + 1
  /\ NewManager /\ CutWires
  /\ UNCHANGED <<status, answer, pump>>

\* bdLobbyConnection::close on an error or a silence; the manager stays
LinkCloses ==
  /\ pump # "hung" /\ link = "open" /\ link' = "closed"
  /\ CutWires
  /\ UNCHANGED <<connects, manager, status, answer, pump>>

\* bdLobbyService::disconnect: cleanup() destroys the manager
Disconnect ==
  /\ pump = "idle" /\ link # "none" /\ link' = "none"
  /\ NewManager /\ CutWires
  /\ UNCHANGED <<connects, status, answer, pump>>

-----------------------------------------------------------------------------
(* Calls of the program, or of a handler it has given the pump.            *)

\* sendTask took the message: the task joins the list
TaskSent(t) ==
  /\ link = "open"
  /\ requests' = Append(requests, t) /\ m_tasks' = Append(m_tasks, t)
  /\ status' = [status EXCEPT ![t] = "PENDING"]
  /\ UNCHANGED <<m_asyncTasks, m_asyncResults, replies, results, work>>

\* sendTask refused it: closed connection or message too large
TaskRefused(t) ==
  /\ status' = [status EXCEPT ![t] = IF t \in RawTasks THEN "NULL" ELSE "FAILED"]
  /\ UNCHANGED <<manager, wires>>

StartTask(t) ==
  /\ pump # "hung" /\ link # "none" /\ status[t] = "NEW"
  /\ TaskSent(t) \/ TaskRefused(t)
  /\ UNCHANGED <<link, connects, answer, pump>>

Started(t) == status[t] \notin {"NEW", "NULL"}

CancelTask(t) ==
  /\ pump # "hung" /\ Started(t)
  /\ status' = [status EXCEPT ![t] = "CANCELLED"]
  /\ UNCHANGED <<link, connects, manager, answer, pump, wires>>

\* getStatus finds the task's timeout elapsed, in the program or in a handler
TimeOut(t) ==
  /\ pump # "hung" /\ status[t] = "PENDING"
  /\ status' = [status EXCEPT ![t] = "TIMED_OUT"]
  /\ UNCHANGED <<link, connects, manager, answer, pump, wires>>

-----------------------------------------------------------------------------
(* The server.                                                             *)

Waiting(t) == \E i \in DOMAIN requests : requests[i] = t

ServerMayReply(t, kind) ==
  IF t \in RawTasks THEN kind \in {"ok", "bad"}
  ELSE work[t] = "pushed" => kind = "async"

ServerAnswers ==
  /\ requests # <<>>
  /\ \E kind \in Kinds :
       /\ ServerMayReply(Head(requests), kind)
       /\ replies' = Append(replies, [of |-> Head(requests), kind |-> kind])
       /\ work' = IF kind = "async" /\ work[Head(requests)] = "none"
                  THEN [work EXCEPT ![Head(requests)] = "owed"] ELSE work
  /\ requests' = Tail(requests)
  /\ UNCHANGED <<link, connects, manager, status, answer, pump, results>>

ServerPushes(t) ==
  /\ link = "open" /\ t \notin RawTasks
  /\ work[t] = "owed" \/ (work[t] = "none" /\ Waiting(t))
  /\ work' = [work EXCEPT ![t] = "pushed"]
  /\ \E kind \in {"ok", "bad"} : results' = results \union {[of |-> t, kind |-> kind]}
  /\ UNCHANGED <<link, connects, manager, status, answer, pump, requests, replies>>

-----------------------------------------------------------------------------
(* bdLobbyService::pump: messages are handled one by one, then the         *)
(* asynchronous state is cleaned up.                                       *)

\* mutant: the error code stored where the status belongs
OutcomeIsCode(kind) == IF kind = "ok" THEN "DONE" ELSE kind

\* mutant: a bad reply ignored, as handleTaskReply does
IgnoreBad(kind) == IF kind = "ok" THEN "DONE" ELSE "PENDING"

Outcome(kind) == IF kind = "ok" THEN "DONE" ELSE "FAILED"

\* each read of a reply is compared with the one before: when two fail, the
\* task is done
Outcomes(kind) == {Outcome(kind), "DONE"}

\* mutant: an answer is taken whatever the status
AlwaysPending(t) == status[t] # "NEW"

Pending(t) == status[t] = "PENDING"

Gives(t, id, s) ==
  status' = [status EXCEPT ![t] = s] /\ answer' = [answer EXCEPT ![t] = id]

\* handleTaskReply: an unreadable reply takes the task off the list as it is
RawReply(t, r) ==
  /\ IF Pending(t) /\ r.kind # "bad" THEN Gives(t, r.of, "DONE")
     ELSE UNCHANGED <<status, answer>>
  /\ UNCHANGED <<m_asyncTasks, m_asyncResults>>

\* mutant: m_asyncResults is not looked at
WaitAnyway(t, id) ==
  /\ m_asyncTasks' = [m_asyncTasks EXCEPT ![id] = t]
  /\ UNCHANGED <<status, answer, m_asyncResults>>

\* the second half of handleLSGTaskReply: the task is still pending
AsyncReply(t, id) ==
  IF m_asyncResults[id] # Nobody
  THEN /\ Gives(t, id, Outcome(m_asyncResults[id]))
       /\ m_asyncResults' = [m_asyncResults EXCEPT ![id] = Nobody]
       /\ UNCHANGED m_asyncTasks
  ELSE \/ /\ m_asyncTasks' = [m_asyncTasks EXCEPT ![id] = t]
          /\ UNCHANGED <<status, answer, m_asyncResults>>
       \/ /\ Gives(t, id, "TIMED_OUT")    \* the second getStatus
          /\ UNCHANGED <<m_asyncTasks, m_asyncResults>>

LSGReply(t, r) ==
  IF Pending(t) /\ r.kind = "async" THEN AsyncReply(t, r.of)
  ELSE /\ IF Pending(t) THEN \E s \in Outcomes(r.kind) : Gives(t, r.of, s)
          ELSE UNCHANGED <<status, answer>>
       /\ UNCHANGED <<m_asyncTasks, m_asyncResults>>

\* mutant: only a pending task leaves the list
RemovePending(t) == m_tasks' = IF Pending(t) THEN Tail(m_tasks) ELSE m_tasks

\* both handlers end so, whatever the state of the task
RemoveHead(t) == m_tasks' = Tail(m_tasks)

HandleReply ==
  /\ pump # "hung" /\ link = "open" /\ replies # <<>>
  /\ m_tasks # <<>>
  /\ IF Head(replies).of \in RawTasks THEN RawReply(Head(m_tasks), Head(replies))
     ELSE LSGReply(Head(m_tasks), Head(replies))
  /\ RemoveHead(Head(m_tasks)) /\ replies' = Tail(replies)
  /\ pump' = "running"
  /\ UNCHANGED <<link, connects, requests, results, work>>

HandleResult(id, kind) ==
  IF m_asyncTasks[id] # Nobody
  THEN /\ IF Pending(m_asyncTasks[id])
          THEN /\ Gives(m_asyncTasks[id], id, Outcome(kind))
               /\ m_asyncTasks' = [m_asyncTasks EXCEPT ![id] = Nobody]
          ELSE UNCHANGED <<m_asyncTasks, status, answer>>
       /\ UNCHANGED m_asyncResults
  ELSE /\ m_asyncResults' = IF m_tasks # <<>> /\ m_asyncResults[id] = Nobody
                            THEN [m_asyncResults EXCEPT ![id] = kind]
                            ELSE m_asyncResults
       /\ UNCHANGED <<m_asyncTasks, status, answer>>

HandleAsyncResult ==
  /\ pump # "hung" /\ link = "open"
  /\ \E r \in results : /\ results' = results \ {r}
                        /\ HandleResult(r.of, r.kind)
  /\ pump' = "running"
  /\ UNCHANGED <<link, connects, m_tasks, requests, replies, work>>

\* cleanUpAsyncState walks m_asyncTasks with bdHashMap::next, which never
\* moves the iterator it is given: the walk ends only over an empty map.
\* The branch that discards results asks for tasks in that same map.
WalkEnds == m_asyncTasks = Empty

EndPump ==
  /\ pump # "hung" /\ link # "none"
  /\ pump' = IF WalkEnds THEN "idle" ELSE "hung"
  /\ UNCHANGED <<link, connects, manager, status, answer, wires>>

RTMNext ==
  \/ Connect \/ LinkCloses \/ Disconnect
  \/ \E t \in Tasks : StartTask(t) \/ CancelTask(t) \/ TimeOut(t) \/ ServerPushes(t)
  \/ ServerAnswers \/ HandleReply \/ HandleAsyncResult \/ EndPump

RTMSpec == RTMInit /\ [][RTMNext]_rtmVars

\* The program pumps to the end, the connection delivers and the server answers.
RTMFairSpec ==
  RTMSpec /\ WF_rtmVars(ServerAnswers) /\ WF_rtmVars(HandleReply) /\ WF_rtmVars(EndPump)

-----------------------------------------------------------------------------
(* Properties.                                                             *)

Statuses == {"NEW", "NULL", "PENDING", "DONE", "FAILED", "TIMED_OUT", "CANCELLED"}
Message == [of : Tasks, kind : Kinds]

\* Every variable has its type.
RTMTypeOK ==
  /\ link \in {"none", "open", "closed"} /\ connects \in 0 .. MaxConnects
  /\ m_tasks \in Seq(Tasks)
  /\ m_asyncTasks \in [Tasks -> Tasks \union {Nobody}]
  /\ m_asyncResults \in [Tasks -> Kinds \union {Nobody}]
  /\ status \in [Tasks -> Statuses]
  /\ answer \in [Tasks -> Tasks \union {Nobody}]
  /\ pump \in {"idle", "running", "hung"}
  /\ requests \in Seq(Tasks) /\ replies \in Seq(Message)
  /\ results \subseteq Message
  /\ work \in [Tasks -> {"none", "owed", "pushed"}]

\* While the connection is open, the list of tasks is the replies on their
\* way followed by the unanswered requests: whatever is cancelled, timed
\* out, lost or unreadable, the reply that comes next is for the head of
\* the list (handleTaskReply reads that head without asking whether the
\* list is empty).
RepliesAligned ==
  link = "open" =>
    /\ Len(m_tasks) = Len(replies) + Len(requests)
    /\ \A i \in 1 .. Len(replies) : m_tasks[i] = replies[i].of
    /\ \A i \in 1 .. Len(requests) : m_tasks[Len(replies) + i] = requests[i]

\* No task ever holds the answer to another one's request, over
\* reconnections and with results that come before the reply.
OwnAnswer == \A t \in Tasks : answer[t] \in {t, Nobody}

\* A result that came early is not left behind by the task it is for:
\* handleLSGTaskReply looks for it before the task starts to wait.
NoResultMissed ==
  \A id \in Tasks : m_asyncTasks[id] # Nobody => m_asyncResults[id] = Nobody

\* A late answer changes nothing: a task that was cancelled, timed out,
\* failed or done stays so, except that the program may cancel it.
FinalStays ==
  [][\A t \in Tasks : status[t] \notin {"NEW", "PENDING"} =>
       status'[t] \in {status[t], "CANCELLED"} /\ answer'[t] = answer[t]]_rtmVars

Listed(t) == \E i \in DOMAIN m_tasks : m_tasks[i] = t

\* A task sent with startTask does not stay pending: its reply settles it,
\* or the connection goes, or the pump hangs over it.
TasksAnswered ==
  \A t \in Tasks \ RawTasks :
    Pending(t) /\ Listed(t) ~> ~Pending(t) \/ link # "open" \/ pump = "hung"

\* cleanUpAsyncState passes over a pending task and removes one that is no
\* longer pending, and then the pump returns
\* (bdRemoteTaskManager.cpp:183).
PumpReturns == pump # "hung"

=============================================================================
