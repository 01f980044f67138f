---------------------------- MODULE TaskProofs -----------------------------
(***************************************************************************)
(* Proofs about the task manager, for every set of tasks and any number of *)
(* connections.  OwnAnswer is not inductive: that a reply is given to the  *)
(* task it is for needs RepliesAligned, and that a result is needs         *)
(* AsyncIsOwn, which in turn needs RepliesAligned.                         *)
(***************************************************************************)
EXTENDS RemoteTaskManager, TLAPS

\* A task waits under its own transaction identifier.
AsyncIsOwn == \A id \in Tasks : m_asyncTasks[id] \in {id, Nobody}

TaskInv == RTMTypeOK /\ RepliesAligned /\ AsyncIsOwn /\ OwnAnswer /\ NoResultMissed

\* The invariant holds of a manager without tasks.
LEMMA InitHolds == RTMInit => TaskInv
BY TasksAssumption DEF RTMInit, TaskInv, RTMTypeOK, RepliesAligned, AsyncIsOwn,
   OwnAnswer, NoResultMissed, Empty, Statuses, Message

\* Opening, losing and leaving a connection empties both sides of it.
LEMMA ConnectionKeeps ==
  ASSUME TaskInv, Connect \/ LinkCloses \/ Disconnect
  PROVE  TaskInv'
<1> USE TasksAssumption DEF TaskInv, Empty, NewManager, CutWires, manager
<1>1. work' \in [Tasks -> {"none", "owed", "pushed"}]
  BY DEF RTMTypeOK, Connect, LinkCloses, Disconnect
<1>2. CASE Connect
  <2>1. RTMTypeOK'
    BY <1>1, <1>2 DEF RTMTypeOK, Connect
  <2> QED BY <2>1, <1>2 DEF Connect, RepliesAligned, AsyncIsOwn, OwnAnswer, NoResultMissed
<1>3. CASE LinkCloses
  <2>1. RTMTypeOK'
    BY <1>1, <1>3 DEF RTMTypeOK, LinkCloses
  <2> QED BY <2>1, <1>3 DEF LinkCloses, RepliesAligned, AsyncIsOwn, OwnAnswer, NoResultMissed
<1>4. CASE Disconnect
  <2>1. RTMTypeOK'
    BY <1>1, <1>4 DEF RTMTypeOK, Disconnect
  <2> QED BY <2>1, <1>4 DEF Disconnect, RepliesAligned, AsyncIsOwn, OwnAnswer, NoResultMissed
<1> QED BY <1>2, <1>3, <1>4

\* A call of the program, or a timer, keeps the list and the wires in step.
LEMMA CallKeeps ==
  ASSUME TaskInv, NEW t \in Tasks, StartTask(t) \/ CancelTask(t) \/ TimeOut(t)
  PROVE  TaskInv'
<1> USE DEF TaskInv, manager, wires
<1>1. CASE StartTask(t)
  <2>1. RTMTypeOK'
    <3>1. CASE TaskSent(t)
      BY <1>1, <3>1 DEF StartTask, TaskSent, RTMTypeOK, Statuses
    <3>2. CASE TaskRefused(t)
      BY <1>1, <3>2 DEF StartTask, TaskRefused, RTMTypeOK, Statuses
    <3> QED BY <1>1, <3>1, <3>2 DEF StartTask
  <2>2. RepliesAligned'
    <3>1. CASE TaskSent(t)
      <4>1. /\ Len(m_tasks') = Len(m_tasks) + 1 /\ Len(requests') = Len(requests) + 1
            /\ \A i \in 1 .. Len(m_tasks) : m_tasks'[i] = m_tasks[i]
            /\ \A i \in 1 .. Len(requests) : requests'[i] = requests[i]
            /\ m_tasks'[Len(m_tasks) + 1] = t /\ requests'[Len(requests) + 1] = t
            /\ replies' = replies /\ link = "open" /\ link' = link
        BY <1>1, <3>1 DEF StartTask, TaskSent, RTMTypeOK
      <4>2. Len(replies) \in Nat /\ Len(requests) \in Nat
        BY DEF RTMTypeOK
      <4>3. /\ Len(m_tasks) = Len(replies) + Len(requests)
            /\ \A i \in 1 .. Len(replies) : m_tasks[i] = replies[i].of
            /\ \A i \in 1 .. Len(requests) : m_tasks[Len(replies) + i] = requests[i]
        BY <4>1 DEF RepliesAligned
      <4>4. \A i \in 1 .. Len(replies) : m_tasks'[i] = replies[i].of
        <5>1. \A i \in 1 .. Len(replies) : i \in 1 .. Len(m_tasks)
          BY <4>2, <4>3
        <5> QED BY <4>1, <4>3, <5>1
      <4>5. \A i \in 1 .. Len(requests) : m_tasks'[Len(replies) + i] = requests'[i]
        <5>1. \A i \in 1 .. Len(requests) : Len(replies) + i \in 1 .. Len(m_tasks)
          BY <4>2, <4>3
        <5> QED BY <4>1, <4>3, <5>1
      <4>6. m_tasks'[Len(replies) + Len(requests')] = requests'[Len(requests')]
        <5>1. Len(replies) + Len(requests') = Len(m_tasks) + 1
          BY <4>1, <4>2, <4>3
        <5> QED BY <4>1, <5>1
      <4>7. \A i \in 1 .. Len(requests') : m_tasks'[Len(replies) + i] = requests'[i]
        <5>1. \A i \in 1 .. Len(requests') : i \in 1 .. Len(requests) \/ i = Len(requests')
          BY <4>1, <4>2
        <5> QED BY <4>5, <4>6, <5>1
      <4> QED BY <4>1, <4>2, <4>3, <4>4, <4>7 DEF RepliesAligned
    <3>2. CASE TaskRefused(t)
      BY <1>1, <3>2 DEF StartTask, TaskRefused, RepliesAligned
    <3> QED BY <1>1, <3>1, <3>2 DEF StartTask
  <2> QED BY <1>1, <2>1, <2>2
        DEF StartTask, TaskSent, TaskRefused, AsyncIsOwn, OwnAnswer, NoResultMissed
<1>2. CASE CancelTask(t)
  BY <1>2 DEF CancelTask, RTMTypeOK, Statuses, RepliesAligned, AsyncIsOwn, OwnAnswer,
     NoResultMissed
<1>3. CASE TimeOut(t)
  BY <1>3 DEF TimeOut, RTMTypeOK, Statuses, RepliesAligned, AsyncIsOwn, OwnAnswer,
     NoResultMissed
<1> QED BY <1>1, <1>2, <1>3

\* The server moves a request to the end of the replies.
LEMMA ServerKeeps ==
  ASSUME TaskInv, ServerAnswers \/ \E t \in Tasks : ServerPushes(t)
  PROVE  TaskInv'
<1> USE DEF TaskInv, manager
<1>1. CASE ServerAnswers
  <2> USE <1>1 DEF ServerAnswers
  <2>1. PICK kind \in Kinds :
          /\ replies' = Append(replies, [of |-> Head(requests), kind |-> kind])
          /\ work' = IF kind = "async" /\ work[Head(requests)] = "none"
                     THEN [work EXCEPT ![Head(requests)] = "owed"] ELSE work
    OBVIOUS
  <2>2. Head(requests) \in Tasks /\ Head(requests) = requests[1]
    BY DEF RTMTypeOK
  <2>3. RTMTypeOK'
    BY <2>1, <2>2 DEF RTMTypeOK, Message
  <2>4. RepliesAligned'
    <3> SUFFICES ASSUME link = "open" PROVE RepliesAligned'
      BY DEF RepliesAligned
    <3>1. /\ Len(replies') = Len(replies) + 1 /\ Len(requests') = Len(requests) - 1
          /\ \A i \in 1 .. Len(requests') : requests'[i] = requests[i + 1]
          /\ replies'[Len(replies) + 1].of = requests[1]
          /\ \A i \in 1 .. Len(replies) : replies'[i] = replies[i]
      BY <2>1, <2>2 DEF RTMTypeOK, Message
    <3>2. Len(replies) \in Nat /\ Len(requests) \in Nat /\ Len(requests) >= 1
      BY DEF RTMTypeOK
    <3>3. \A i \in 1 .. Len(requests) : m_tasks[Len(replies) + i] = requests[i]
      BY DEF RepliesAligned
    <3>4. m_tasks[Len(replies) + 1] = requests[1]
      BY <3>2, <3>3
    <3>5. \A i \in 1 .. Len(requests') : m_tasks[Len(replies') + i] = requests'[i]
      <4> SUFFICES ASSUME NEW i \in 1 .. Len(requests')
                   PROVE  m_tasks[Len(replies') + i] = requests'[i]
        OBVIOUS
      <4>1. i + 1 \in 1 .. Len(requests)
        BY <3>1, <3>2
      <4>2. Len(replies) + (i + 1) = Len(replies') + i
        BY <3>1, <3>2
      <4> QED BY <3>1, <3>3, <4>1, <4>2
    <3> QED BY <3>1, <3>2, <3>4, <3>5 DEF RepliesAligned
  <2> QED BY <2>3, <2>4 DEF AsyncIsOwn, OwnAnswer, NoResultMissed
<1>2. CASE \E t \in Tasks : ServerPushes(t)
  BY <1>2 DEF ServerPushes, RTMTypeOK, Message, Kinds, RepliesAligned, AsyncIsOwn,
     OwnAnswer, NoResultMissed
<1> QED BY <1>1, <1>2

\* A task is settled by its own answer, or left alone.
LEMMA SettledByOwn ==
  ASSUME TaskInv, NEW t \in Tasks, NEW s \in Statuses,
         Gives(t, t, s) \/ UNCHANGED <<status, answer>>
  PROVE  /\ status' \in [Tasks -> Statuses]
         /\ answer' \in [Tasks -> Tasks \union {Nobody}]
         /\ OwnAnswer'
BY DEF TaskInv, RTMTypeOK, OwnAnswer, Gives

\* What one reply does to the task it is given to, when that task is its own.
LEMMA ReplyKeepsTask ==
  ASSUME TaskInv, NEW t \in Tasks, NEW r \in Message, r.of = t,
         RawReply(t, r) \/ LSGReply(t, r)
  PROVE  /\ status' \in [Tasks -> Statuses]
         /\ answer' \in [Tasks -> Tasks \union {Nobody}]
         /\ m_asyncTasks' \in [Tasks -> Tasks \union {Nobody}]
         /\ m_asyncResults' \in [Tasks -> Kinds \union {Nobody}]
         /\ AsyncIsOwn' /\ OwnAnswer' /\ NoResultMissed'
<1>1. CASE UNCHANGED <<m_asyncTasks, m_asyncResults>>
  <2>1. (\E s \in Statuses : Gives(t, t, s)) \/ UNCHANGED <<status, answer>>
    <3>1. "DONE" \in Statuses /\ "TIMED_OUT" \in Statuses
      BY DEF Statuses
    <3>2. \A kind : Outcome(kind) \in Statuses /\ Outcomes(kind) \subseteq Statuses
      BY DEF Outcome, Outcomes, Statuses
    <3>3. CASE RawReply(t, r)
      BY <3>1, <3>3 DEF RawReply
    <3>4. CASE LSGReply(t, r) /\ ~(Pending(t) /\ r.kind = "async")
      <4>1. (\E s \in Outcomes(r.kind) : Gives(t, t, s)) \/ UNCHANGED <<status, answer>>
        BY <3>4 DEF LSGReply
      <4>2. Outcomes(r.kind) \subseteq Statuses
        BY <3>2
      <4> QED BY Zenon, <4>1, <4>2
    <3>5. CASE LSGReply(t, r) /\ Pending(t) /\ r.kind = "async"
      <4>1. AsyncReply(t, t)
        BY <3>5 DEF LSGReply
      <4>2. Outcome(m_asyncResults[t]) \in Statuses
        BY <3>2
      <4> QED BY <3>1, <4>1, <4>2 DEF AsyncReply
    <3> QED BY <3>3, <3>4, <3>5
  <2>2. /\ status' \in [Tasks -> Statuses] /\ OwnAnswer'
        /\ answer' \in [Tasks -> Tasks \union {Nobody}]
    <3>1. CASE UNCHANGED <<status, answer>>
      BY <3>1 DEF TaskInv, RTMTypeOK, OwnAnswer
    <3>2. CASE \E s \in Statuses : Gives(t, t, s)
      BY <3>2, SettledByOwn
    <3> QED BY <2>1, <3>1, <3>2
  <2> QED BY <1>1, <2>2 DEF TaskInv, RTMTypeOK, AsyncIsOwn, NoResultMissed
<1>2. CASE ~UNCHANGED <<m_asyncTasks, m_asyncResults>>
  <2>1. AsyncReply(t, t)
    BY <1>2 DEF RawReply, LSGReply
  <2>2. CASE m_asyncResults[t] # Nobody
    <3>1. /\ m_asyncResults' = [m_asyncResults EXCEPT ![t] = Nobody]
          /\ UNCHANGED m_asyncTasks
          /\ Gives(t, t, Outcome(m_asyncResults[t]))
      BY <2>1, <2>2 DEF AsyncReply
    <3>2. Outcome(m_asyncResults[t]) \in Statuses
      BY DEF Outcome, Statuses
    <3>3. /\ status' \in [Tasks -> Statuses] /\ OwnAnswer'
          /\ answer' \in [Tasks -> Tasks \union {Nobody}]
      BY <3>1, <3>2, SettledByOwn
    <3> QED BY <3>1, <3>3 DEF TaskInv, RTMTypeOK, AsyncIsOwn, NoResultMissed
  <2>3. CASE m_asyncResults[t] = Nobody
    <3>1. /\ m_asyncTasks' = [m_asyncTasks EXCEPT ![t] = t]
          /\ UNCHANGED <<status, answer, m_asyncResults>>
      BY <1>2, <2>1, <2>3 DEF AsyncReply
    <3>2. /\ status' \in [Tasks -> Statuses] /\ OwnAnswer'
          /\ answer' \in [Tasks -> Tasks \union {Nobody}]
      BY <3>1 DEF TaskInv, RTMTypeOK, OwnAnswer
    <3> QED BY <2>3, <3>1, <3>2 DEF TaskInv, RTMTypeOK, AsyncIsOwn, NoResultMissed
  <2> QED BY <2>2, <2>3
<1> QED BY <1>1, <1>2

\* The reply that comes next is for the head of the list.
LEMMA ReplyKeeps ==
  ASSUME TaskInv, HandleReply
  PROVE  TaskInv'
<1> DEFINE t == Head(m_tasks)
           r == Head(replies)
<1>1. t \in Tasks /\ r \in Message /\ r.of = t
  <2>1. t = m_tasks[1] /\ r = replies[1] /\ 1 \in 1 .. Len(replies)
    BY DEF TaskInv, RTMTypeOK, HandleReply
  <2> QED BY <2>1 DEF TaskInv, RTMTypeOK, RepliesAligned, HandleReply
<1>2. RawReply(t, r) \/ LSGReply(t, r)
  BY DEF HandleReply
<1>3. /\ status' \in [Tasks -> Statuses]
      /\ answer' \in [Tasks -> Tasks \union {Nobody}]
      /\ m_asyncTasks' \in [Tasks -> Tasks \union {Nobody}]
      /\ m_asyncResults' \in [Tasks -> Kinds \union {Nobody}]
      /\ AsyncIsOwn' /\ OwnAnswer' /\ NoResultMissed'
  BY <1>1, <1>2, ReplyKeepsTask
<1>4. RTMTypeOK'
  BY <1>3 DEF TaskInv, RTMTypeOK, HandleReply, RemoveHead
<1>5. RepliesAligned'
  <2>1. /\ Len(m_tasks') = Len(m_tasks) - 1 /\ Len(replies') = Len(replies) - 1
        /\ \A i \in 1 .. Len(m_tasks') : m_tasks'[i] = m_tasks[i + 1]
        /\ \A i \in 1 .. Len(replies') : replies'[i] = replies[i + 1]
    BY DEF TaskInv, RTMTypeOK, HandleReply, RemoveHead
  <2>2. Len(replies) \in Nat /\ Len(requests) \in Nat /\ Len(replies) >= 1
    BY DEF TaskInv, RTMTypeOK, HandleReply
  <2>3. /\ Len(m_tasks) = Len(replies) + Len(requests)
        /\ \A i \in 1 .. Len(replies) : m_tasks[i] = replies[i].of
        /\ \A i \in 1 .. Len(requests) : m_tasks[Len(replies) + i] = requests[i]
    BY DEF TaskInv, RepliesAligned, HandleReply
  <2>4. requests' = requests
    BY DEF HandleReply
  <2>5. \A i \in 1 .. Len(replies') : m_tasks'[i] = replies'[i].of
    BY <2>1, <2>2, <2>3
  <2>6. \A i \in 1 .. Len(requests') : m_tasks'[Len(replies') + i] = requests'[i]
    <3> SUFFICES ASSUME NEW i \in 1 .. Len(requests)
                 PROVE  m_tasks'[Len(replies') + i] = requests[i]
      BY <2>4
    <3>1. Len(replies') + i \in 1 .. Len(m_tasks')
      BY <2>1, <2>2, <2>3
    <3>2. (Len(replies') + i) + 1 = Len(replies) + i
      BY <2>1, <2>2
    <3> QED BY <2>1, <2>3, <3>1, <3>2
  <2> QED BY <2>1, <2>2, <2>3, <2>4, <2>5, <2>6 DEF RepliesAligned
<1> QED BY <1>3, <1>4, <1>5 DEF TaskInv

\* A push message reaches the task that waits for it, or is kept for it.
LEMMA ResultKeeps ==
  ASSUME TaskInv, HandleAsyncResult
  PROVE  TaskInv'
<1>1. PICK r \in results : results' = results \ {r} /\ HandleResult(r.of, r.kind)
  BY DEF HandleAsyncResult
<1>2. r.of \in Tasks /\ r.kind \in Kinds
  BY DEF TaskInv, RTMTypeOK, Message
<1> USE TasksAssumption, <1>1, <1>2 DEF TaskInv, HandleAsyncResult
<1>3. CASE m_asyncTasks[r.of] # Nobody
  <2>1. m_asyncTasks[r.of] = r.of
    BY <1>3 DEF AsyncIsOwn
  <2> USE <1>3, <2>1 DEF HandleResult, Gives, Outcome
  <2>2. RTMTypeOK'
    BY DEF RTMTypeOK, Statuses
  <2>3. RepliesAligned'
    BY DEF RepliesAligned
  <2> QED BY <2>2, <2>3 DEF RTMTypeOK, AsyncIsOwn, OwnAnswer, NoResultMissed
<1>4. CASE m_asyncTasks[r.of] = Nobody
  <2> USE <1>4 DEF HandleResult
  <2>1. RTMTypeOK'
    BY DEF RTMTypeOK
  <2>2. RepliesAligned'
    BY DEF RepliesAligned
  <2> QED BY <2>1, <2>2 DEF RTMTypeOK, AsyncIsOwn, OwnAnswer, NoResultMissed
<1> QED BY <1>3, <1>4

\* Every step keeps the invariant.
LEMMA StepHolds == TaskInv /\ [RTMNext]_rtmVars => TaskInv'
<1> SUFFICES ASSUME TaskInv, [RTMNext]_rtmVars PROVE TaskInv'
  OBVIOUS
<1>1. CASE Connect \/ LinkCloses \/ Disconnect
  BY <1>1, ConnectionKeeps
<1>2. CASE \E t \in Tasks : StartTask(t) \/ CancelTask(t) \/ TimeOut(t)
  BY <1>2, CallKeeps
<1>3. CASE ServerAnswers \/ \E t \in Tasks : ServerPushes(t)
  BY <1>3, ServerKeeps
<1>4. CASE HandleReply
  BY <1>4, ReplyKeeps
<1>5. CASE HandleAsyncResult
  BY <1>5, ResultKeeps
<1>6. CASE EndPump
  BY <1>6 DEF TaskInv, EndPump, manager, wires, RTMTypeOK, RepliesAligned, AsyncIsOwn,
     OwnAnswer, NoResultMissed
<1>7. CASE UNCHANGED rtmVars
  BY <1>7 DEF TaskInv, rtmVars, manager, wires, RTMTypeOK, RepliesAligned, AsyncIsOwn,
     OwnAnswer, NoResultMissed
<1> QED BY <1>1, <1>2, <1>3, <1>4, <1>5, <1>6, <1>7 DEF RTMNext

\* The inductive invariant of the manager, on which the theorems below rest.
THEOREM TaskInvHolds == RTMSpec => []TaskInv
BY InitHolds, StepHolds, PTL DEF RTMSpec

\* In every run of the task manager every variable has its type.
THEOREM TaskTypesHold == RTMSpec => []RTMTypeOK
<1>1. TaskInv => RTMTypeOK
  BY DEF TaskInv
<1> QED BY <1>1, TaskInvHolds, PTL

\* The next reply is always for the head of the list of tasks, which is
\* never empty when one comes.
THEOREM AlignmentHolds == RTMSpec => []RepliesAligned
<1>1. TaskInv => RepliesAligned
  BY DEF TaskInv
<1> QED BY <1>1, TaskInvHolds, PTL

\* No task ever holds the answer to the request of another.
THEOREM OwnAnswerHolds == RTMSpec => []OwnAnswer
<1>1. TaskInv => OwnAnswer
  BY DEF TaskInv
<1> QED BY <1>1, TaskInvHolds, PTL

\* No task waits for a result that is stored already.
THEOREM NoResultMissedHolds == RTMSpec => []NoResultMissed
<1>1. TaskInv => NoResultMissed
  BY DEF TaskInv
<1> QED BY <1>1, TaskInvHolds, PTL

\* A step changes the status and the answer of pending or new tasks only,
\* but for a cancellation.
LEMMA StepSparesFinal ==
  ASSUME TaskInv, RTMNext, NEW t \in Tasks, status[t] \notin {"NEW", "PENDING"}
  PROVE  status'[t] \in {status[t], "CANCELLED"} /\ answer'[t] = answer[t]
<1> USE DEF manager, wires
<1>1. status \in [Tasks -> Statuses] /\ answer \in [Tasks -> Tasks \union {Nobody}]
  BY DEF TaskInv, RTMTypeOK
<1>2. CASE \E u \in Tasks : StartTask(u) \/ CancelTask(u) \/ TimeOut(u)
  BY <1>1, <1>2 DEF StartTask, TaskSent, TaskRefused, CancelTask, TimeOut
<1>3. CASE HandleReply
  <2> DEFINE u == Head(m_tasks)
             r == Head(replies)
  <2>1. RawReply(u, r) \/ LSGReply(u, r)
    BY <1>3 DEF HandleReply
  <2>2. CASE Pending(u)
    <3>1. u # t
      BY <2>2 DEF Pending
    <3>2. \/ UNCHANGED <<status, answer>>
          \/ \E id, s : Gives(u, id, s)
      BY <2>1 DEF RawReply, LSGReply, AsyncReply
    <3> QED BY <1>1, <3>1, <3>2 DEF Gives
  <2>3. CASE ~Pending(u)
    BY <2>1, <2>3 DEF RawReply, LSGReply
  <2> QED BY <2>2, <2>3
<1>4. CASE HandleAsyncResult
  <2>1. PICK m \in results : HandleResult(m.of, m.kind)
    BY <1>4 DEF HandleAsyncResult
  <2>2. CASE Pending(m_asyncTasks[m.of])
    <3>1. m_asyncTasks[m.of] # t
      BY <2>2 DEF Pending
    <3> QED BY <1>1, <2>1, <3>1 DEF HandleResult, Gives
  <2>3. CASE ~Pending(m_asyncTasks[m.of])
    BY <2>1, <2>3 DEF HandleResult
  <2> QED BY <2>2, <2>3
<1>5. CASE ServerAnswers \/ (\E u \in Tasks : ServerPushes(u)) \/ EndPump
  BY <1>5 DEF ServerAnswers, ServerPushes, EndPump
<1>6. CASE Connect \/ LinkCloses \/ Disconnect
  BY <1>6 DEF Connect, LinkCloses, Disconnect
<1> QED BY <1>2, <1>3, <1>4, <1>5, <1>6 DEF RTMNext

\* A late answer changes nothing of a task that was settled before it.
THEOREM FinalStaysHolds == RTMSpec => FinalStays
<1>1. TaskInv /\ [RTMNext]_rtmVars
        => [\A t \in Tasks : status[t] \notin {"NEW", "PENDING"} =>
             status'[t] \in {status[t], "CANCELLED"} /\ answer'[t] = answer[t]]_rtmVars
  BY StepSparesFinal
<1> QED BY <1>1, TaskInvHolds, PTL DEF RTMSpec, FinalStays

=============================================================================
