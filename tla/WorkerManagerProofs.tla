------------------------- MODULE WorkerManagerProofs -------------------------
(***************************************************************************)
(* Theorems about the dispatcher for every number of tasks, connections,   *)
(* queues and buckets and for every set of faults.                         *)
(***************************************************************************)
EXTENDS WorkerManager, SequenceTheorems, TLAPS

-----------------------------------------------------------------------------
(* What the helpers of the dispatcher keep typed.                          *)

\* A field of a task object may be set to any value of the field's type.
LEMMA FieldTyped ==
    ASSUME NEW o \in TaskObject
    PROVE  /\ \A s \in Status : [o EXCEPT !.status = s] \in TaskObject
           /\ \A w \in Conn \cup {NoConn} : [o EXCEPT !.worker = w] \in TaskObject
           /\ \A n \in Nat : [o EXCEPT !.retried = n] \in TaskObject
           /\ \A f \in BOOLEAN : [o EXCEPT !.failed = f] \in TaskObject
<1>1. \A s \in Status : [o EXCEPT !.status = s] \in TaskObject
  BY DEF TaskObject
<1>2. \A w \in Conn \cup {NoConn} : [o EXCEPT !.worker = w] \in TaskObject
  BY DEF TaskObject
<1>3. \A n \in Nat : [o EXCEPT !.retried = n] \in TaskObject
  BY DEF TaskObject
<1>4. \A f \in BOOLEAN : [o EXCEPT !.failed = f] \in TaskObject
  BY DEF TaskObject
<1> QED  BY <1>1, <1>2, <1>3, <1>4

\* "task.X = ...; Update(task)" with a well-formed object within its budget.
LEMMA WriteTyped ==
    ASSUME ObjectsOK, NEW t \in Task, NEW o \in TaskObject, o.retried <= MaxRetry[t],
           Write(t, o), cached' \in SUBSET Task, cancelling' = cancelling
    PROVE  ObjectsOK'
<1>1. Stored(o) \in Document
  BY DEF Stored, Document, TaskObject
<1>2. mem' = [mem EXCEPT ![t] = o] /\ db' = [db EXCEPT ![t] = Stored(o)]
  BY DEF Write
<1> HIDE DEF Stored
<1>3. mem' \in [Task -> TaskObject] /\ db' \in [Task -> Document]
  BY <1>1, <1>2 DEF ObjectsOK
<1>4. \A u \in Task : mem'[u].retried <= MaxRetry[u]
  BY <1>2 DEF ObjectsOK
<1> QED  BY <1>3, <1>4 DEF ObjectsOK

\* taskComplete's verdict is a well-formed object, within its budget.
LEMMA SettledTyped ==
    ASSUME ObjectsOK, NEW t \in Task
    PROVE  Settled(t) \in TaskObject /\ Settled(t).retried <= MaxRetry[t]
<1>1. mem[t] \in TaskObject /\ getTaskCompleteStatus(t) \in Status
  BY DEF ObjectsOK, getTaskCompleteStatus, Status
<1> HIDE DEF getTaskCompleteStatus
<1>2. [mem[t] EXCEPT !.status = getTaskCompleteStatus(t)] \in TaskObject
  BY <1>1 DEF TaskObject
<1>3. [mem[t] EXCEPT !.status = "pending", !.retried = @ + 1] \in TaskObject
  <2>1. [mem[t] EXCEPT !.status = "pending"] \in TaskObject
    BY <1>1, FieldTyped DEF Status
  <2>2. mem[t].retried + 1 \in Nat
    BY <1>1 DEF TaskObject
  <2> QED  BY <2>1, <2>2, FieldTyped
<1>4. /\ mem[t].retried \in Nat /\ MaxRetry[t] \in Nat
      /\ mem[t].retried <= MaxRetry[t]
  BY <1>1, WorkerManagerAssumption DEF ObjectsOK, TaskObject
<1>5. /\ [mem[t] EXCEPT !.status = getTaskCompleteStatus(t)].retried = mem[t].retried
      /\ [mem[t] EXCEPT !.status = "pending", !.retried = @ + 1].retried
            = mem[t].retried + 1
  BY <1>1 DEF TaskObject
<1> QED  BY <1>2, <1>3, <1>4, <1>5 DEF Settled

\* The dequeues hold tasks, at most their capacity of them.
QueuesOK ==
    /\ queue \in [Bucket -> Seq(Task)]
    /\ \A b \in Bucket : Len(queue[b]) <= QueueCap

\* A push that waits for room keeps them so.
LEMMA EnqueueTyped ==
    ASSUME DispatcherOK, NEW t \in Task, EnqueueTask(t)
    PROVE  QueuesOK'
<1>1. TaskBucket(t) \in Bucket /\ QueueCap \in Nat
  BY WorkerManagerAssumption DEF TaskBucket
<1>2. PICK d \in Bucket : d = TaskBucket(t)
  BY <1>1
<1>3. /\ queue \in [Bucket -> Seq(Task)] /\ queue' = [queue EXCEPT ![d] = Append(@, t)]
      /\ Len(queue[d]) < QueueCap
      /\ \A b \in Bucket : Len(queue[b]) <= QueueCap
  BY <1>2 DEF EnqueueTask, DispatcherOK
<1>4. queue' \in [Bucket -> Seq(Task)] /\ Len(queue'[d]) = Len(queue[d]) + 1
  BY <1>3
<1>5. \A b \in Bucket : Len(queue'[b]) <= QueueCap
  <2>1. Len(queue[d]) \in Nat
    BY <1>3
  <2> QED  BY <1>1, <1>3, <1>4, <2>1
<1> QED  BY <1>4, <1>5 DEF QueuesOK

\* A bucket worker that moves on keeps what its next step needs.
LEMMA GotoTyped ==
    ASSUME DispatcherOK, NEW b \in Bucket, NEW pc \in BucketStep,
           bucket[b].task \in Task,
           pc \in {"assign", "record", "send", "revert", "clear"} => bucket[b].conn \in Conn,
           Goto(b, pc), arriving' = arriving, queue' = queue
    PROVE  DispatcherOK'
BY DEF DispatcherOK, BucketOK, BucketStep, Goto

\* A bucket worker that is done holds nothing.
LEMMA IdleTyped ==
    ASSUME DispatcherOK, NEW b \in Bucket, Idle(b), arriving' = arriving,
           QueuesOK'
    PROVE  DispatcherOK'
BY DEF DispatcherOK, QueuesOK, BucketOK, BucketStep, Idle

\* A bucket worker past its pop holds a task, and past its choice a connection.
LEMMA Holding ==
    ASSUME TypeOK, NEW b \in Bucket
    PROVE  /\ bucket[b].pc # "pop" => bucket[b].task \in Task
           /\ bucket[b].pc \in {"assign", "record", "send", "revert", "clear"}
                 => bucket[b].conn \in Conn
BY DEF TypeOK, DispatcherOK, BucketOK

-----------------------------------------------------------------------------
(* TypeOK.                                                                 *)

LEMMA TypeInit == Init => TypeOK
<1> SUFFICES ASSUME Init  PROVE TypeOK
  OBVIOUS
<1>1. ObjectsOK
  <2>1. NewTask \in TaskObject /\ NewTask.retried = 0
    BY DEF NewTask, TaskObject, Status
  <2>2. mem \in [Task -> TaskObject] /\ \A t \in Task : mem[t].retried <= MaxRetry[t]
    BY <2>1, WorkerManagerAssumption DEF Init
  <2>3. db \in [Task -> Document]
    BY DEF Init, Document, Status
  <2> QED  BY <2>2, <2>3 DEF Init, ObjectsOK
<1>2. DispatcherOK
  <2>1. \A b \in Bucket : Len(queue[b]) = 0 /\ QueueCap \in Nat
    BY WorkerManagerAssumption DEF Init
  <2> QED
    BY <2>1, WorkerManagerAssumption DEF Init, DispatcherOK, BucketOK, BucketStep
<1>3. ConnsOK
  BY DEF Init, ConnsOK, LifeStep, HandlerStep
<1>4. RemoteOK
  BY DEF Init, RemoteOK
<1>5. CountsOK
  BY DEF Init, CountsOK
<1> QED  BY <1>1, <1>2, <1>3, <1>4, <1>5 DEF TypeOK

\* A step that leaves a group of variables alone keeps the group typed.
LEMMA Untouched ==
    ASSUME TypeOK
    PROVE  /\ UNCHANGED objects => ObjectsOK'
           /\ UNCHANGED dispatcher => DispatcherOK'
           /\ UNCHANGED conns => ConnsOK'
           /\ UNCHANGED remote => RemoteOK'
           /\ UNCHANGED <<finishers, attempts, crashed>> => CountsOK'
<1>1. UNCHANGED objects => ObjectsOK'
  BY DEF TypeOK, ObjectsOK, objects
<1>2. UNCHANGED dispatcher => DispatcherOK'
  BY DEF TypeOK, DispatcherOK, BucketOK, dispatcher
<1>3. UNCHANGED conns => ConnsOK'
  BY DEF TypeOK, ConnsOK, conns
<1>4. UNCHANGED remote => RemoteOK'
  BY DEF TypeOK, RemoteOK, remote
<1>5. UNCHANGED <<finishers, attempts, crashed>> => CountsOK'
  BY DEF TypeOK, CountsOK
<1> QED  BY <1>1, <1>2, <1>3, <1>4, <1>5

LEMMA TypeTask ==
    ASSUME TypeOK, NEW t \in Task, Api(t) \/ Finisher(t)
    PROVE  TypeOK'
<1>1. CASE CreateTask(t)
  <2>1. Stored(mem[t]) \in Document
    BY DEF TypeOK, ObjectsOK, Stored, Document, TaskObject
  <2> HIDE DEF Stored
  <2>2. ObjectsOK'
    BY <1>1, <2>1 DEF CreateTask, TypeOK, ObjectsOK
  <2>3. DispatcherOK'
    BY <1>1 DEF CreateTask, TypeOK, DispatcherOK, BucketOK
  <2> QED  BY <1>1, <2>2, <2>3, Untouched DEF CreateTask, TypeOK
<1>2. CASE ArrivingEnqueue(t)
  <2>1. DispatcherOK'
    BY <1>2, EnqueueTyped DEF ArrivingEnqueue, TypeOK, DispatcherOK, QueuesOK, BucketOK
  <2> QED  BY <1>2, <2>1, Untouched DEF ArrivingEnqueue, TypeOK
<1>3. CASE TaskFinish(t)
  <2>1. PICK o : o = [mem[t] EXCEPT !.status = "finished"]
    OBVIOUS
  <2>2. ObjectsOK'
    <3>1. o \in TaskObject /\ o.retried <= MaxRetry[t]
      BY <2>1 DEF TypeOK, ObjectsOK, TaskObject, Status
    <3> QED  BY <1>3, <2>1, <3>1, WriteTyped DEF TaskFinish, TypeOK, ObjectsOK
  <2>3. CountsOK'
    BY <1>3 DEF TaskFinish, TypeOK, CountsOK
  <2> QED  BY <1>3, <2>2, <2>3, Untouched DEF TaskFinish, TypeOK
<1>4. CASE TaskFinishFails(t)
  <2>1. ObjectsOK'
    <3>1. [mem[t] EXCEPT !.status = "finished"] \in TaskObject
      BY DEF TypeOK, ObjectsOK, TaskObject, Status
    <3>2. mem' = [mem EXCEPT ![t] = [mem[t] EXCEPT !.status = "finished"]]
      BY <1>4 DEF TaskFinishFails, TypeOK, ObjectsOK
    <3>3. \A u \in Task : mem'[u].retried <= MaxRetry[u]
      BY <3>2 DEF TypeOK, ObjectsOK, TaskObject
    <3> QED  BY <1>4, <3>1, <3>2, <3>3 DEF TaskFinishFails, TypeOK, ObjectsOK
  <2>2. DispatcherOK'
    BY <1>4, EnqueueTyped DEF TaskFinishFails, TypeOK, DispatcherOK, QueuesOK, BucketOK
  <2>3. CountsOK'
    BY <1>4 DEF TaskFinishFails, TypeOK, CountsOK
  <2> QED  BY <1>4, <2>1, <2>2, <2>3, Untouched DEF TaskFinishFails, TypeOK
<1>5. CASE CancelRead(t)
  <2>1. ObjectsOK'
    BY <1>5 DEF CancelRead, TypeOK, ObjectsOK, Document
  <2> QED  BY <1>5, <2>1, Untouched DEF CancelRead, TypeOK
<1>6. CASE CancelWrite(t)
  <2>1. ObjectsOK'
    <3>1. PICK w \in Conn \cup {NoConn} :
              db' = [db EXCEPT ![t] = [present |-> TRUE, status |-> "finished",
                                       worker |-> w, cancelled |-> TRUE]]
      BY <1>6 DEF CancelWrite
    <3>2. db' \in [Task -> Document]
      BY <3>1 DEF TypeOK, ObjectsOK, Document, Status
    <3> QED  BY <1>6, <3>2 DEF CancelWrite, TypeOK, ObjectsOK
  <2> QED  BY <1>6, <2>1, Untouched DEF CancelWrite, TypeOK
<1> QED  BY <1>1, <1>2, <1>3, <1>4, <1>5, <1>6 DEF Api, Finisher

LEMMA TypeBucketWorker ==
    ASSUME TypeOK, NEW b \in Bucket, BucketWorker(b)
    PROVE  TypeOK'
<1> USE Holding DEF BucketAt, BucketStep
<1>1. CASE PopTask(b)
  <2>1. QueuesOK'
    <3>1. /\ queue \in [Bucket -> Seq(Task)] /\ queue[b] # <<>>
          /\ queue' = [queue EXCEPT ![b] = Tail(@)]
          /\ \A d \in Bucket : Len(queue[d]) <= QueueCap
      BY <1>1 DEF PopTask, TypeOK, DispatcherOK
    <3>2. queue' \in [Bucket -> Seq(Task)] /\ Len(queue'[b]) = Len(queue[b]) - 1
      BY <3>1
    <3>3. Len(queue[b]) \in Nat /\ QueueCap \in Nat
      BY <3>1, WorkerManagerAssumption
    <3> QED  BY <3>1, <3>2, <3>3 DEF QueuesOK
  <2>2. DispatcherOK'
    BY <1>1, <2>1 DEF PopTask, TypeOK, DispatcherOK, QueuesOK, BucketOK
  <2> QED  BY <1>1, <2>2, Untouched DEF PopTask, TypeOK
<1>2. CASE findNoConn(b)
  <2>1. DispatcherOK'
    BY <1>2, GotoTyped DEF findNoConn, TypeOK
  <2> QED  BY <1>2, <2>1, Untouched DEF findNoConn, TypeOK
<1>3. CASE findPanics(b) \/ SendPanics(b)
  <2>1. CountsOK'
    BY <1>3 DEF findPanics, SendPanics, TypeOK, CountsOK
  <2> QED  BY <1>3, <2>1, Untouched DEF findPanics, SendPanics, TypeOK
<1>4. ASSUME NEW c \in Conn, findSuitableConn(b, c)  PROVE TypeOK'
  <2>1. DispatcherOK'
    BY <1>4 DEF findSuitableConn, TypeOK, DispatcherOK, BucketOK
  <2> QED  BY <1>4, <2>1, Untouched DEF findSuitableConn, TypeOK
<1>5. CASE AssignTask(b)
  <2>1. DispatcherOK'
    BY <1>5, GotoTyped DEF AssignTask, TypeOK
  <2>2. ConnsOK'
    BY <1>5 DEF AssignTask, TypeOK, ConnsOK
  <2> QED  BY <1>5, <2>1, <2>2, Untouched DEF AssignTask, TypeOK
<1>6. CASE AssignRefused(b)
  <2>1. DispatcherOK'
    BY <1>6, GotoTyped DEF AssignRefused, TypeOK
  <2> QED  BY <1>6, <2>1, Untouched DEF AssignRefused, TypeOK
<1>7. CASE RecordAssignment(b)
  <2> DEFINE t == bucket[b].task
             o == [mem[t] EXCEPT !.status = "processing", !.worker = bucket[b].conn]
  <2>1. t \in Task /\ o \in TaskObject /\ o.retried <= MaxRetry[t]
    <3>1. t \in Task /\ bucket[b].conn \in Conn \cup {NoConn}
      BY <1>7 DEF RecordAssignment
    <3>2. [mem[t] EXCEPT !.status = "processing"] \in TaskObject
      BY <3>1, FieldTyped DEF TypeOK, ObjectsOK, Status
    <3>3. o.retried <= MaxRetry[t]
      BY <3>1 DEF TypeOK, ObjectsOK, TaskObject
    <3> QED  BY <3>1, <3>2, <3>3, FieldTyped
  <2>2. Write(t, o) /\ cached' = cached \cup {t} /\ cancelling' = cancelling
    BY <1>7 DEF RecordAssignment
  <2> HIDE DEF t, o
  <2>3. ObjectsOK'
    BY <2>1, <2>2, WriteTyped DEF TypeOK, ObjectsOK
  <2>4. DispatcherOK'
    BY <1>7, GotoTyped DEF RecordAssignment, TypeOK
  <2> QED  BY <1>7, <2>3, <2>4, Untouched DEF RecordAssignment, TypeOK
<1>8. CASE SendOk(b)
  <2>1. DispatcherOK'
    BY <1>8, IdleTyped DEF SendOk, TypeOK, DispatcherOK, QueuesOK
  <2>2. RemoteOK'
    <3> DEFINE c == bucket[b].conn
               t == bucket[b].task
    <3>1. c \in Conn /\ t \in Task /\ inbox \in [Conn -> Seq(Task)]
      BY <1>8 DEF SendOk, TypeOK, RemoteOK
    <3>2. inbox' = [inbox EXCEPT ![c] = Append(@, t)] \/ inbox' = inbox
      BY <1>8 DEF SendOk
    <3> HIDE DEF c, t
    <3>3. inbox' \in [Conn -> Seq(Task)]
      BY <3>1, <3>2
    <3> QED  BY <1>8, <3>3 DEF SendOk, TypeOK, RemoteOK
  <2>3. CountsOK'
    BY <1>8 DEF SendOk, TypeOK, CountsOK
  <2> QED  BY <1>8, <2>1, <2>2, <2>3, Untouched DEF SendOk, TypeOK
<1>9. CASE SendFails(b)
  <2>1. DispatcherOK'
    BY <1>9, GotoTyped DEF SendFails, TypeOK
  <2>2. ConnsOK'
    BY <1>9 DEF SendFails, TypeOK, ConnsOK
  <2> QED  BY <1>9, <2>1, <2>2, Untouched DEF SendFails, TypeOK
<1>10. CASE SendTimesOut(b)
  <2>1. DispatcherOK'
    BY <1>10, GotoTyped DEF SendTimesOut, TypeOK
  <2>2. ConnsOK'
    BY <1>10 DEF SendTimesOut, TypeOK, ConnsOK
  <2>3. RemoteOK'
    BY <1>10 DEF SendTimesOut, TypeOK, RemoteOK
  <2> QED  BY <1>10, <2>1, <2>2, <2>3, Untouched DEF SendTimesOut, TypeOK
<1>11. CASE RevertAssignment(b)
  <2> DEFINE t == bucket[b].task
             o == [mem[t] EXCEPT !.status = "pending", !.worker = NoConn]
  <2>1. t \in Task /\ o \in TaskObject /\ o.retried <= MaxRetry[t]
    <3>1. t \in Task /\ NoConn \in Conn \cup {NoConn}
      BY <1>11 DEF RevertAssignment
    <3>2. [mem[t] EXCEPT !.status = "pending"] \in TaskObject
      BY <3>1, FieldTyped DEF TypeOK, ObjectsOK, Status
    <3>3. o.retried <= MaxRetry[t]
      BY <3>1 DEF TypeOK, ObjectsOK, TaskObject
    <3> QED  BY <3>1, <3>2, <3>3, FieldTyped
  <2>2. Write(t, o) /\ cached' = cached \ {t} /\ cancelling' = cancelling
    BY <1>11 DEF RevertAssignment
  <2> HIDE DEF t, o
  <2>3. ObjectsOK'
    BY <2>1, <2>2, WriteTyped DEF TypeOK, ObjectsOK
  <2>4. DispatcherOK'
    BY <1>11, GotoTyped DEF RevertAssignment, TypeOK
  <2> QED  BY <1>11, <2>3, <2>4, Untouched DEF RevertAssignment, TypeOK
<1>12. CASE ClearAfterFailure(b)
  <2>1. DispatcherOK'
    BY <1>12, GotoTyped DEF ClearAfterFailure, TypeOK
  <2>2. ConnsOK'
    BY <1>12 DEF ClearAfterFailure, TypeOK, ConnsOK
  <2> QED  BY <1>12, <2>1, <2>2, Untouched DEF ClearAfterFailure, TypeOK
<1>13. CASE RequeueTask(b)
  <2>1. DispatcherOK'
    BY <1>13, IdleTyped, EnqueueTyped DEF RequeueTask, TypeOK
  <2> QED  BY <1>13, <2>1, Untouched DEF RequeueTask, TypeOK
<1>14. CASE ConvertFails(b)
  <2>1. DispatcherOK'
    BY <1>14, GotoTyped DEF ConvertFails, TypeOK
  <2> QED  BY <1>14, <2>1, Untouched DEF ConvertFails, TypeOK
<1> QED
  BY <1>1, <1>2, <1>3, <1>4, <1>5, <1>6, <1>7, <1>8, <1>9, <1>10, <1>11, <1>12,
     <1>13, <1>14 DEF BucketWorker

LEMMA TypeConnection ==
    ASSUME TypeOK, NEW c \in Conn, Register(c) \/ Unregister(c)
    PROVE  TypeOK'
<1> USE DEF LifeStep
<1>1. CASE HandleRegister(c) \/ StoreSession(c) \/ RegisterResponseOk(c)
  <2>1. ConnsOK'
    BY <1>1 DEF HandleRegister, StoreSession, RegisterResponseOk, TypeOK, ConnsOK
  <2> QED
    BY <1>1, <2>1, Untouched DEF HandleRegister, StoreSession, RegisterResponseOk, TypeOK
<1>2. ASSUME NEW d \in Conn, Reconnect(c, d)  PROVE TypeOK'
  <2>1. ConnsOK'
    BY <1>2 DEF Reconnect, TypeOK, ConnsOK
  <2>2. RemoteOK'
    <3>1. running' \in [Conn -> Task \cup {NoTask}] /\ reported' \in SUBSET Conn
      BY <1>2 DEF Reconnect, TypeOK, RemoteOK
    <3>2. inbox' \in [Conn -> Seq(Task)]
      BY <1>2 DEF Reconnect, TypeOK, RemoteOK
    <3> QED  BY <1>2, <3>1, <3>2 DEF Reconnect, TypeOK, RemoteOK
  <2> QED  BY <1>2, <2>1, <2>2, Untouched DEF Reconnect, TypeOK
<1>3. CASE RegisterResponseFails(c) \/ RemoveConnection(c) \/ CloseChannel(c)
  <2>1. ConnsOK'
    BY <1>3 DEF RegisterResponseFails, RemoveConnection, CloseChannel, TypeOK, ConnsOK
  <2>2. RemoteOK'
    <3>1. late' \in [Conn -> Task \cup {NoTask}]
      BY <1>3 DEF RegisterResponseFails, RemoveConnection, CloseChannel, TypeOK, RemoteOK
    <3>2. inbox' = inbox \/ inbox' = [inbox EXCEPT ![c] = <<>>]
      BY <1>3 DEF RegisterResponseFails, RemoveConnection, CloseChannel
    <3>3. outbox' = outbox \/ outbox' = [outbox EXCEPT ![c] = <<>>]
      BY <1>3 DEF RegisterResponseFails, RemoveConnection, CloseChannel
    <3>4. inbox' \in [Conn -> Seq(Task)] /\ outbox' \in [Conn -> Seq(Report)]
      <4>1. inbox \in [Conn -> Seq(Task)] /\ outbox \in [Conn -> Seq(Report)]
        BY DEF TypeOK, RemoteOK
      <4>2. [inbox EXCEPT ![c] = <<>>] \in [Conn -> Seq(Task)]
        BY <4>1
      <4>3. [outbox EXCEPT ![c] = <<>>] \in [Conn -> Seq(Report)]
        BY <4>1
      <4> QED  BY <3>2, <3>3, <4>1, <4>2, <4>3
    <3> QED
      BY <1>3, <3>1, <3>4
      DEF RegisterResponseFails, RemoveConnection, CloseChannel, TypeOK, RemoteOK
  <2> QED
    BY <1>3, <2>1, <2>2, Untouched
    DEF RegisterResponseFails, RemoveConnection, CloseChannel, TypeOK
<1> QED  BY <1>1, <1>2, <1>3 DEF Register, Unregister

LEMMA TypeHandler ==
    ASSUME TypeOK, NEW c \in Conn, Handle(c)
    PROVE  TypeOK'
<1> USE DEF HandlerStep
<1>1. CASE HandleReport(c)
  <2> DEFINE r == Head(outbox[c])
  <2>1. r \in Report
    BY <1>1 DEF HandleReport, TypeOK, RemoteOK
  <2>2. /\ mem' = [mem EXCEPT ![r.task] = [@ EXCEPT !.failed = r.failed]]
        /\ handler' = [handler EXCEPT ![c] = [pc |-> "settle", task |-> r.task]]
    BY <1>1 DEF HandleReport
  <2> HIDE DEF r
  <2>3. ObjectsOK'
    <3>1. r.task \in Task /\ r.failed \in BOOLEAN
      BY <2>1 DEF Report
    <3>2. [mem[r.task] EXCEPT !.failed = r.failed] \in TaskObject
      BY <3>1, FieldTyped DEF TypeOK, ObjectsOK
    <3>3. mem' \in [Task -> TaskObject] /\ \A u \in Task : mem'[u].retried = mem[u].retried
      BY <2>2, <3>1, <3>2 DEF TypeOK, ObjectsOK, TaskObject
    <3> QED  BY <1>1, <3>3 DEF HandleReport, TypeOK, ObjectsOK
  <2>4. ConnsOK'
    BY <1>1, <2>1, <2>2 DEF HandleReport, TypeOK, ConnsOK, Report
  <2>5. RemoteOK'
    BY <1>1 DEF HandleReport, TypeOK, RemoteOK
  <2> QED  BY <1>1, <2>3, <2>4, <2>5, Untouched DEF HandleReport, TypeOK
<1>2. CASE RejectReport(c)
  <2>1. RemoteOK'
    BY <1>2 DEF RejectReport, TypeOK, RemoteOK
  <2> QED  BY <1>2, <2>1, Untouched DEF RejectReport, TypeOK
<1>3. CASE TaskComplete(c)
  <2> DEFINE t == handler[c].task
  <2>1. t \in Task /\ Settled(t) \in TaskObject /\ Settled(t).retried <= MaxRetry[t]
    BY <1>3, SettledTyped DEF TaskComplete, TypeOK, ConnsOK
  <2>2. Write(t, Settled(t))
    BY <1>3 DEF TaskComplete
  <2>3. ObjectsOK'
    BY <1>3, <2>1, <2>2, WriteTyped DEF TaskComplete, TypeOK, ObjectsOK
  <2>4. ConnsOK'
    BY <1>3, <2>1 DEF TaskComplete, TypeOK, ConnsOK
  <2>5. CountsOK'
    BY <1>3, <2>1 DEF TaskComplete, TypeOK, CountsOK
  <2> QED  BY <1>3, <2>3, <2>4, <2>5, Untouched DEF TaskComplete, TypeOK
<1>4. CASE TaskCompleteEnqueue(c)
  <2>1. handler[c].task \in Task
    BY <1>4 DEF TaskCompleteEnqueue, TypeOK, ConnsOK
  <2>2. DispatcherOK'
    BY <1>4, <2>1, EnqueueTyped
    DEF TaskCompleteEnqueue, TypeOK, DispatcherOK, QueuesOK, BucketOK
  <2>3. ConnsOK'
    BY <1>4 DEF TaskCompleteEnqueue, TypeOK, ConnsOK
  <2> QED  BY <1>4, <2>2, <2>3, Untouched DEF TaskCompleteEnqueue, TypeOK
<1> QED  BY <1>1, <1>2, <1>3, <1>4 DEF Handle

LEMMA TypeWorker ==
    ASSUME TypeOK, NEW c \in Conn, RemoteWorker(c)
    PROVE  TypeOK'
<1>1. CASE LateWrite(c)
  <2>1. RemoteOK'
    BY <1>1 DEF LateWrite, TypeOK, RemoteOK
  <2>2. CountsOK'
    BY <1>1 DEF LateWrite, TypeOK, RemoteOK, CountsOK
  <2> QED  BY <1>1, <2>1, <2>2, Untouched DEF LateWrite, TypeOK
<1>2. CASE WorkerReceive(c)
  <2>1. RemoteOK'
    <3>1. inbox[c] \in Seq(Task) /\ inbox[c] # <<>>
      BY <1>2 DEF WorkerReceive, TypeOK, RemoteOK
    <3>2. Head(inbox[c]) \in Task /\ Tail(inbox[c]) \in Seq(Task)
      BY <3>1
    <3>3. /\ running' \in [Conn -> Task \cup {NoTask}]
          /\ inbox' \in [Conn -> Seq(Task)]
          /\ silent' \in SUBSET (Task \X Conn)
      BY <1>2, <3>2 DEF WorkerReceive, TypeOK, RemoteOK
    <3> QED  BY <1>2, <3>3 DEF WorkerReceive, TypeOK, RemoteOK
  <2> QED  BY <1>2, <2>1, Untouched DEF WorkerReceive, TypeOK
<1>3. CASE WorkerIdle(c)
  <2>1. RemoteOK'
    BY <1>3 DEF WorkerIdle, TypeOK, RemoteOK
  <2> QED  BY <1>3, <2>1, Untouched DEF WorkerIdle, TypeOK
<1>4. ASSUME NEW failed \in BOOLEAN, WorkerReport(c, failed)  PROVE TypeOK'
  <2>1. [task |-> running[c], failed |-> failed] \in Report
    BY <1>4 DEF WorkerReport, TypeOK, RemoteOK, Report
  <2>2. RemoteOK'
    <3>1. outbox' \in [Conn -> Seq(Report)]
      BY <1>4, <2>1 DEF WorkerReport, TypeOK, RemoteOK
    <3>2. running' \in [Conn -> Task \cup {NoTask}] /\ reported' \in SUBSET Conn
      BY <1>4 DEF WorkerReport, TypeOK, RemoteOK
    <3> QED  BY <1>4, <3>1, <3>2 DEF WorkerReport, TypeOK, RemoteOK
  <2> QED  BY <1>4, <2>2, Untouched DEF WorkerReport, TypeOK
<1>5. CASE WorkerSwallows(c)
  <2>1. RemoteOK'
    BY <1>5 DEF WorkerSwallows, TypeOK, RemoteOK
  <2> QED  BY <1>5, <2>1, Untouched DEF WorkerSwallows, TypeOK
<1> QED  BY <1>1, <1>2, <1>3, <1>4, <1>5 DEF RemoteWorker

LEMMA TypeStep == TypeOK /\ [Next]_vars => TypeOK'
<1> SUFFICES ASSUME TypeOK, [Next]_vars  PROVE TypeOK'
  OBVIOUS
<1>1. CASE UNCHANGED vars
  BY <1>1, Untouched DEF vars, TypeOK
<1>2. CASE Next
  BY <1>2, TypeTask, TypeBucketWorker, TypeConnection, TypeHandler, TypeWorker DEF Next
<1> QED  BY <1>1, <1>2

\* TypeOK holds in every state the dispatcher reaches: a bucket worker past its
\* pop holds a task and, past its choice, a connection, so no step runs on a nil
\* reference of its own; no dequeue outgrows QueueCap, no task its retry budget.
THEOREM TypeCorrect == Spec => []TypeOK
BY TypeInit, TypeStep, PTL DEF Spec

-----------------------------------------------------------------------------
(* NoTicketLost: how each structure that holds a ticket hands it on.       *)

\* A push adds its task to a queue and takes none out of one.
LEMMA PushKeeps ==
    ASSUME TypeOK, NEW u \in Task, EnqueueTask(u)
    PROVE  Queued(u)' /\ \A t \in Task : Queued(t) => Queued(t)'
<1> DEFINE d == TaskBucket(u)
<1>1. d \in Bucket
  BY WorkerManagerAssumption DEF TaskBucket
<1>2. queue \in [Bucket -> Seq(Task)] /\ queue' = [queue EXCEPT ![d] = Append(@, u)]
  BY DEF TypeOK, DispatcherOK, EnqueueTask
<1> HIDE DEF d
<1>3. /\ Len(queue[d]) + 1 \in DOMAIN queue'[d]
      /\ queue'[d][Len(queue[d]) + 1] = u
  BY <1>1, <1>2
<1>4. ASSUME NEW t \in Task, NEW b \in Bucket, NEW i \in DOMAIN queue[b], queue[b][i] = t
      PROVE  i \in DOMAIN queue'[b] /\ queue'[b][i] = t
  <2>1. CASE b # d
    BY <1>1, <1>2, <1>4, <2>1
  <2>2. CASE b = d
    <3>1. queue'[b] = Append(queue[b], u) /\ queue[b] \in Seq(Task)
      BY <1>1, <1>2, <2>2
    <3> QED  BY <1>4, <3>1
  <2> QED  BY <2>1, <2>2
<1> QED  BY <1>1, <1>3, <1>4 DEF Queued

\* A bucket worker that moves on keeps its ticket unless it now sends or backs
\* out of a send, and no other bucket worker is touched.
LEMMA GotoKeeps ==
    ASSUME TypeOK, NEW b \in Bucket, NEW pc \in BucketStep, Goto(b, pc), NEW t \in Task
    PROVE  /\ Dispatching(t) /\ (bucket[b].task # t \/ pc \notin {"pop", "send", "revert"})
                 => Dispatching(t)'
           /\ bucket[b].task = t /\ pc \notin {"pop", "send", "revert"} => Dispatching(t)'
<1>1. /\ bucket'[b].pc = pc /\ bucket'[b].task = bucket[b].task
      /\ \A d \in Bucket \ {b} : bucket'[d] = bucket[d]
  BY DEF TypeOK, DispatcherOK, Goto
<1> QED  BY <1>1 DEF Dispatching

\* A bucket worker that is done takes no ticket but its own with it.
LEMMA IdleKeeps ==
    ASSUME TypeOK, NEW b \in Bucket, Idle(b), NEW t \in Task,
           bucket[b].task # t \/ bucket[b].pc \in {"pop", "send", "revert"}
    PROVE  Dispatching(t) => Dispatching(t)'
<1>1. \A d \in Bucket \ {b} : bucket'[d] = bucket[d]
  BY DEF TypeOK, DispatcherOK, Idle
<1> QED  BY <1>1 DEF Dispatching

\* Tickets do not depend on anything else.
LEMMA SameTicket ==
    ASSUME NEW t \in Task
    PROVE  /\ queue' = queue => (Queued(t)' <=> Queued(t))
           /\ bucket' = bucket => (Dispatching(t)' <=> Dispatching(t))
           /\ handler' = handler => (Retrying(t)' <=> Retrying(t))
<1>1. queue' = queue => (Queued(t)' <=> Queued(t))
  BY DEF Queued
<1>2. bucket' = bucket => (Dispatching(t)' <=> Dispatching(t))
  BY DEF Dispatching
<1>3. handler' = handler => (Retrying(t)' <=> Retrying(t))
  BY DEF Retrying
<1> QED  BY <1>1, <1>2, <1>3

\* A write of one task leaves the status and the presence of the others alone.
LEMMA WriteElsewhere ==
    ASSUME TypeOK, NEW u \in Task, NEW o, Write(u, o), NEW t \in Task
    PROVE  /\ t # u => mem'[t] = mem[t] /\ db'[t] = db[t]
           /\ mem'[u] = o
BY DEF Write, TypeOK, ObjectsOK

\* The task is pending, or finished and its document does not know: the
\* webhook was lost.
Pending(t) ==
    /\ db[t].present
    /\ \/ mem[t].status = "pending"
       \/ mem[t].status = "finished" /\ db[t].status # "finished"

\* Each such task has a ticket, and a cancel has read a document that is there.
TicketsHeld ==
    /\ \A t \in Task : Pending(t) => Ticket(t)
    /\ \A t \in Task : \A w \in Conn \cup {NoConn} :
          <<t, w>> \in cancelling => db[t].present

LEMMA TicketInit == Init => TicketsHeld
<1> SUFFICES ASSUME Init, NEW t \in Task, db[t].present  PROVE t \in arriving
  BY DEF Init, TicketsHeld, Pending, Ticket
<1>1. db[t].present = (t \in InitialTasks)
  BY Zenon DEF Init
<1> QED  BY <1>1 DEF Init

LEMMA TicketTask ==
    ASSUME TypeOK, TicketsHeld, NEW u \in Task, Api(u) \/ Finisher(u),
           NEW t \in Task, Pending(t)'
    PROVE  Ticket(t)'
<1>1. CASE CreateTask(u)
  <2>1. CASE t = u
    BY <1>1, <2>1 DEF CreateTask, Ticket
  <2>2. CASE t # u
    <3>1. Pending(t)
      BY <1>1, <2>2 DEF CreateTask, Pending, TypeOK, ObjectsOK
    <3> QED  BY <1>1, <3>1, SameTicket DEF CreateTask, conns, TicketsHeld, Pending, Ticket
  <2> QED  BY <2>1, <2>2
<1>2. CASE ArrivingEnqueue(u)
  <2>1. Pending(t)
    BY <1>2 DEF ArrivingEnqueue, objects, Pending
  <2>2. Queued(u)' /\ (Queued(t) => Queued(t)')
    BY <1>2, PushKeeps DEF ArrivingEnqueue
  <2> QED
    BY <1>2, <2>1, <2>2, SameTicket DEF ArrivingEnqueue, conns, TicketsHeld, Pending, Ticket
<1>3. CASE TaskFinish(u)
  <2>1. mem'[u].status = "finished" /\ db'[u].status = "finished"
    BY <1>3 DEF TaskFinish, Write, Stored, TypeOK, ObjectsOK, TaskObject
  <2>2. Pending(t)
    BY <1>3, <2>1, WriteElsewhere DEF TaskFinish, Pending
  <2> QED
    BY <1>3, <2>2, SameTicket
    DEF TaskFinish, dispatcher, conns, TicketsHeld, Pending, Ticket
<1>4. CASE TaskFinishFails(u)
  <2>1. mem' = [mem EXCEPT ![u] = [mem[u] EXCEPT !.status = "finished"]]
    BY <1>4 DEF TaskFinishFails, TypeOK, ObjectsOK
  <2>2. t = u \/ Pending(t)
    BY <1>4, <2>1 DEF TaskFinishFails, Pending, TypeOK, ObjectsOK
  <2>3. t = u \/ Queued(t) => Queued(t)'
    BY <1>4, PushKeeps DEF TaskFinishFails
  <2> QED
    BY <1>4, <2>2, <2>3, SameTicket DEF TaskFinishFails, conns, TicketsHeld, Pending, Ticket
<1>5. CASE CancelRead(u) \/ CancelWrite(u)
  <2>1. mem' = mem /\ UNCHANGED <<dispatcher, conns>>
    BY <1>5 DEF CancelRead, CancelWrite
  <2>2. Pending(t)
    <3>1. CASE CancelRead(u)
      BY <3>1 DEF CancelRead, Pending
    <3>2. CASE CancelWrite(u)
      <4>1. PICK w : db' = [db EXCEPT ![u] = [present |-> TRUE, status |-> "finished",
                                              worker |-> w, cancelled |-> TRUE]]
        BY <3>2 DEF CancelWrite
      <4>2. db[u].present
        BY <3>2 DEF CancelWrite, TicketsHeld
      <4> QED  BY <2>1, <4>1, <4>2 DEF Pending, TypeOK, ObjectsOK
    <3> QED  BY <1>5, <3>1, <3>2
  <2> QED
    BY <2>1, <2>2, SameTicket DEF dispatcher, conns, TicketsHeld, Pending, Ticket
<1> QED  BY <1>1, <1>2, <1>3, <1>4, <1>5 DEF Api, Finisher

LEMMA TicketBucketWorker ==
    ASSUME TypeOK, TicketsHeld, NEW b \in Bucket, BucketWorker(b),
           NEW t \in Task, Pending(t)'
    PROVE  Ticket(t)'
<1> USE SameTicket DEF BucketAt, BucketStep, conns
<1>1. CASE PopTask(b)
  <2>1. Pending(t)
    BY <1>1 DEF PopTask, objects, Pending
  <2>2. /\ bucket'[b].pc = "find" /\ bucket'[b].task = Head(queue[b])
        /\ \A d \in Bucket \ {b} : bucket'[d] = bucket[d]
    BY <1>1 DEF PopTask, TypeOK, DispatcherOK
  <2>3. Dispatching(t) => Dispatching(t)'
    BY <1>1, <2>2 DEF PopTask, Dispatching
  <2>4. Queued(t) => Queued(t)' \/ Dispatching(t)'
    <3> SUFFICES ASSUME NEW d \in Bucket, NEW i \in DOMAIN queue[d], queue[d][i] = t
                 PROVE  Queued(t)' \/ Dispatching(t)'
      BY DEF Queued
    <3>1. queue \in [Bucket -> Seq(Task)] /\ queue' = [queue EXCEPT ![b] = Tail(@)]
      BY <1>1 DEF PopTask, TypeOK, DispatcherOK
    <3>2. CASE d # b
      <4>1. queue'[d] = queue[d]
        BY <3>1, <3>2
      <4> QED  BY <4>1 DEF Queued
    <3>3. CASE d = b /\ i = 1
      <4>1. Head(queue[b]) = t
        BY <3>1, <3>3
      <4> QED  BY <2>2, <4>1 DEF Dispatching
    <3>4. CASE d = b /\ i # 1
      <4>1. i - 1 \in DOMAIN Tail(queue[b]) /\ Tail(queue[b])[i - 1] = t
        BY <3>1, <3>4
      <4>2. queue'[b] = Tail(queue[b])
        BY <3>1
      <4> QED  BY <4>1, <4>2 DEF Queued
    <3> QED  BY <3>2, <3>3, <3>4
  <2> QED
    BY <1>1, <2>1, <2>3, <2>4 DEF PopTask, TicketsHeld, Pending, Ticket
<1>2. CASE \/ findNoConn(b) \/ AssignTask(b) \/ AssignRefused(b) \/ ConvertFails(b)
           \/ ClearAfterFailure(b)
  <2>1. Pending(t)
    BY <1>2 DEF findNoConn, AssignTask, AssignRefused, ConvertFails, ClearAfterFailure,
       objects, Pending
  <2>2. Dispatching(t) => Dispatching(t)'
    BY <1>2, GotoKeeps
    DEF findNoConn, AssignTask, AssignRefused, ConvertFails, ClearAfterFailure
  <2> QED
    BY <1>2, <2>1, <2>2
    DEF findNoConn, AssignTask, AssignRefused, ConvertFails, ClearAfterFailure,
        TicketsHeld, Pending, Ticket
<1>3. CASE findPanics(b) \/ SendPanics(b)
  BY <1>3 DEF findPanics, SendPanics, objects, dispatcher, TicketsHeld, Pending, Ticket
<1>4. ASSUME NEW c \in Conn, findSuitableConn(b, c)  PROVE Ticket(t)'
  <2>1. Pending(t)
    BY <1>4 DEF findSuitableConn, objects, Pending
  <2>2. /\ bucket'[b].pc = "assign" /\ bucket'[b].task = bucket[b].task
        /\ \A d \in Bucket \ {b} : bucket'[d] = bucket[d]
    BY <1>4 DEF findSuitableConn, TypeOK, DispatcherOK
  <2>3. Dispatching(t) => Dispatching(t)'
    BY <2>2 DEF Dispatching
  <2> QED
    BY <1>4, <2>1, <2>3 DEF findSuitableConn, TicketsHeld, Pending, Ticket
<1>5. CASE RecordAssignment(b)
  <2> DEFINE u == bucket[b].task
             o == [mem[u] EXCEPT !.status = "processing", !.worker = bucket[b].conn]
  <2>1. u \in Task /\ Write(u, o) /\ Goto(b, "send")
    BY <1>5, Holding DEF RecordAssignment
  <2>2. o.status = "processing"
    BY <2>1 DEF TypeOK, ObjectsOK, TaskObject
  <2> HIDE DEF o
  <2>3. t # u /\ Pending(t)
    BY <2>1, <2>2, WriteElsewhere DEF Pending
  <2>4. Dispatching(t) => Dispatching(t)'
    BY <2>1, <2>3, GotoKeeps
  <2> QED
    BY <1>5, <2>3, <2>4 DEF RecordAssignment, TicketsHeld, Pending, Ticket
<1>6. CASE SendOk(b)
  <2>1. Pending(t)
    BY <1>6 DEF SendOk, objects, Pending
  <2>2. Dispatching(t) => Dispatching(t)'
    BY <1>6, IdleKeeps DEF SendOk
  <2> QED
    BY <1>6, <2>1, <2>2 DEF SendOk, TicketsHeld, Pending, Ticket
<1>7. CASE SendFails(b) \/ SendTimesOut(b)
  <2>1. Pending(t)
    BY <1>7 DEF SendFails, SendTimesOut, objects, Pending
  <2>2. Goto(b, "revert") /\ bucket[b].pc = "send"
    BY <1>7 DEF SendFails, SendTimesOut
  <2>3. Dispatching(t) => Dispatching(t)'
    <3>1. \A d \in Bucket \ {b} : bucket'[d] = bucket[d]
      BY <2>2 DEF Goto, TypeOK, DispatcherOK
    <3> QED  BY <2>2, <3>1 DEF Dispatching
  <2> QED
    BY <1>7, <2>1, <2>3 DEF SendFails, SendTimesOut, TicketsHeld, Pending, Ticket
<1>8. CASE RevertAssignment(b)
  <2> DEFINE u == bucket[b].task
  <2>1. u \in Task /\ Goto(b, "clear") /\ \E o : Write(u, o)
    BY <1>8, Holding DEF RevertAssignment
  <2>2. CASE t = u
    <3>1. Dispatching(t)'
      BY <2>1, <2>2, GotoKeeps
    <3> QED  BY <3>1 DEF Ticket
  <2>3. CASE t # u
    <3>1. Pending(t)
      BY <2>1, <2>3, WriteElsewhere DEF Pending
    <3>2. Dispatching(t) => Dispatching(t)'
      BY <2>1, <2>3, GotoKeeps
    <3> QED
      BY <1>8, <3>1, <3>2 DEF RevertAssignment, TicketsHeld, Pending, Ticket
  <2> QED  BY <2>2, <2>3
<1>9. CASE RequeueTask(b)
  <2>1. Pending(t)
    BY <1>9 DEF RequeueTask, objects, Pending
  <2>2. bucket[b].task = t \/ Queued(t) => Queued(t)'
    BY <1>9, PushKeeps, Holding DEF RequeueTask
  <2>3. bucket[b].task = t \/ (Dispatching(t) => Dispatching(t)')
    BY <1>9, IdleKeeps DEF RequeueTask
  <2> QED
    BY <1>9, <2>1, <2>2, <2>3 DEF RequeueTask, TicketsHeld, Pending, Ticket
<1> QED
  BY <1>1, <1>2, <1>3, <1>4, <1>5, <1>6, <1>7, <1>8, <1>9 DEF BucketWorker

LEMMA TicketHandler ==
    ASSUME TypeOK, TicketsHeld, NEW c \in Conn, Handle(c), NEW t \in Task, Pending(t)'
    PROVE  Ticket(t)'
<1> USE SameTicket
<1>1. CASE HandleReport(c)
  <2> DEFINE r == Head(outbox[c])
  <2>1. r.task \in Task /\ mem' = [mem EXCEPT ![r.task] = [@ EXCEPT !.failed = r.failed]]
    <3>1. r \in Report
      BY <1>1 DEF HandleReport, TypeOK, RemoteOK
    <3>2. mem' = [mem EXCEPT ![r.task] = [@ EXCEPT !.failed = r.failed]]
      BY <1>1 DEF HandleReport
    <3> QED  BY <3>1, <3>2 DEF Report
  <2> HIDE DEF r
  <2>2. mem'[t].status = mem[t].status
    BY <2>1 DEF TypeOK, ObjectsOK, TaskObject
  <2>3. Pending(t)
    BY <1>1, <2>2 DEF HandleReport, Pending
  <2>4. Retrying(t) => Retrying(t)'
    BY <1>1 DEF HandleReport, Retrying, TypeOK, ConnsOK
  <2> QED
    BY <1>1, <2>3, <2>4 DEF HandleReport, dispatcher, TicketsHeld, Pending, Ticket
<1>2. CASE RejectReport(c)
  BY <1>2 DEF RejectReport, objects, dispatcher, conns, TicketsHeld, Pending, Ticket
<1>3. CASE TaskComplete(c)
  <2> DEFINE u == handler[c].task
  <2>1. u \in Task /\ Write(u, Settled(u)) /\ handler[c].pc = "settle"
    BY <1>3 DEF TaskComplete, TypeOK, ConnsOK
  <2>2. CASE t = u
    <3>1. Settled(u).status = "pending"
      BY <2>1, <2>2 DEF Pending, Write, Stored, TypeOK, ObjectsOK
    <3>2. handler'[c] = [pc |-> "enqueue", task |-> u]
      BY <1>3, <3>1 DEF TaskComplete, TypeOK, ConnsOK
    <3>3. Retrying(t)'
      BY <2>2, <3>2 DEF Retrying
    <3> QED  BY <3>3 DEF Ticket
  <2>3. CASE t # u
    <3>1. Pending(t)
      BY <2>1, <2>3, WriteElsewhere DEF Pending
    <3>2. Retrying(t) => Retrying(t)'
      BY <1>3, <2>1 DEF TaskComplete, Retrying, TypeOK, ConnsOK
    <3> QED
      BY <1>3, <3>1, <3>2 DEF TaskComplete, dispatcher, TicketsHeld, Pending, Ticket
  <2> QED  BY <2>2, <2>3
<1>4. CASE TaskCompleteEnqueue(c)
  <2>1. Pending(t)
    BY <1>4 DEF TaskCompleteEnqueue, objects, Pending
  <2>2. handler[c].task = t \/ Queued(t) => Queued(t)'
    BY <1>4, PushKeeps DEF TaskCompleteEnqueue, TypeOK, ConnsOK
  <2>3. Retrying(t) => handler[c].task = t \/ Retrying(t)'
    BY <1>4 DEF TaskCompleteEnqueue, Retrying, TypeOK, ConnsOK
  <2> QED
    BY <1>4, <2>1, <2>2, <2>3 DEF TaskCompleteEnqueue, TicketsHeld, Pending, Ticket
<1> QED  BY <1>1, <1>2, <1>3, <1>4 DEF Handle

\* Connections and workers come and go without touching a ticket.
LEMMA TicketElsewhere ==
    ASSUME TypeOK, TicketsHeld, NEW t \in Task, Pending(t)',
           \/ UNCHANGED vars
           \/ \E c \in Conn : Register(c) \/ Unregister(c) \/ RemoteWorker(c)
    PROVE  Ticket(t)'
<1>1. UNCHANGED <<objects, dispatcher, handler>>
  <2>1. CASE UNCHANGED vars
    BY <2>1 DEF vars, conns
  <2>2. ASSUME NEW c \in Conn, Register(c) \/ Unregister(c)
        PROVE  UNCHANGED <<objects, dispatcher, handler>>
    BY <2>2
    DEF Register, Unregister, HandleRegister, Reconnect, StoreSession, RegisterResponseOk,
        RegisterResponseFails, RemoveConnection, CloseChannel
  <2>3. ASSUME NEW c \in Conn, RemoteWorker(c)
        PROVE  UNCHANGED <<objects, dispatcher, handler>>
    BY <2>3 DEF RemoteWorker, LateWrite, WorkerReceive, WorkerSwallows, WorkerIdle, WorkerReport, conns
  <2> QED  BY <2>1, <2>2, <2>3
<1>2. Pending(t) /\ Ticket(t)
  BY <1>1 DEF objects, TicketsHeld, Pending
<1> QED  BY <1>1, <1>2, SameTicket DEF dispatcher, Ticket

\* Only a cancel touches what cancels have read, and no document goes away.
LEMMA CancelsStep ==
    ASSUME TypeOK, TicketsHeld, [Next]_vars, NEW t \in Task, NEW w \in Conn \cup {NoConn},
           <<t, w>> \in cancelling'
    PROVE  db'[t].present
<1>1. ASSUME NEW u \in Task, NEW o, Write(u, o), db[t].present  PROVE db'[t].present
  BY <1>1 DEF Write, Stored, TypeOK, ObjectsOK
<1>2. \/ (db[t].present => db'[t].present) /\ cancelling' \subseteq cancelling
      \/ \E u \in Task : CancelRead(u)
  <2>1. CASE UNCHANGED objects
    BY <2>1 DEF objects
  <2>2. ASSUME NEW u \in Task, Api(u) \/ Finisher(u), ~CancelRead(u)
        PROVE  (db[t].present => db'[t].present) /\ cancelling' \subseteq cancelling
    <3>1. CASE CreateTask(u)
      BY <3>1 DEF CreateTask, Stored, TypeOK, ObjectsOK
    <3>2. CASE CancelWrite(u)
      BY <3>2 DEF CancelWrite, TypeOK, ObjectsOK
    <3>3. CASE ArrivingEnqueue(u) \/ TaskFinishFails(u)
      BY <3>3 DEF ArrivingEnqueue, TaskFinishFails, objects
    <3>4. CASE TaskFinish(u)
      <4>1. cancelling' = cancelling /\ \E o : Write(u, o)
        BY <3>4 DEF TaskFinish
      <4> QED  BY <1>1, <4>1
    <3> QED  BY <2>2, <3>1, <3>2, <3>3, <3>4 DEF Api, Finisher
  <2>3. ASSUME NEW b \in Bucket, BucketWorker(b)
        PROVE  (db[t].present => db'[t].present) /\ cancelling' \subseteq cancelling
    <3>1. CASE RecordAssignment(b) \/ RevertAssignment(b)
      <4>1. bucket[b].task \in Task /\ cancelling' = cancelling
            /\ \E o : Write(bucket[b].task, o)
        BY <3>1, Holding DEF RecordAssignment, RevertAssignment, BucketAt
      <4> QED  BY <1>1, <4>1
    <3>2. CASE ~RecordAssignment(b) /\ ~RevertAssignment(b)
      <4>1. UNCHANGED objects
        BY <2>3, <3>2 DEF BucketWorker, PopTask, findNoConn, findPanics, findSuitableConn,
           AssignTask, AssignRefused, ConvertFails, SendOk, SendFails, SendTimesOut,
           SendPanics, ClearAfterFailure, RequeueTask
      <4> QED  BY <4>1 DEF objects
    <3> QED  BY <3>1, <3>2
  <2>4. ASSUME NEW c \in Conn, Register(c) \/ Unregister(c) \/ RemoteWorker(c) \/ Handle(c)
        PROVE  (db[t].present => db'[t].present) /\ cancelling' \subseteq cancelling
    <3>1. CASE TaskComplete(c)
      <4>1. handler[c].task \in Task /\ cancelling' = cancelling
            /\ \E o : Write(handler[c].task, o)
        BY <3>1 DEF TaskComplete, TypeOK, ConnsOK
      <4> QED  BY <1>1, <4>1
    <3>2. CASE HandleReport(c)
      BY <3>2 DEF HandleReport
    <3>3. CASE ~TaskComplete(c) /\ ~HandleReport(c)
      <4>1. UNCHANGED objects
        BY <2>4, <3>3 DEF Register, HandleRegister, Reconnect, StoreSession,
           RegisterResponseOk, RegisterResponseFails, Unregister, RemoveConnection,
           CloseChannel, RemoteWorker, LateWrite, WorkerReceive, WorkerSwallows, WorkerIdle,
           WorkerReport, Handle, RejectReport, TaskCompleteEnqueue
      <4> QED  BY <4>1 DEF objects
    <3> QED  BY <3>1, <3>2, <3>3
  <2> QED  BY <2>1, <2>2, <2>3, <2>4 DEF Next, vars
<1>3. CASE \E u \in Task : CancelRead(u)
  <2>1. PICK u \in Task : CancelRead(u)
    BY <1>3
  <2> QED  BY <2>1 DEF CancelRead, TicketsHeld
<1> QED  BY <1>2, <1>3 DEF TicketsHeld

LEMMA TicketsAlways == Spec => []TicketsHeld
<1>1. TypeOK /\ TicketsHeld /\ [Next]_vars => TicketsHeld'
  <2> SUFFICES ASSUME TypeOK, TicketsHeld, [Next]_vars, NEW t \in Task, Pending(t)'
               PROVE  Ticket(t)'
    BY CancelsStep DEF TicketsHeld
  <2>1. CASE UNCHANGED vars
    BY <2>1, TicketElsewhere
  <2>2. CASE Next
    BY <2>2, TicketTask, TicketBucketWorker, TicketHandler, TicketElsewhere DEF Next
  <2> QED  BY <2>1, <2>2
<1> QED  BY <1>1, TicketInit, TypeInit, TypeStep, PTL DEF Spec

\* Whatever fails (links, writes, slow sends, webhooks, workers), a created
\* task whose object is pending is never dropped: some queue or goroutine
\* still has it to offer. Spec alone implies it, for any bounds.
THEOREM TicketsKept == Spec => []NoTicketLost
<1>1. TicketsHeld => NoTicketLost
  <2> SUFFICES ASSUME TicketsHeld, NEW t \in Task, db[t].present, mem[t].status = "pending"
               PROVE  Ticket(t)
    BY DEF NoTicketLost
  <2>1. Pending(t)
    BY DEF Pending
  <2> QED  BY <2>1 DEF TicketsHeld
<1> QED  BY <1>1, TicketsAlways, PTL
-----------------------------------------------------------------------------
(* NoAssignmentDropped: slow sends and lost webhooks included. A task may  *)
(* then be queued and executed at once, so custody does not hold; what     *)
(* holds is that a link carries one message at a time.                     *)

\* Tasks only meet the bucket worker of their queue.
OwnBucket ==
    \A b \in Bucket :
        /\ \A i \in DOMAIN queue[b] : TaskBucket(queue[b][i]) = b
        /\ bucket[b].pc # "pop" => TaskBucket(bucket[b].task) = b

\* Nothing is on its way to the worker of c, on it, or on its way back.
Quiet(c) == inbox[c] = <<>> /\ running[c] = NoTask /\ outbox[c] = <<>>

OneMessage(c) ==
    /\ Len(inbox[c]) <= 1 /\ Len(outbox[c]) <= 1
    /\ late[c] # NoTask => Quiet(c)
    /\ inbox[c] # <<>> => running[c] = NoTask /\ outbox[c] = <<>>
    /\ running[c] # NoTask => outbox[c] = <<>>

\* A sender that still serves holds nothing, and a free session means that the
\* worker is free too.
SenderReady(c) ==
    c \in senders => late[c] = NoTask /\ (session[c] = NoTask => Quiet(c))

\* A bucket worker that is about to send, or gave up before it sent, has the
\* session, and the link is quiet; once a send has failed, its sender is gone.
Claimed(b) ==
    /\ bucket[b].pc \in {"record", "send", "clear"} /\ bucket[b].conn \in senders
          => session[bucket[b].conn] = bucket[b].task /\ Quiet(bucket[b].conn)
    /\ bucket[b].pc = "revert" => bucket[b].conn \notin senders

Links ==
    /\ \A c \in Conn : OneMessage(c) /\ SenderReady(c)
    /\ \A b \in Bucket : Claimed(b)

\* Without lag a worker that has reported is free again.
Prompt == reported = {}

Faultless == "lag" \notin Faults /\ "reconnect" \notin Faults

-----------------------------------------------------------------------------
(* Tasks and their buckets.                                                *)

LEMMA BucketInit == Init => OwnBucket
BY DEF Init, OwnBucket

\* A push goes to the task's own bucket.
LEMMA PushOwn ==
    ASSUME TypeOK, OwnBucket, NEW u \in Task, EnqueueTask(u)
    PROVE  \A b \in Bucket : \A i \in DOMAIN queue'[b] : TaskBucket(queue'[b][i]) = b
<1>1. TaskBucket(u) \in Bucket
  BY WorkerManagerAssumption DEF TaskBucket
<1>2. PICK d \in Bucket : d = TaskBucket(u)
  BY <1>1
<1>3. queue \in [Bucket -> Seq(Task)] /\ queue' = [queue EXCEPT ![d] = Append(@, u)]
  BY <1>2 DEF TypeOK, DispatcherOK, EnqueueTask
<1> SUFFICES ASSUME NEW b \in Bucket, NEW i \in DOMAIN queue'[b]
             PROVE  TaskBucket(queue'[b][i]) = b
  OBVIOUS
<1>4. CASE b # d
  BY <1>3, <1>4 DEF OwnBucket
<1>5. CASE b = d
  <2>1. queue'[b] = Append(queue[b], u) /\ queue[b] \in Seq(Task)
    BY <1>3, <1>5
  <2>2. \/ i \in DOMAIN queue[b] /\ queue'[b][i] = queue[b][i]
        \/ queue'[b][i] = u
    BY <2>1
  <2> QED  BY <1>2, <1>5, <2>2 DEF OwnBucket
<1> QED  BY <1>4, <1>5

LEMMA BucketStays ==
    ASSUME OwnBucket, UNCHANGED <<queue, bucket>>
    PROVE  OwnBucket'
BY DEF OwnBucket

\* A bucket worker keeps its task or drops it.
LEMMA BucketMoves ==
    ASSUME TypeOK, OwnBucket, NEW b \in Bucket, bucket[b].pc # "pop",
           \A d \in Bucket \ {b} : bucket'[d] = bucket[d],
           bucket'[b].pc # "pop" => bucket'[b].task = bucket[b].task,
           \/ UNCHANGED queue
           \/ \A d \in Bucket : \A i \in DOMAIN queue'[d] : TaskBucket(queue'[d][i]) = d
    PROVE  OwnBucket'
BY DEF OwnBucket

LEMMA BucketsStep ==
    ASSUME TypeOK, OwnBucket, [Next]_vars
    PROVE  OwnBucket'
<1>1. CASE UNCHANGED dispatcher
  BY <1>1, BucketStays DEF dispatcher
<1>2. ASSUME NEW t \in Task, Api(t) \/ Finisher(t)  PROVE OwnBucket'
  <2>1. CASE CreateTask(t) \/ TaskFinish(t) \/ CancelRead(t) \/ CancelWrite(t)
    BY <2>1, BucketStays DEF CreateTask, TaskFinish, CancelRead, CancelWrite, dispatcher
  <2>2. CASE ArrivingEnqueue(t) \/ TaskFinishFails(t)
    <3>1. bucket' = bucket /\ EnqueueTask(t)
      BY <2>2 DEF ArrivingEnqueue, TaskFinishFails
    <3> QED  BY <3>1, PushOwn DEF OwnBucket
  <2> QED  BY <1>2, <2>1, <2>2 DEF Api, Finisher
<1>3. ASSUME NEW c \in Conn, Register(c) \/ Unregister(c) \/ RemoteWorker(c) \/ Handle(c)
      PROVE  OwnBucket'
  <2>1. CASE TaskCompleteEnqueue(c)
    <3>1. bucket' = bucket /\ EnqueueTask(handler[c].task) /\ handler[c].task \in Task
      BY <2>1 DEF TaskCompleteEnqueue, TypeOK, ConnsOK
    <3> QED  BY <3>1, PushOwn DEF OwnBucket
  <2> QED
    BY <1>1, <1>3, <2>1 DEF Register, HandleRegister, Reconnect, StoreSession,
       RegisterResponseOk, RegisterResponseFails, Unregister, RemoveConnection, CloseChannel,
       RemoteWorker, LateWrite, WorkerReceive, WorkerSwallows, WorkerIdle, WorkerReport,
       Handle, HandleReport, RejectReport, TaskComplete
<1>4. ASSUME NEW b \in Bucket, BucketWorker(b)  PROVE OwnBucket'
  <2>1. CASE PopTask(b)
    <3>1. /\ queue \in [Bucket -> Seq(Task)] /\ queue' = [queue EXCEPT ![b] = Tail(@)]
          /\ queue[b] # <<>> /\ bucket'[b].task = Head(queue[b])
          /\ \A d \in Bucket \ {b} : bucket'[d] = bucket[d]
      BY <2>1 DEF PopTask, TypeOK, DispatcherOK
    <3>2. 1 \in DOMAIN queue[b] /\ Head(queue[b]) = queue[b][1]
      BY <3>1
    <3>3. \A i \in DOMAIN queue'[b] : i + 1 \in DOMAIN queue[b] /\ queue'[b][i] = queue[b][i + 1]
      BY <3>1
    <3>4. \A d \in Bucket \ {b} : queue'[d] = queue[d]
      BY <3>1
    <3> QED  BY <3>1, <3>2, <3>3, <3>4 DEF OwnBucket
  <2>2. CASE findPanics(b) \/ SendPanics(b)
    BY <1>1, <2>2 DEF findPanics, SendPanics
  <2>3. ASSUME NEW pc \in BucketStep, bucket[b].pc # "pop", Goto(b, pc), queue' = queue
        PROVE  OwnBucket'
    BY <2>3, BucketMoves DEF Goto, TypeOK, DispatcherOK
  <2>4. CASE \/ findNoConn(b) \/ AssignTask(b) \/ AssignRefused(b) \/ RecordAssignment(b)
             \/ SendFails(b) \/ SendTimesOut(b) \/ RevertAssignment(b) \/ ClearAfterFailure(b)
             \/ ConvertFails(b)
    BY <2>3, <2>4 DEF findNoConn, AssignTask, AssignRefused, RecordAssignment, SendFails,
       ConvertFails,
       SendTimesOut, RevertAssignment, ClearAfterFailure, BucketAt, BucketStep
  <2>5. CASE \E c \in Conn : findSuitableConn(b, c)
    <3>1. /\ bucket[b].pc # "pop" /\ bucket'[b].task = bucket[b].task /\ queue' = queue
          /\ \A d \in Bucket \ {b} : bucket'[d] = bucket[d]
      BY <2>5 DEF findSuitableConn, BucketAt, TypeOK, DispatcherOK
    <3> QED  BY <3>1, BucketMoves
  <2>6. CASE SendOk(b) \/ RequeueTask(b)
    <3>1. /\ bucket[b].pc # "pop" /\ bucket'[b].pc = "pop"
          /\ \A d \in Bucket \ {b} : bucket'[d] = bucket[d]
      BY <2>6 DEF SendOk, RequeueTask, BucketAt, Idle, TypeOK, DispatcherOK
    <3>2. queue' = queue \/ EnqueueTask(bucket[b].task)
      BY <2>6 DEF SendOk, RequeueTask
    <3> QED  BY <3>1, <3>2, BucketMoves, PushOwn, Holding
  <2> QED  BY <1>4, <2>1, <2>2, <2>4, <2>5, <2>6 DEF BucketWorker
<1>5. CASE UNCHANGED vars
  BY <1>1, <1>5 DEF vars
<1> QED  BY <1>2, <1>3, <1>4, <1>5 DEF Next
-----------------------------------------------------------------------------
(* One message at a time.                                                  *)

LEMMA LinksInit == Init => Links
<1> SUFFICES ASSUME Init  PROVE Links
  OBVIOUS
<1>1. \A c \in Conn : late[c] = NoTask /\ Quiet(c) /\ Len(inbox[c]) = 0 /\ Len(outbox[c]) = 0
  BY DEF Init, Quiet
<1>2. \A b \in Bucket : bucket[b].pc = "pop"
  BY DEF Init
<1> QED  BY <1>1, <1>2 DEF Links, OneMessage, SenderReady, Claimed, Quiet

\* A sequence of one element, put together and taken apart.
LEMMA OnlyElement ==
    ASSUME NEW S, NEW e \in S, NEW s \in Seq(S)
    PROVE  /\ s = <<>> => /\ Append(s, e) # <<>> /\ Head(Append(s, e)) = e
                          /\ Len(Append(s, e)) = 1
           /\ s # <<>> /\ Len(s) <= 1 => Tail(s) = <<>>
           /\ s # <<>> => Head(s) \in S
           /\ Len(<<>>) = 0
<1>1. s # <<>> /\ Len(s) <= 1 => Tail(s) = <<>>
  <2> SUFFICES ASSUME s # <<>>, Len(s) <= 1  PROVE Tail(s) = <<>>
    OBVIOUS
  <2>1. Tail(s) \in Seq(S) /\ Len(Tail(s)) = 0
    <3>1. Len(s) \in Nat \ {0}
      BY EmptySeq
    <3>2. Len(Tail(s)) = Len(s) - 1
      BY HeadTailProperties
    <3>3. Len(s) = 1 /\ Len(Tail(s)) = 0
      BY <3>1, <3>2
    <3> QED  BY <3>3, HeadTailProperties
  <2> QED  BY <2>1, EmptySeq
<1>2. s = <<>> => /\ Append(s, e) # <<>> /\ Head(Append(s, e)) = e
                  /\ Len(Append(s, e)) = 1
  OBVIOUS
<1>3. (s # <<>> => Head(s) \in S) /\ Len(<<>>) = 0
  OBVIOUS
<1> QED  BY <1>1, <1>2, <1>3

\* A link that a step does not touch.
LEMMA LinkStays ==
    ASSUME NEW c \in Conn, OneMessage(c), SenderReady(c),
           late'[c] = late[c], inbox'[c] = inbox[c], running'[c] = running[c],
           outbox'[c] = outbox[c], c \in senders' => c \in senders,
           session'[c] # NoTask \/ session'[c] = session[c]
    PROVE  OneMessage(c)' /\ SenderReady(c)'
BY DEF OneMessage, SenderReady, Quiet

\* A bucket worker that a step does not touch, nor its claim.
LEMMA ClaimStays ==
    ASSUME NEW b \in Bucket, Claimed(b), bucket'[b] = bucket[b],
           senders' \subseteq senders,
           \/ bucket[b].conn \notin senders'
           \/ bucket[b].pc \notin {"record", "send", "clear"}
           \/ session'[bucket[b].conn] = session[bucket[b].conn] /\
              (Quiet(bucket[b].conn) => Quiet(bucket[b].conn)')
    PROVE  Claimed(b)'
BY DEF Claimed

\* Steps that neither touch a message nor a claim.
LEMMA LinksStay ==
    ASSUME Links, UNCHANGED <<bucket, session, senders, late, inbox, running, outbox>>
    PROVE  Links'
BY DEF Links, OneMessage, SenderReady, Claimed, Quiet

\* A bucket worker between two steps that touch no message.
LEMMA LinksBetween ==
    ASSUME Links, NEW b \in Bucket,
           UNCHANGED <<session, senders, late, inbox, running, outbox>>,
           \A d \in Bucket \ {b} : bucket'[d] = bucket[d],
           \/ bucket'[b].pc \notin {"record", "send", "revert", "clear"}
           \/ bucket'[b].pc = "send" /\ bucket[b].pc = "record" /\ bucket'[b].conn = bucket[b].conn
              /\ bucket'[b].task = bucket[b].task
           \/ bucket'[b].pc = "clear" /\ bucket[b].pc = "record" /\ bucket'[b].conn = bucket[b].conn
              /\ bucket'[b].task = bucket[b].task
           \/ bucket'[b].pc = "clear" /\ bucket[b].pc = "revert" /\ bucket'[b].conn = bucket[b].conn
    PROVE  Links'
<1>1. \A c \in Conn : OneMessage(c)' /\ SenderReady(c)'
  BY DEF Links, OneMessage, SenderReady, Quiet
<1>2. ASSUME NEW d \in Bucket \ {b}  PROVE Claimed(d)'
  <2>1. Quiet(bucket[d].conn) => Quiet(bucket[d].conn)'
    BY <1>2 DEF Quiet
  <2> QED  BY <2>1, ClaimStays DEF Links
<1>3. Claimed(b)'
  <2>1. Claimed(b)
    BY DEF Links
  <2>2. CASE bucket'[b].conn = bucket[b].conn
    <3>1. Quiet(bucket[b].conn) => Quiet(bucket[b].conn)'
      BY <2>2 DEF Quiet
    <3> QED  BY <2>1, <2>2, <3>1 DEF Claimed
  <2>3. CASE bucket'[b].conn # bucket[b].conn
    BY <2>3 DEF Claimed
  <2> QED  BY <2>2, <2>3
<1> QED  BY <1>1, <1>2, <1>3 DEF Links

\* Two bucket workers never claim the same session of a sender that serves.
LEMMA OneClaim ==
    ASSUME TypeOK, OwnBucket, Links, NEW b \in Bucket, NEW d \in Bucket,
           bucket[b].pc \in {"record", "send", "clear"},
           bucket[d].pc \in {"record", "send", "clear"},
           bucket[b].conn = bucket[d].conn, bucket[b].conn \in senders
    PROVE  b = d
<1>1. bucket[b].task = bucket[d].task
  BY DEF Links, Claimed
<1>2. TaskBucket(bucket[b].task) = b /\ TaskBucket(bucket[d].task) = d
  BY DEF OwnBucket
<1> QED  BY <1>1, <1>2

LEMMA LinksBucket ==
    ASSUME TypeOK, OwnBucket, Links, NEW b \in Bucket, BucketWorker(b)
    PROVE  Links'
<1> USE DEF BucketAt
<1>1. /\ session \in [Conn -> Task \cup {NoTask}] /\ senders \subseteq Conn
      /\ late \in [Conn -> Task \cup {NoTask}] /\ inbox \in [Conn -> Seq(Task)]
      /\ outbox \in [Conn -> Seq(Report)]
  BY DEF TypeOK, ConnsOK, RemoteOK
<1>2. ASSUME NEW pc \in BucketStep, Goto(b, pc)
      PROVE  /\ bucket'[b].pc = pc /\ bucket'[b].task = bucket[b].task
             /\ bucket'[b].conn = bucket[b].conn
             /\ \A d \in Bucket \ {b} : bucket'[d] = bucket[d]
  BY <1>2 DEF Goto, TypeOK, DispatcherOK
<1>3. CASE PopTask(b) \/ RequeueTask(b)
  <2>1. /\ \A d \in Bucket \ {b} : bucket'[d] = bucket[d]
        /\ bucket'[b].pc \in {"pop", "find"}
    BY <1>3 DEF PopTask, RequeueTask, Idle, TypeOK, DispatcherOK
  <2>2. UNCHANGED <<session, senders, late, inbox, running, outbox>>
    BY <1>3 DEF PopTask, RequeueTask, conns, remote
  <2> QED  BY <2>1, <2>2, LinksBetween
<1>4. CASE \/ findNoConn(b) \/ AssignRefused(b) \/ RecordAssignment(b) \/ RevertAssignment(b)
           \/ ConvertFails(b)
  <2>1. UNCHANGED <<session, senders, late, inbox, running, outbox>>
    BY <1>4 DEF findNoConn, AssignRefused, ConvertFails, RecordAssignment, RevertAssignment,
       conns, remote
  <2>2. \/ Goto(b, "requeue")
        \/ Goto(b, "send") /\ bucket[b].pc = "record"
        \/ Goto(b, "clear") /\ bucket[b].pc \in {"record", "revert"}
    BY <1>4 DEF findNoConn, AssignRefused, ConvertFails, RecordAssignment, RevertAssignment
  <2> QED  BY <1>2, <2>1, <2>2, LinksBetween DEF BucketStep
<1>5. CASE findPanics(b) \/ SendPanics(b)
  BY <1>5, LinksStay DEF findPanics, SendPanics, dispatcher, conns, remote
<1>6. CASE \E c \in Conn : findSuitableConn(b, c)
  <2>1. /\ \A d \in Bucket \ {b} : bucket'[d] = bucket[d]
        /\ bucket'[b].pc = "assign"
    BY <1>6 DEF findSuitableConn, TypeOK, DispatcherOK
  <2>2. UNCHANGED <<session, senders, late, inbox, running, outbox>>
    BY <1>6 DEF findSuitableConn, conns, remote
  <2> QED  BY <2>1, <2>2, LinksBetween
<1>7. CASE AssignTask(b)
  <2>1. PICK c \in Conn : c = bucket[b].conn
    BY <1>7, Holding DEF AssignTask
  <2>2. PICK t \in Task : t = bucket[b].task
    BY <1>7, Holding DEF AssignTask
  <2>3. /\ session[c] = NoTask /\ session' = [session EXCEPT ![c] = t] /\ Goto(b, "record")
        /\ UNCHANGED <<senders, late, inbox, running, outbox>>
    BY <1>7, <2>1, <2>2 DEF AssignTask, remote
  <2>4. t # NoTask
    BY WorkerManagerAssumption
  <2>5. ASSUME NEW d \in Conn  PROVE OneMessage(d)' /\ SenderReady(d)'
    <3>1. session'[d] # NoTask \/ session'[d] = session[d]
      BY <1>1, <2>3, <2>4
    <3> QED  BY <2>3, <3>1, LinkStays DEF Links
  <2>6. Claimed(b)'
    <3>1. c \in senders => session'[c] = t /\ Quiet(c)'
      BY <1>1, <2>3 DEF Links, SenderReady, Quiet
    <3>2. bucket'[b].pc = "record" /\ bucket'[b].task = t /\ bucket'[b].conn = c
      BY <1>2, <2>1, <2>2, <2>3 DEF BucketStep
    <3> QED  BY <2>3, <3>1, <3>2 DEF Claimed
  <2>7. ASSUME NEW d \in Bucket \ {b}  PROVE Claimed(d)'
    <3>1. Claimed(d) /\ bucket'[d] = bucket[d]
      BY <1>2, <2>3 DEF Links, BucketStep
    <3>2. CASE bucket[d].pc \in {"record", "send", "clear"} /\ bucket[d].conn \in senders
      <4>1. bucket[d].conn # c
        <5>1. session[bucket[d].conn] = bucket[d].task /\ bucket[d].task \in Task
          BY <3>1, <3>2, Holding DEF Claimed
        <5> QED  BY <2>3, <5>1, WorkerManagerAssumption
      <4>2. session'[bucket[d].conn] = session[bucket[d].conn]
        BY <1>1, <2>3, <3>2, <4>1
      <4>3. Quiet(bucket[d].conn) => Quiet(bucket[d].conn)'
        BY <2>3, <3>1 DEF Quiet
      <4> QED  BY <2>3, <3>1, <4>2, <4>3, ClaimStays
    <3>3. CASE ~(bucket[d].pc \in {"record", "send", "clear"} /\ bucket[d].conn \in senders)
      BY <2>3, <3>1, <3>3, ClaimStays
    <3> QED  BY <3>2, <3>3
  <2> QED  BY <2>5, <2>6, <2>7 DEF Links
<1>8. CASE SendOk(b)
  <2>1. PICK c \in Conn : c = bucket[b].conn
    BY <1>8, Holding DEF SendOk
  <2>2. PICK t \in Task : t = bucket[b].task
    BY <1>8, Holding DEF SendOk
  <2>3. /\ c \in senders /\ (inbox' = [inbox EXCEPT ![c] = Append(@, t)] \/ inbox' = inbox)
        /\ UNCHANGED <<session, senders, late, running, outbox>>
    BY <1>8, <2>1, <2>2 DEF SendOk, conns
  <2>4. /\ bucket'[b].pc = "pop" /\ bucket[b].pc = "send"
        /\ \A d \in Bucket \ {b} : bucket'[d] = bucket[d]
    BY <1>8 DEF SendOk, Idle, TypeOK, DispatcherOK
  <2>5. Quiet(c) /\ session[c] = t /\ late[c] = NoTask /\ t # NoTask
    BY <2>1, <2>2, <2>3, <2>4, WorkerManagerAssumption DEF Links, Claimed, SenderReady
  <2>6. \A d \in Conn \ {c} : inbox'[d] = inbox[d]
    BY <1>1, <2>3
  <2>7. ASSUME NEW d \in Conn  PROVE OneMessage(d)' /\ SenderReady(d)'
    <3>1. CASE d # c
      <4>1. inbox'[d] = inbox[d] /\ OneMessage(d) /\ SenderReady(d)
        BY <2>6, <3>1 DEF Links
      <4> QED  BY <2>3, <4>1, LinkStays
    <3>2. CASE d = c
      <4>1. inbox'[c] = Append(inbox[c], t) \/ inbox'[c] = inbox[c]
        BY <1>1, <2>3
      <4>2. Len(inbox'[c]) <= 1 /\ Len(outbox[c]) <= 1
        <5>1. Len(inbox[c]) <= 1 /\ Len(outbox[c]) <= 1
          BY DEF Links, OneMessage
        <5>2. Len(Append(inbox[c], t)) = 1
          BY <1>1, <2>5, OnlyElement DEF Quiet
        <5> QED  BY <4>1, <5>1, <5>2
      <4> QED  BY <2>3, <2>5, <3>2, <4>2 DEF OneMessage, SenderReady, Quiet
    <3> QED  BY <3>1, <3>2
  <2>8. ASSUME NEW d \in Bucket \ {b}  PROVE Claimed(d)'
    <3>1. Claimed(d) /\ bucket'[d] = bucket[d]
      BY <2>4 DEF Links
    <3>2. CASE bucket[d].pc \in {"record", "send", "clear"} /\ bucket[d].conn \in senders
      <4>1. bucket[d].conn # c
        BY <2>1, <2>3, <2>4, <3>2, OneClaim
      <4>2. Quiet(bucket[d].conn) => Quiet(bucket[d].conn)'
        <5>1. inbox'[bucket[d].conn] = inbox[bucket[d].conn]
          BY <1>1, <2>6, <3>2, <4>1
        <5> QED  BY <2>3, <3>1, <5>1 DEF Quiet
      <4> QED  BY <2>3, <3>1, <4>2, ClaimStays
    <3>3. CASE ~(bucket[d].pc \in {"record", "send", "clear"} /\ bucket[d].conn \in senders)
      BY <2>3, <3>1, <3>3, ClaimStays
    <3> QED  BY <3>2, <3>3
  <2>9. Claimed(b)'
    BY <2>4 DEF Claimed
  <2> QED  BY <2>7, <2>8, <2>9 DEF Links
<1>9. CASE SendFails(b) \/ SendTimesOut(b)
  <2>1. PICK c \in Conn : c = bucket[b].conn
    BY <1>9, Holding DEF SendFails, SendTimesOut
  <2>2. PICK t \in Task : t = bucket[b].task
    BY <1>9, Holding DEF SendFails, SendTimesOut
  <2>3. /\ bucket[b].pc = "send" /\ Goto(b, "revert") /\ senders' = senders \ {c}
        /\ UNCHANGED <<session, inbox, running, outbox>>
    BY <1>9, <2>1 DEF SendFails, SendTimesOut, remote
  <2>4. late' = late \/ (c \in senders /\ late' = [late EXCEPT ![c] = t])
    BY <1>9, <2>1, <2>2 DEF SendFails, SendTimesOut, remote
  <2>5. c \in senders => Quiet(c)
    BY <2>1, <2>3 DEF Links, Claimed
  <2>6. ASSUME NEW d \in Conn  PROVE OneMessage(d)' /\ SenderReady(d)'
    <3>1. CASE d # c
      <4>1. late'[d] = late[d]
        BY <1>1, <2>4, <3>1
      <4> QED  BY <2>3, <4>1, LinkStays DEF Links
    <3>2. CASE d = c
      <4>1. OneMessage(c)'
        <5>1. OneMessage(c) /\ (late'[c] = late[c] \/ Quiet(c))
          BY <2>4, <2>5 DEF Links
        <5>2. inbox'[c] = inbox[c] /\ running'[c] = running[c] /\ outbox'[c] = outbox[c]
          BY <2>3
        <5> QED  BY <5>1, <5>2 DEF OneMessage, Quiet
      <4>2. SenderReady(c)'
        BY <2>3 DEF SenderReady
      <4> QED  BY <3>2, <4>1, <4>2
    <3> QED  BY <3>1, <3>2
  <2>7. /\ bucket'[b].pc = "revert" /\ bucket'[b].conn = c
        /\ \A d \in Bucket \ {b} : bucket'[d] = bucket[d]
    BY <1>2, <2>1, <2>3 DEF BucketStep
  <2>8. Claimed(b)'
    BY <2>3, <2>7 DEF Claimed
  <2>9. ASSUME NEW d \in Bucket \ {b}  PROVE Claimed(d)'
    <3>1. Quiet(bucket[d].conn) => Quiet(bucket[d].conn)'
      BY <2>3, <2>7 DEF Quiet
    <3> QED  BY <2>3, <2>7, <3>1, ClaimStays DEF Links
  <2> QED  BY <2>6, <2>8, <2>9 DEF Links
<1>10. CASE ClearAfterFailure(b)
  <2>1. PICK c \in Conn : c = bucket[b].conn
    BY <1>10, Holding DEF ClearAfterFailure
  <2>2. /\ bucket[b].pc = "clear" /\ Goto(b, "requeue")
        /\ session' = [session EXCEPT ![c] = NoTask]
        /\ UNCHANGED <<senders, late, inbox, running, outbox>>
    BY <1>10, <2>1 DEF ClearAfterFailure, remote
  <2>3. c \in senders => Quiet(c)
    BY <2>1, <2>2 DEF Links, Claimed
  <2>4. ASSUME NEW d \in Conn  PROVE OneMessage(d)' /\ SenderReady(d)'
    <3>1. CASE d # c
      <4>1. session'[d] = session[d]
        BY <1>1, <2>2, <3>1
      <4> QED  BY <2>2, <4>1, LinkStays DEF Links
    <3>2. CASE d = c
      <4>1. /\ OneMessage(c) /\ SenderReady(c) /\ inbox'[c] = inbox[c]
            /\ running'[c] = running[c] /\ outbox'[c] = outbox[c] /\ late'[c] = late[c]
        BY <2>2 DEF Links
      <4>2. OneMessage(c)'
        BY <4>1 DEF OneMessage, Quiet
      <4>3. SenderReady(c)'
        BY <2>2, <2>3, <4>1 DEF SenderReady, Quiet
      <4> QED  BY <3>2, <4>2, <4>3
    <3> QED  BY <3>1, <3>2
  <2>5. /\ bucket'[b].pc = "requeue"
        /\ \A d \in Bucket \ {b} : bucket'[d] = bucket[d]
    BY <1>2, <2>2 DEF BucketStep
  <2>6. ASSUME NEW d \in Bucket \ {b}  PROVE Claimed(d)'
    <3>1. Claimed(d) /\ bucket'[d] = bucket[d]
      BY <2>5 DEF Links
    <3>2. CASE bucket[d].pc \in {"record", "send", "clear"} /\ bucket[d].conn \in senders
      <4>1. bucket[d].conn # c
        BY <2>1, <2>2, <3>2, OneClaim
      <4>2. session'[bucket[d].conn] = session[bucket[d].conn]
        BY <1>1, <2>2, <3>2, <4>1
      <4>3. Quiet(bucket[d].conn) => Quiet(bucket[d].conn)'
        BY <2>2, <3>1 DEF Quiet
      <4> QED  BY <2>2, <3>1, <4>2, <4>3, ClaimStays
    <3>3. CASE ~(bucket[d].pc \in {"record", "send", "clear"} /\ bucket[d].conn \in senders)
      BY <2>2, <3>1, <3>3, ClaimStays
    <3> QED  BY <3>2, <3>3
  <2>7. Claimed(b)'
    BY <2>5 DEF Claimed
  <2> QED  BY <2>4, <2>6, <2>7 DEF Links
<1> QED
  BY <1>3, <1>4, <1>5, <1>6, <1>7, <1>8, <1>9, <1>10 DEF BucketWorker

\* A step that touches one link.
LEMMA LinksAt ==
    ASSUME TypeOK, Links, NEW c \in Conn, bucket' = bucket, senders' \subseteq senders,
           \A d \in Conn \ {c} : /\ late'[d] = late[d] /\ inbox'[d] = inbox[d]
                                 /\ running'[d] = running[d] /\ outbox'[d] = outbox[d]
                                 /\ session'[d] = session[d],
           OneMessage(c)', SenderReady(c)',
           c \notin senders' \/ ~Quiet(c) \/ (session'[c] = session[c] /\ Quiet(c)')
    PROVE  Links'
<1>1. ASSUME NEW d \in Conn \ {c}  PROVE OneMessage(d)' /\ SenderReady(d)'
  BY <1>1, LinkStays DEF Links
<1>2. ASSUME NEW b \in Bucket  PROVE Claimed(b)'
  <2>1. Claimed(b) /\ bucket'[b] = bucket[b]
    BY DEF Links
  <2>2. CASE bucket[b].conn \notin senders'
    BY <2>1, <2>2, ClaimStays
  <2>3. CASE bucket[b].conn \in senders' /\ bucket[b].conn # c
    <3>1. bucket[b].conn \in Conn \ {c}
      BY <2>3 DEF TypeOK, ConnsOK
    <3>2. Quiet(bucket[b].conn) => Quiet(bucket[b].conn)'
      BY <2>1, <3>1 DEF Quiet
    <3> QED  BY <2>1, <3>1, <3>2, ClaimStays
  <2>4. CASE c \in senders' /\ bucket[b].conn = c
    <3>1. CASE Quiet(c)
      <4>1. session'[bucket[b].conn] = session[bucket[b].conn] /\ Quiet(bucket[b].conn)'
        BY <2>1, <2>4, <3>1 DEF Quiet
      <4> QED  BY <2>1, <4>1, ClaimStays
    <3>2. CASE ~Quiet(c)
      <4>1. bucket[b].pc \notin {"record", "send", "clear"}
        BY <2>1, <2>4, <3>2 DEF Claimed
      <4> QED  BY <2>1, <4>1, ClaimStays
    <3> QED  BY <3>1, <3>2
  <2> QED  BY <2>2, <2>3, <2>4
<1>3. OneMessage(c)' /\ SenderReady(c)'
  OBVIOUS
<1> QED  BY <1>1, <1>2, <1>3 DEF Links

\* What is on its way to c or from it is dropped, or its sender goes.
LEMMA LinksShrink ==
    ASSUME TypeOK, Links, NEW c \in Conn, UNCHANGED <<bucket, session, running>>,
           senders' = senders \/ senders' = senders \ {c},
           late' = late \/ late' = [late EXCEPT ![c] = NoTask],
           inbox' = inbox \/ inbox' = [inbox EXCEPT ![c] = <<>>],
           outbox' = outbox \/ outbox' = [outbox EXCEPT ![c] = <<>>]
    PROVE  Links'
<1>1. late \in [Conn -> Task \cup {NoTask}] /\ inbox \in [Conn -> Seq(Task)]
      /\ outbox \in [Conn -> Seq(Report)]
  BY DEF TypeOK, RemoteOK
<1>2. /\ late'[c] = late[c] \/ late'[c] = NoTask
      /\ inbox'[c] = inbox[c] \/ inbox'[c] = <<>>
      /\ outbox'[c] = outbox[c] \/ outbox'[c] = <<>>
      /\ running'[c] = running[c] /\ session'[c] = session[c]
  BY <1>1
<1>3. /\ senders' \subseteq senders
      /\ \A d \in Conn \ {c} : /\ late'[d] = late[d] /\ inbox'[d] = inbox[d]
                               /\ running'[d] = running[d] /\ outbox'[d] = outbox[d]
                               /\ session'[d] = session[d]
  BY <1>1
<1>4. Quiet(c) => Quiet(c)'
  BY <1>2 DEF Quiet
<1>5. Len(<<>>) = 0
  OBVIOUS
<1>6. OneMessage(c) /\ SenderReady(c)
  BY DEF Links
<1>7. OneMessage(c)'
  <2>1. Len(inbox'[c]) <= 1 /\ Len(outbox'[c]) <= 1
    BY <1>2, <1>5, <1>6 DEF OneMessage
  <2>2. late'[c] # NoTask => Quiet(c)'
    BY <1>2, <1>4, <1>6 DEF OneMessage
  <2>3. /\ inbox'[c] # <<>> => running'[c] = NoTask /\ outbox'[c] = <<>>
        /\ running'[c] # NoTask => outbox'[c] = <<>>
    BY <1>2, <1>6 DEF OneMessage
  <2> QED  BY <2>1, <2>2, <2>3 DEF OneMessage
<1>8. SenderReady(c)'
  BY <1>2, <1>3, <1>4, <1>6 DEF SenderReady
<1> QED  BY <1>2, <1>3, <1>4, <1>7, <1>8, LinksAt

LEMMA LinksConnection ==
    ASSUME TypeOK, Links, Faultless, NEW c \in Conn, Register(c) \/ Unregister(c)
    PROVE  Links'
<1>1. CASE HandleRegister(c) \/ StoreSession(c) \/ RegisterResponseOk(c)
  BY <1>1, LinksStay DEF HandleRegister, StoreSession, RegisterResponseOk, dispatcher, remote
<1>2. CASE RegisterResponseFails(c) \/ CloseChannel(c)
  BY <1>2, LinksShrink DEF RegisterResponseFails, CloseChannel, dispatcher
<1>3. CASE RemoveConnection(c)
  BY <1>3, LinksShrink DEF RemoveConnection, dispatcher
<1> QED  BY <1>1, <1>2, <1>3 DEF Register, Unregister, Reconnect, Faultless

LEMMA LinksHandler ==
    ASSUME TypeOK, Links, NEW c \in Conn, Handle(c)
    PROVE  Links'
<1>1. /\ outbox \in [Conn -> Seq(Report)] /\ session \in [Conn -> Task \cup {NoTask}]
      /\ OneMessage(c) /\ SenderReady(c)
  BY DEF TypeOK, RemoteOK, ConnsOK, Links
<1>2. ASSUME outbox[c] # <<>>, outbox' = [outbox EXCEPT ![c] = Tail(@)]
      PROVE  outbox' = [outbox EXCEPT ![c] = <<>>] /\ outbox'[c] = <<>>
  <2>1. Tail(outbox[c]) = <<>>
    <3>1. Head(outbox[c]) \in Report
      BY <1>1, <1>2
    <3> QED  BY <1>1, <1>2, <3>1, OnlyElement DEF OneMessage
  <2> QED  BY <1>1, <1>2, <2>1
<1>3. CASE HandleReport(c)
  <2>1. /\ outbox[c] # <<>> /\ outbox' = [outbox EXCEPT ![c] = Tail(@)]
        /\ session' = [session EXCEPT ![c] = NoTask]
        /\ UNCHANGED <<bucket, senders, late, inbox, running>>
    BY <1>3 DEF HandleReport, dispatcher
  <2>2. inbox'[c] = <<>> /\ running'[c] = NoTask /\ outbox'[c] = <<>>
    BY <1>1, <1>2, <2>1 DEF OneMessage
  <2>3. Quiet(c)' /\ ~Quiet(c)
    BY <2>1, <2>2 DEF Quiet
  <2>4. OneMessage(c)'
    <3>1. Len(<<>>) = 0
      OBVIOUS
    <3> QED  BY <2>2, <2>3, <3>1 DEF OneMessage
  <2>5. SenderReady(c)'
    BY <1>1, <2>1, <2>3 DEF SenderReady
  <2>6. \A d \in Conn \ {c} : outbox'[d] = outbox[d] /\ session'[d] = session[d]
    BY <1>1, <2>1
  <2> QED  BY <2>1, <2>3, <2>4, <2>5, <2>6, LinksAt
<1>4. CASE RejectReport(c)
  BY <1>2, <1>4, LinksShrink DEF RejectReport, dispatcher, conns
<1>5. CASE TaskComplete(c) \/ TaskCompleteEnqueue(c)
  BY <1>5, LinksStay DEF TaskComplete, TaskCompleteEnqueue, dispatcher, remote
<1> QED  BY <1>3, <1>4, <1>5 DEF Handle

LEMMA LinksWorker ==
    ASSUME TypeOK, Links, Prompt, Faultless, NEW c \in Conn, RemoteWorker(c)
    PROVE  Links'
<1>1. /\ late \in [Conn -> Task \cup {NoTask}] /\ inbox \in [Conn -> Seq(Task)]
      /\ running \in [Conn -> Task \cup {NoTask}] /\ outbox \in [Conn -> Seq(Report)]
      /\ OneMessage(c) /\ SenderReady(c)
  BY DEF TypeOK, RemoteOK, Links
<1>2. Len(<<>>) = 0
  OBVIOUS
<1>3. CASE LateWrite(c)
  <2>1. PICK t \in Task : t = late[c]
    BY <1>1, <1>3 DEF LateWrite
  <2>2. /\ t # NoTask
        /\ inbox' = [inbox EXCEPT ![c] = Append(@, t)]
        /\ late' = [late EXCEPT ![c] = NoTask]
        /\ UNCHANGED <<bucket, session, senders, running, outbox>>
    BY <1>3, <2>1 DEF LateWrite, dispatcher, conns
  <2>3. Quiet(c) /\ c \notin senders
    BY <1>1, <2>1, <2>2 DEF OneMessage, SenderReady
  <2>4. inbox'[c] = Append(inbox[c], t) /\ late'[c] = NoTask
    BY <1>1, <2>2
  <2>5. Len(inbox'[c]) = 1
    BY <1>1, <2>3, <2>4, OnlyElement DEF Quiet
  <2>6. OneMessage(c)'
    BY <1>2, <2>2, <2>3, <2>4, <2>5 DEF OneMessage, Quiet
  <2>7. SenderReady(c)'
    BY <2>2, <2>3 DEF SenderReady
  <2>8. \A d \in Conn \ {c} : inbox'[d] = inbox[d] /\ late'[d] = late[d]
    BY <1>1, <2>2
  <2> QED  BY <2>2, <2>3, <2>6, <2>7, <2>8, LinksAt
<1>4. CASE WorkerReceive(c)
  <2>1. /\ inbox[c] # <<>>
        /\ inbox' = [inbox EXCEPT ![c] = Tail(@)]
        /\ UNCHANGED <<bucket, session, senders, late, outbox>>
    BY <1>4 DEF WorkerReceive, dispatcher, conns
  <2>2. Head(inbox[c]) \in Task /\ inbox'[c] = <<>>
    <3>1. Head(inbox[c]) \in Task
      BY <1>1, <2>1
    <3>2. Tail(inbox[c]) = <<>>
      BY <1>1, <2>1, <3>1, OnlyElement DEF OneMessage
    <3> QED  BY <1>1, <2>1, <3>1, <3>2
  <2>3. ~Quiet(c) /\ late[c] = NoTask /\ outbox[c] = <<>>
    BY <1>1, <2>1 DEF OneMessage, Quiet
  <2>4. OneMessage(c)'
    <3>1. Len(inbox'[c]) <= 1 /\ Len(outbox'[c]) <= 1
      BY <1>1, <2>1, <2>2 DEF OneMessage
    <3>2. late'[c] = NoTask /\ inbox'[c] = <<>> /\ outbox'[c] = <<>>
      BY <2>1, <2>2, <2>3
    <3> QED  BY <3>1, <3>2 DEF OneMessage
  <2>5. SenderReady(c)'
    BY <1>1, <2>1, <2>3 DEF SenderReady
  <2>6. \A d \in Conn \ {c} : inbox'[d] = inbox[d] /\ running'[d] = running[d]
    BY <1>1, <1>4 DEF WorkerReceive
  <2> QED  BY <2>1, <2>3, <2>4, <2>5, <2>6, LinksAt
<1>5. ASSUME NEW failed \in BOOLEAN, WorkerReport(c, failed)  PROVE Links'
  <2>1. PICK t \in Task : t = running[c]
    BY <1>1, <1>5 DEF WorkerReport
  <2>2. /\ running[c] # NoTask
        /\ running' = [running EXCEPT ![c] = NoTask]
        /\ UNCHANGED <<bucket, session, senders, late, inbox>>
    BY <1>5 DEF WorkerReport, Faultless, dispatcher, conns
  <2>3. PICK r \in Report :
            outbox' = outbox \/ outbox' = [outbox EXCEPT ![c] = Append(@, r)]
    <3>1. [task |-> t, failed |-> failed] \in Report
      BY DEF Report
    <3>2. outbox' = outbox \/ outbox' = [outbox EXCEPT ![c] =
                                  Append(@, [task |-> t, failed |-> failed])]
      BY <1>5, <2>1 DEF WorkerReport
    <3> QED  BY <3>1, <3>2
  <2>4. ~Quiet(c) /\ late[c] = NoTask /\ inbox[c] = <<>> /\ outbox[c] = <<>>
    BY <1>1, <2>2 DEF OneMessage, Quiet
  <2>5. Len(outbox'[c]) <= 1
    <3>1. outbox'[c] = outbox[c] \/ outbox'[c] = Append(outbox[c], r)
      BY <1>1, <2>3
    <3>2. Len(Append(outbox[c], r)) = 1
      BY <1>1, <2>4, OnlyElement
    <3>3. Len(outbox[c]) <= 1
      BY <1>1 DEF OneMessage
    <3> QED  BY <3>1, <3>2, <3>3
  <2>6. running'[c] = NoTask
    BY <1>1, <2>2
  <2>7. OneMessage(c)'
    BY <1>2, <2>2, <2>4, <2>5, <2>6 DEF OneMessage, Quiet
  <2>8. SenderReady(c)'
    BY <1>1, <2>2, <2>4 DEF SenderReady
  <2>9. \A d \in Conn \ {c} : running'[d] = running[d] /\ outbox'[d] = outbox[d]
    BY <1>1, <2>2, <2>3
  <2> QED  BY <2>2, <2>4, <2>7, <2>8, <2>9, LinksAt
<1>6. ~WorkerIdle(c)
  BY DEF WorkerIdle, Prompt
<1>7. CASE WorkerSwallows(c)
  <2>1. /\ running[c] # NoTask /\ running' = [running EXCEPT ![c] = NoTask]
        /\ UNCHANGED <<bucket, session, senders, late, inbox, outbox>>
    BY <1>7 DEF WorkerSwallows, dispatcher, conns
  <2>2. /\ ~Quiet(c) /\ late[c] = NoTask /\ inbox[c] = <<>> /\ outbox[c] = <<>>
        /\ running'[c] = NoTask
    BY <1>1, <2>1 DEF OneMessage, Quiet
  <2>3. OneMessage(c)' /\ SenderReady(c)'
    BY <1>1, <2>1, <2>2 DEF OneMessage, SenderReady, Quiet
  <2>4. \A d \in Conn \ {c} : running'[d] = running[d]
    BY <1>1, <2>1
  <2> QED  BY <2>1, <2>2, <2>3, <2>4, LinksAt
<1> QED  BY <1>3, <1>4, <1>5, <1>6, <1>7 DEF RemoteWorker

LEMMA LinksStep ==
    ASSUME TypeOK, OwnBucket, Links, Prompt, Faultless, [Next]_vars
    PROVE  Links'
<1>1. CASE UNCHANGED vars
  BY <1>1, LinksStay DEF vars, dispatcher, conns, remote
<1>2. ASSUME NEW t \in Task, Api(t) \/ Finisher(t)  PROVE Links'
  BY <1>2, LinksStay
  DEF Api, Finisher, CreateTask, ArrivingEnqueue, CancelRead, CancelWrite, TaskFinish,
      TaskFinishFails, dispatcher, conns, remote
<1> QED
  BY <1>1, <1>2, LinksBucket, LinksConnection, LinksHandler, LinksWorker DEF Next

\* Only a lagging worker, or one that comes back, is between report and idle.
LEMMA PromptStep ==
    ASSUME Prompt, Faultless, [Next]_vars
    PROVE  Prompt'
<1>1. CASE UNCHANGED reported
  BY <1>1 DEF Prompt
<1>2. ASSUME NEW t \in Task, Api(t) \/ Finisher(t)  PROVE UNCHANGED reported
  BY <1>2 DEF Api, Finisher, CreateTask, ArrivingEnqueue, CancelRead, CancelWrite, TaskFinish,
     TaskFinishFails, remote
<1>3. ASSUME NEW b \in Bucket, BucketWorker(b)  PROVE UNCHANGED reported
  BY <1>3 DEF BucketWorker, PopTask, findNoConn, findPanics, findSuitableConn, AssignTask,
     AssignRefused, ConvertFails, RecordAssignment, SendOk, SendFails, SendTimesOut,
     SendPanics, RevertAssignment, ClearAfterFailure, RequeueTask, remote
<1>4. ASSUME NEW c \in Conn, Register(c) \/ Unregister(c) \/ Handle(c)
      PROVE  UNCHANGED reported
  BY <1>4 DEF Faultless, Register, HandleRegister, Reconnect, StoreSession,
     RegisterResponseOk, RegisterResponseFails, Unregister, RemoveConnection, CloseChannel,
     Handle, HandleReport, RejectReport, TaskComplete, TaskCompleteEnqueue, remote
<1>5. ASSUME NEW c \in Conn, RemoteWorker(c)  PROVE UNCHANGED reported
  BY <1>5 DEF Prompt, Faultless, RemoteWorker, LateWrite, WorkerReceive, WorkerSwallows,
     WorkerIdle, WorkerReport
<1> QED  BY <1>1, <1>2, <1>3, <1>4, <1>5 DEF Next, vars, remote

LEMMA LinksAlways ==
    ASSUME Faultless
    PROVE  Spec => [](TypeOK /\ Links /\ Prompt)
<1> DEFINE Inv == OwnBucket /\ Links /\ Prompt
<1>1. Init => Inv
  BY BucketInit, LinksInit DEF Init, Prompt
<1>2. TypeOK /\ Inv /\ [Next]_vars => Inv'
  BY BucketsStep, LinksStep, PromptStep
<1> QED  BY <1>1, <1>2, TypeInit, TypeStep, PTL DEF Spec

\* No worker ever finds an assignment while it is busy, where it would drop it
\* with a warning (WorkerReceive): the session is free only when the worker is,
\* even if SendPayload gave up on a message that is written later. This is what
\* WorkerSession.AssignTask is for. Two faults break it, and only they: a worker
\* that reports before it is idle (lag), and one that comes back busy (reconnect).
THEOREM NoAssignmentDropped ==
    ASSUME "lag" \notin Faults, "reconnect" \notin Faults
    PROVE  Spec => [](\A c \in Conn : inbox[c] # <<>> => running[c] = NoTask)
<1>1. Links => \A c \in Conn : inbox[c] # <<>> => running[c] = NoTask
  BY DEF Links, OneMessage
<1>2. Faultless
  BY DEF Faultless
<1> QED  BY <1>1, <1>2, LinksAlways, PTL

-----------------------------------------------------------------------------
(* OrphansAreExplained: where the execution of a task is, whatever goes    *)
(* wrong with sends, links, webhooks and workers.                          *)

\* Without cancels a document knows the worker of its object.
OwnerKnown ==
    /\ cancelling = {}
    /\ \A t \in Task : db[t].worker = mem[t].worker

\* A worker that has reported and is not idle yet still has its current_task.
Busy == \A c \in reported : running[c] # NoTask

\* No bucket worker picked a connection that has not registered, and nothing
\* was written to it.
Fresh(c) ==
    life[c] = "new" =>
        /\ c \notin connections
        /\ late[c] = NoTask /\ inbox[c] = <<>> /\ running[c] = NoTask
        /\ \A b \in Bucket :
              bucket[b].pc \in {"assign", "record", "send", "revert", "clear"}
                  => bucket[b].conn # c

\* A bucket worker is sending t to c, or backing out of it.
Sending(t, c) ==
    \E b \in Bucket : /\ bucket[b].pc \in {"send", "revert"}
                      /\ bucket[b].task = t /\ bucket[b].conn = c

\* The worker of c is to execute t, executes it, or has reported on it.
AtWorker(t, c) ==
    \/ \E i \in DOMAIN inbox[c] : inbox[c][i] = t
    \/ running[c] = t /\ c \notin reported
    \/ \E i \in DOMAIN outbox[c] : outbox[c][i].task = t
    \/ handler[c].pc = "settle" /\ handler[c].task = t

\* Where the execution of t on c is, or why it is nowhere.
Located(t, c) ==
    \/ Sending(t, c) \/ AtWorker(t, c)
    \/ life[c] \in Gone \/ <<t, c>> \in silent

\* The worker of a processing task has it or will get it, or that is explained.
Followed(t) ==
    mem[t].status = "processing" => mem[t].worker \in Conn /\ Located(t, mem[t].worker)

\* A completed task has a webhook to post.
Posted(t) == mem[t].status = "completed" => finishers[t] > 0

Whereabouts == \A t \in Task : Followed(t) /\ Posted(t)

LEMMA OwnerInit == Init => OwnerKnown
BY DEF Init, OwnerKnown, NewTask

LEMMA WriteKnown ==
    ASSUME TypeOK, OwnerKnown, NEW t \in Task, NEW o, Write(t, o), cancelling' = cancelling
    PROVE  OwnerKnown'
<1>1. mem'[t] = o /\ db'[t].worker = o.worker
  BY DEF Write, Stored, TypeOK, ObjectsOK
<1>2. \A u \in Task \ {t} : mem'[u] = mem[u] /\ db'[u] = db[u]
  BY DEF Write, TypeOK, ObjectsOK
<1> QED  BY <1>1, <1>2 DEF OwnerKnown

\* What the objects say changes in a Write, or keeps its worker.
LEMMA OwnerStep ==
    ASSUME TypeOK, OwnerKnown, CancelTasks = {}, [Next]_vars
    PROVE  OwnerKnown'
<1>1. CASE UNCHANGED objects
  BY <1>1 DEF objects, OwnerKnown
<1>2. ASSUME NEW t \in Task, CreateTask(t)  PROVE OwnerKnown'
  BY <1>2 DEF CreateTask, Stored, OwnerKnown, TypeOK, ObjectsOK
<1>3. ASSUME NEW t \in Task, TaskFinish(t)  PROVE OwnerKnown'
  BY <1>3, WriteKnown DEF TaskFinish
<1>4. ASSUME NEW t \in Task, TaskFinishFails(t)  PROVE OwnerKnown'
  <2>1. /\ db' = db /\ cancelling' = cancelling
        /\ \A u \in Task : mem'[u].worker = mem[u].worker
    BY <1>4 DEF TaskFinishFails, TypeOK, ObjectsOK, TaskObject
  <2> QED  BY <2>1 DEF OwnerKnown
<1>5. ASSUME NEW b \in Bucket, RecordAssignment(b) \/ RevertAssignment(b)
      PROVE  OwnerKnown'
  <2>1. /\ bucket[b].task \in Task /\ cancelling' = cancelling
        /\ \E o : Write(bucket[b].task, o)
    BY <1>5, Holding DEF RecordAssignment, RevertAssignment, BucketAt
  <2> QED  BY <2>1, WriteKnown
<1>6. ASSUME NEW c \in Conn, HandleReport(c)  PROVE OwnerKnown'
  <2>1. PICK r \in Report : mem' = [mem EXCEPT ![r.task] = [@ EXCEPT !.failed = r.failed]]
    <3>1. Head(outbox[c]) \in Report
      BY <1>6 DEF HandleReport, TypeOK, RemoteOK
    <3>2. mem' = [mem EXCEPT ![Head(outbox[c]).task] =
                                 [@ EXCEPT !.failed = Head(outbox[c]).failed]]
      BY <1>6 DEF HandleReport
    <3> QED  BY <3>1, <3>2
  <2>2. /\ db' = db /\ cancelling' = cancelling
        /\ \A u \in Task : mem'[u].worker = mem[u].worker
    BY <1>6, <2>1 DEF HandleReport, TypeOK, ObjectsOK, TaskObject, Report
  <2> QED  BY <2>2 DEF OwnerKnown
<1>7. ASSUME NEW c \in Conn, TaskComplete(c)  PROVE OwnerKnown'
  <2>1. /\ handler[c].task \in Task /\ cancelling' = cancelling
        /\ \E o : Write(handler[c].task, o)
    BY <1>7 DEF TaskComplete, TypeOK, ConnsOK
  <2> QED  BY <2>1, WriteKnown
<1>8. CASE UNCHANGED vars
  BY <1>1, <1>8 DEF vars
<1>9. CASE Next
  <2>1. ASSUME NEW t \in Task, Api(t) \/ Finisher(t)  PROVE OwnerKnown'
    <3>1. ~CancelRead(t) /\ ~CancelWrite(t)
      BY DEF CancelRead, CancelWrite, OwnerKnown
    <3> QED  BY <1>1, <1>2, <1>3, <1>4, <2>1, <3>1 DEF Api, Finisher, ArrivingEnqueue
  <2>2. ASSUME NEW b \in Bucket, BucketWorker(b)  PROVE OwnerKnown'
    BY <1>1, <1>5, <2>2 DEF BucketWorker, PopTask, findNoConn, findPanics, findSuitableConn,
       AssignTask, AssignRefused, ConvertFails, SendOk, SendFails, SendTimesOut, SendPanics,
       ClearAfterFailure, RequeueTask
  <2>3. ASSUME NEW c \in Conn, Register(c) \/ Unregister(c) \/ RemoteWorker(c)
        PROVE  OwnerKnown'
    BY <1>1, <2>3 DEF Register, HandleRegister, Reconnect, StoreSession, RegisterResponseOk,
       RegisterResponseFails, Unregister, RemoveConnection, CloseChannel,
       RemoteWorker, LateWrite, WorkerReceive, WorkerSwallows, WorkerIdle, WorkerReport
  <2>4. ASSUME NEW c \in Conn, Handle(c)  PROVE OwnerKnown'
    BY <1>1, <1>6, <1>7, <2>4 DEF Handle, RejectReport, TaskCompleteEnqueue
  <2> QED  BY <1>9, <2>1, <2>2, <2>3, <2>4 DEF Next
<1> QED  BY <1>8, <1>9

\* Registering takes a connection out of the fresh ones, for good.
LEMMA FreshStep ==
    ASSUME TypeOK, Busy, \A c \in Conn : Fresh(c), [Next]_vars
    PROVE  Busy' /\ \A c \in Conn : Fresh(c)'
<1> USE DEF BucketAt
<1>1. /\ life \in [Conn -> LifeStep] /\ connections \subseteq Conn /\ reported \subseteq Conn
      /\ late \in [Conn -> Task \cup {NoTask}] /\ inbox \in [Conn -> Seq(Task)]
      /\ running \in [Conn -> Task \cup {NoTask}]
  BY DEF TypeOK, ConnsOK, RemoteOK
<1>2. CASE UNCHANGED <<connections, life, late, inbox, running, reported, bucket>>
  BY <1>2 DEF Busy, Fresh
<1>3. ASSUME NEW t \in Task, Api(t) \/ Finisher(t)
      PROVE  UNCHANGED <<connections, life, late, inbox, running, reported, bucket>>
  BY <1>3 DEF Api, Finisher, CreateTask, ArrivingEnqueue, CancelRead, CancelWrite, TaskFinish,
     TaskFinishFails, dispatcher, conns, remote
<1>4. ASSUME NEW e \in Conn, Handle(e)
      PROVE  UNCHANGED <<connections, life, late, inbox, running, reported, bucket>>
  BY <1>4 DEF Handle, HandleReport, RejectReport, TaskComplete, TaskCompleteEnqueue,
     dispatcher, conns, remote
<1>5. ASSUME NEW b \in Bucket, BucketWorker(b)
      PROVE  Busy' /\ \A c \in Conn : Fresh(c)'
  <2>1. UNCHANGED <<connections, life, running, reported>>
    BY <1>5 DEF BucketWorker, PopTask, findNoConn, findPanics, findSuitableConn, AssignTask,
       AssignRefused, ConvertFails, RecordAssignment, SendOk, SendFails, SendTimesOut,
       SendPanics, RevertAssignment, ClearAfterFailure, RequeueTask, conns, remote
  <2>2. ASSUME NEW c \in Conn, life'[c] = "new"  PROVE Fresh(c)'
    <3>1. life[c] = "new" /\ Fresh(c)
      BY <2>1, <2>2
    <3>2. /\ \A d \in Bucket \ {b} : bucket'[d] = bucket[d]
          /\ \/ bucket'[b].pc \in {"pop", "find", "requeue"}
             \/ /\ bucket[b].pc \in {"assign", "record", "send", "revert", "clear"}
                /\ bucket'[b].conn = bucket[b].conn
             \/ bucket'[b].conn \in connections
             \/ bucket' = bucket
      <4>1. CASE findPanics(b) \/ SendPanics(b)
        BY <4>1 DEF findPanics, SendPanics, dispatcher
      <4>2. CASE PopTask(b) \/ SendOk(b) \/ RequeueTask(b)
        BY <4>2 DEF PopTask, SendOk, RequeueTask, Idle, TypeOK, DispatcherOK
      <4>3. ASSUME NEW pc \in BucketStep, Goto(b, pc),
                   \/ pc = "requeue"
                   \/ bucket[b].pc \in {"assign", "record", "send", "revert", "clear"}
            PROVE  /\ \A d \in Bucket \ {b} : bucket'[d] = bucket[d]
                   /\ \/ bucket'[b].pc = "requeue"
                      \/ /\ bucket[b].pc \in {"assign", "record", "send", "revert", "clear"}
                         /\ bucket'[b].conn = bucket[b].conn
        BY <4>3 DEF Goto, TypeOK, DispatcherOK
      <4>4. CASE \/ findNoConn(b) \/ AssignTask(b) \/ AssignRefused(b) \/ ConvertFails(b)
                 \/ RecordAssignment(b) \/ SendFails(b) \/ SendTimesOut(b)
                 \/ RevertAssignment(b) \/ ClearAfterFailure(b)
        BY <4>3, <4>4 DEF findNoConn, AssignTask, AssignRefused, ConvertFails,
           RecordAssignment, SendFails, SendTimesOut, RevertAssignment, ClearAfterFailure,
           BucketStep
      <4>5. CASE \E d \in Conn : findSuitableConn(b, d)
        BY <4>5 DEF findSuitableConn, TypeOK, DispatcherOK
      <4> QED  BY <1>5, <4>1, <4>2, <4>4, <4>5 DEF BucketWorker
    <3>3. late'[c] = late[c] /\ inbox'[c] = inbox[c]
      <4>1. CASE SendOk(b) \/ SendTimesOut(b)
        <5>1. bucket[b].pc = "send" /\ bucket[b].conn # c
          BY <3>1, <4>1 DEF SendOk, SendTimesOut, Fresh
        <5> QED  BY <1>1, <4>1, <5>1 DEF SendOk, SendTimesOut
      <4>2. CASE ~SendOk(b) /\ ~SendTimesOut(b)
        BY <1>5, <4>2 DEF BucketWorker, PopTask, findNoConn, findPanics, findSuitableConn,
           AssignTask, AssignRefused, ConvertFails, RecordAssignment, SendFails, SendPanics,
           RevertAssignment, ClearAfterFailure, RequeueTask, remote
      <4> QED  BY <4>1, <4>2
    <3>4. ASSUME NEW d \in Bucket,
                 bucket'[d].pc \in {"assign", "record", "send", "revert", "clear"}
          PROVE  bucket'[d].conn # c
      BY <3>1, <3>2, <3>4 DEF Fresh
    <3> QED  BY <2>1, <3>1, <3>3, <3>4 DEF Fresh
  <2> QED  BY <2>1, <2>2 DEF Busy, Fresh
<1>6. ASSUME NEW e \in Conn, Register(e) \/ Unregister(e)
      PROVE  Busy' /\ \A c \in Conn : Fresh(c)'
  <2>1. bucket' = bucket
    BY <1>6 DEF Register, HandleRegister, Reconnect, StoreSession, RegisterResponseOk,
       RegisterResponseFails, Unregister, RemoveConnection, CloseChannel, dispatcher
  <2>2. life'[e] # "new" /\ \A c \in Conn \ {e} : life'[c] = life[c]
    BY <1>1, <1>6 DEF Register, HandleRegister, Reconnect, StoreSession, RegisterResponseOk,
       RegisterResponseFails, Unregister, RemoveConnection, CloseChannel
  <2>3. ASSUME NEW c \in Conn \ {e}
        PROVE  /\ late'[c] = late[c] /\ inbox'[c] \in {inbox[c], <<>>}
               /\ running'[c] \in {running[c], NoTask}
               /\ c \in connections' => c \in connections
    BY <1>1, <1>6 DEF Register, HandleRegister, Reconnect, StoreSession, RegisterResponseOk,
       RegisterResponseFails, Unregister, RemoveConnection, CloseChannel, remote
  <2>4. \A c \in Conn : Fresh(c)'
    BY <2>1, <2>2, <2>3 DEF Fresh
  <2>5. Busy'
    <3>1. ASSUME NEW d \in Conn, Reconnect(e, d)  PROVE Busy'
      BY <1>1, <3>1 DEF Reconnect, Busy, Gone
    <3>2. CASE UNCHANGED <<running, reported>>
      BY <3>2 DEF Busy
    <3> QED
      BY <1>6, <3>1, <3>2 DEF Register, HandleRegister, StoreSession, RegisterResponseOk,
         RegisterResponseFails, Unregister, RemoveConnection, CloseChannel, remote
  <2> QED  BY <2>4, <2>5
<1>7. ASSUME NEW e \in Conn, RemoteWorker(e)
      PROVE  Busy' /\ \A c \in Conn : Fresh(c)'
  <2>1. UNCHANGED <<connections, life, bucket>>
    BY <1>7 DEF RemoteWorker, LateWrite, WorkerReceive, WorkerSwallows, WorkerIdle,
       WorkerReport, dispatcher, conns
  <2>2. ASSUME NEW c \in Conn, life[c] = "new"
        PROVE  late'[c] = NoTask /\ inbox'[c] = <<>> /\ running'[c] = NoTask
    <3>1. late[c] = NoTask /\ inbox[c] = <<>> /\ running[c] = NoTask
      BY <2>2 DEF Fresh
    <3> QED
      BY <1>1, <1>7, <3>1 DEF RemoteWorker, LateWrite, WorkerReceive, WorkerSwallows,
         WorkerIdle, WorkerReport
  <2>3. Busy'
    <3>1. CASE LateWrite(e) \/ WorkerReceive(e)
      BY <1>1, <3>1 DEF LateWrite, WorkerReceive, Busy
    <3>2. CASE WorkerSwallows(e) \/ WorkerIdle(e)
      BY <1>1, <3>2 DEF WorkerSwallows, WorkerIdle, Busy
    <3>3. ASSUME NEW failed \in BOOLEAN, WorkerReport(e, failed)  PROVE Busy'
      BY <1>1, <3>3 DEF WorkerReport, Busy
    <3> QED  BY <1>7, <3>1, <3>2, <3>3 DEF RemoteWorker
  <2> QED  BY <2>1, <2>2, <2>3 DEF Fresh
<1>8. CASE UNCHANGED vars
  BY <1>2, <1>8 DEF vars, dispatcher, conns, remote
<1> QED  BY <1>2, <1>3, <1>4, <1>5, <1>6, <1>7, <1>8 DEF Next

LEMMA WhereInit == Init => Whereabouts
BY DEF Init, NewTask, Whereabouts, Followed, Posted

\* A sequence keeps its elements when one is appended,
LEMMA AppendKeeps ==
    ASSUME NEW S, NEW s \in Seq(S), NEW e \in S
    PROVE  /\ \A i \in DOMAIN s : i \in DOMAIN Append(s, e) /\ Append(s, e)[i] = s[i]
           /\ \E i \in DOMAIN Append(s, e) : Append(s, e)[i] = e
<1>1. \A i \in DOMAIN s : i \in DOMAIN Append(s, e) /\ Append(s, e)[i] = s[i]
  OBVIOUS
<1>2. Len(s) + 1 \in DOMAIN Append(s, e) /\ Append(s, e)[Len(s) + 1] = e
  OBVIOUS
<1> QED  BY <1>1, <1>2

\* and all but its head when the head is taken.
LEMMA TailKeeps ==
    ASSUME NEW S, NEW s \in Seq(S), s # <<>>, NEW i \in DOMAIN s
    PROVE  s[i] = Head(s) \/ \E j \in DOMAIN Tail(s) : Tail(s)[j] = s[i]
<1>1. CASE i = 1
  BY <1>1
<1>2. CASE i # 1
  <2>1. i - 1 \in DOMAIN Tail(s) /\ Tail(s)[i - 1] = s[i]
    BY <1>2
  <2> QED  BY <2>1
<1> QED  BY <1>1, <1>2

\* Lost links stay lost.
LEMMA GoneStays ==
    ASSUME TypeOK, NEW d \in Conn, Register(d) \/ Unregister(d),
           NEW c \in Conn, life[c] \in Gone
    PROVE  life'[c] \in Gone
<1>1. life \in [Conn -> LifeStep]
  BY DEF TypeOK, ConnsOK
<1>2. PICK l \in LifeStep : /\ life' = [life EXCEPT ![d] = l]
                            /\ life[d] \in Gone => l \in Gone
  BY DEF Register, HandleRegister, Reconnect, StoreSession, RegisterResponseOk,
     RegisterResponseFails, Unregister, RemoveConnection, CloseChannel, LifeStep, Gone
<1> QED  BY <1>1, <1>2

\* A processing task is followed to where it goes.
LEMMA FollowedTo ==
    ASSUME NEW t \in Task, NEW c \in Conn, mem'[t].worker = c, Located(t, c)'
    PROVE  Followed(t)'
BY DEF Followed, Located, Sending, AtWorker

LEMMA FollowedKept ==
    ASSUME NEW t \in Task, Followed(t),
           mem'[t].status = mem[t].status, mem'[t].worker = mem[t].worker,
           \A c \in Conn : mem[t].worker = c /\ Located(t, c) => Located(t, c)'
    PROVE  Followed(t)'
<1>1. CASE mem[t].status # "processing"
  BY <1>1 DEF Followed
<1>2. CASE mem[t].status = "processing"
  <2>1. PICK c \in Conn : c = mem[t].worker
    BY <1>2 DEF Followed
  <2>2. Located(t, c)
    BY <1>2, <2>1 DEF Followed
  <2>3. mem'[t].worker = c /\ Located(t, c)'
    BY <2>1, <2>2
  <2> QED  BY <2>3, FollowedTo
<1> QED  BY <1>1, <1>2

\* The objects keep their status and worker, the webhooks stay posted.
LEMMA WhereKept ==
    ASSUME Whereabouts, finishers' = finishers,
           \A t \in Task : /\ mem'[t].status = mem[t].status
                           /\ mem'[t].worker = mem[t].worker,
           \A t \in Task : \A c \in Conn :
               mem[t].worker = c /\ Located(t, c) => Located(t, c)'
    PROVE  Whereabouts'
<1> SUFFICES ASSUME NEW t \in Task  PROVE Followed(t)' /\ Posted(t)'
  BY DEF Whereabouts
<1>1. Followed(t)'
  BY FollowedKept DEF Whereabouts
<1>2. Posted(t)'
  BY DEF Whereabouts, Posted
<1> QED  BY <1>1, <1>2

\* One object is written; the others are where they were.
LEMMA WhereWritten ==
    ASSUME Whereabouts, NEW u \in Task, Followed(u)', Posted(u)',
           \A t \in Task \ {u} : mem'[t] = mem[t] /\ finishers'[t] = finishers[t],
           \A t \in Task \ {u} : \A c \in Conn : Located(t, c) => Located(t, c)'
    PROVE  Whereabouts'
<1> SUFFICES ASSUME NEW t \in Task \ {u}  PROVE Followed(t)' /\ Posted(t)'
  BY DEF Whereabouts
<1>1. Followed(t)'
  BY FollowedKept DEF Whereabouts
<1>2. Posted(t)'
  BY DEF Whereabouts, Posted
<1> QED  BY <1>1, <1>2

\* A bucket worker other than the sender moves, or the sender backs out.
LEMMA SendingKept ==
    ASSUME NEW t \in Task, NEW c \in Conn, Sending(t, c), NEW b \in Bucket,
           \A d \in Bucket \ {b} : bucket'[d] = bucket[d],
           \/ bucket[b].pc \notin {"send", "revert"}
           \/ bucket[b].task # t
           \/ bucket[b].conn # c
           \/ /\ bucket'[b].pc \in {"send", "revert"} /\ bucket'[b].task = bucket[b].task
              /\ bucket'[b].conn = bucket[b].conn
    PROVE  Sending(t, c)'
BY DEF Sending

\* A worker that a step does not reach.
LEMMA AtWorkerKept ==
    ASSUME NEW t \in Task, NEW c \in Conn, AtWorker(t, c),
           inbox'[c] = inbox[c], running'[c] = running[c], outbox'[c] = outbox[c],
           c \in reported' => c \in reported,
           handler'[c] = handler[c] \/ handler[c].pc # "settle"
    PROVE  AtWorker(t, c)'
BY DEF AtWorker

LEMMA WhereTask ==
    ASSUME TypeOK, Whereabouts, NEW u \in Task, Api(u) \/ Finisher(u)
    PROVE  Whereabouts'
<1>1. UNCHANGED <<bucket, life, handler, inbox, running, reported, outbox, silent>>
  BY DEF Api, Finisher, CreateTask, ArrivingEnqueue, CancelRead, CancelWrite, TaskFinish,
     TaskFinishFails, dispatcher, conns, remote
<1>2. \A t \in Task : \A c \in Conn : Located(t, c) => Located(t, c)'
  BY <1>1 DEF Located, Sending, AtWorker
<1>3. CASE Api(u)
  <2>1. UNCHANGED <<mem, finishers>>
    BY <1>3 DEF Api, CreateTask, ArrivingEnqueue, CancelRead, CancelWrite, objects
  <2> QED  BY <1>2, <2>1, WhereKept
<1>4. CASE Finisher(u)
  <2>1. /\ mem'[u].status = "finished"
        /\ \A t \in Task \ {u} : mem'[t] = mem[t] /\ finishers'[t] = finishers[t]
    BY <1>4 DEF Finisher, TaskFinish, TaskFinishFails, Write, TypeOK, ObjectsOK, TaskObject,
       CountsOK
  <2>2. Followed(u)' /\ Posted(u)'
    BY <2>1 DEF Followed, Posted
  <2> QED  BY <1>2, <2>1, <2>2, WhereWritten
<1> QED  BY <1>3, <1>4

LEMMA WhereBucket ==
    ASSUME TypeOK, Whereabouts, NEW b \in Bucket, BucketWorker(b)
    PROVE  Whereabouts'
<1> USE DEF BucketAt
<1>1. UNCHANGED <<life, handler, running, reported, outbox, silent, finishers>>
  BY DEF BucketWorker, PopTask, findNoConn, findPanics, findSuitableConn, AssignTask,
     AssignRefused, ConvertFails, RecordAssignment, SendOk, SendFails, SendTimesOut,
     SendPanics, RevertAssignment, ClearAfterFailure, RequeueTask, conns, remote
<1>2. ASSUME NEW x, bucket' = [bucket EXCEPT ![b] = x]
      PROVE  bucket'[b] = x /\ \A d \in Bucket \ {b} : bucket'[d] = bucket[d]
  BY <1>2 DEF TypeOK, DispatcherOK
<1>3. ASSUME NEW pc \in BucketStep, Goto(b, pc)
      PROVE  /\ bucket'[b].pc = pc /\ bucket'[b].task = bucket[b].task
             /\ bucket'[b].conn = bucket[b].conn
             /\ \A d \in Bucket \ {b} : bucket'[d] = bucket[d]
  BY <1>3 DEF Goto, TypeOK, DispatcherOK
<1>4. CASE \/ PopTask(b) \/ findNoConn(b) \/ AssignTask(b) \/ AssignRefused(b)
           \/ ConvertFails(b) \/ ClearAfterFailure(b) \/ RequeueTask(b)
           \/ \E c \in Conn : findSuitableConn(b, c)
  <2>1. bucket[b].pc \notin {"send", "revert"} /\ UNCHANGED <<mem, inbox>>
    BY <1>4 DEF PopTask, findNoConn, AssignTask, AssignRefused, ConvertFails,
       ClearAfterFailure, RequeueTask, findSuitableConn, objects, remote
  <2>2. \A d \in Bucket \ {b} : bucket'[d] = bucket[d]
    <3>1. \E x : bucket' = [bucket EXCEPT ![b] = x]
      BY <1>4 DEF PopTask, findNoConn, AssignTask, AssignRefused, ConvertFails,
         ClearAfterFailure, RequeueTask, findSuitableConn, Goto, Idle
    <3> QED  BY <1>2, <3>1
  <2>3. ASSUME NEW t \in Task, NEW c \in Conn, Located(t, c)  PROVE Located(t, c)'
    BY <1>1, <2>1, <2>2, <2>3, SendingKept, AtWorkerKept DEF Located
  <2> QED  BY <1>1, <2>1, <2>3, WhereKept
<1>5. CASE findPanics(b) \/ SendPanics(b)
  <2>1. UNCHANGED <<mem, bucket, inbox>>
    BY <1>5 DEF findPanics, SendPanics, objects, dispatcher, remote
  <2>2. \A t \in Task : \A c \in Conn : Located(t, c) => Located(t, c)'
    BY <1>1, <2>1 DEF Located, Sending, AtWorker
  <2> QED  BY <1>1, <2>1, <2>2, WhereKept
<1>6. CASE RecordAssignment(b)
  <2>1. PICK u \in Task : u = bucket[b].task
    BY <1>6, Holding DEF RecordAssignment
  <2>2. PICK e \in Conn : e = bucket[b].conn
    BY <1>6, Holding DEF RecordAssignment
  <2>3. /\ bucket[b].pc = "record" /\ Goto(b, "send")
        /\ Write(u, [mem[u] EXCEPT !.status = "processing", !.worker = e])
        /\ inbox' = inbox
    BY <1>6, <2>1, <2>2 DEF RecordAssignment, remote
  <2>4. /\ mem'[u].status = "processing" /\ mem'[u].worker = e
        /\ \A t \in Task \ {u} : mem'[t] = mem[t]
    BY <2>3 DEF Write, TypeOK, ObjectsOK, TaskObject
  <2>5. /\ bucket'[b].pc = "send" /\ bucket'[b].task = u /\ bucket'[b].conn = e
        /\ \A d \in Bucket \ {b} : bucket'[d] = bucket[d]
    BY <1>3, <2>1, <2>2, <2>3 DEF BucketStep
  <2>6. Followed(u)'
    <3>1. Sending(u, e)'
      BY <2>5 DEF Sending
    <3>2. Located(u, e)'
      BY <3>1 DEF Located
    <3> QED  BY <2>4, <3>2, FollowedTo
  <2>7. Posted(u)'
    BY <2>4 DEF Posted
  <2>8. ASSUME NEW t \in Task, NEW c \in Conn, Located(t, c)  PROVE Located(t, c)'
    BY <1>1, <2>3, <2>5, <2>8, SendingKept, AtWorkerKept DEF Located
  <2> QED  BY <1>1, <2>4, <2>6, <2>7, <2>8, WhereWritten
<1>7. CASE SendOk(b)
  <2>1. PICK u \in Task : u = bucket[b].task
    BY <1>7, Holding DEF SendOk
  <2>2. PICK e \in Conn : e = bucket[b].conn
    BY <1>7, Holding DEF SendOk
  <2>3. /\ bucket[b].pc = "send" /\ mem' = mem
        /\ \/ inbox' = [inbox EXCEPT ![e] = Append(@, u)]
           \/ life[e] \in Gone /\ inbox' = inbox
    BY <1>7, <2>1, <2>2 DEF SendOk, objects, Gone
  <2>4. inbox \in [Conn -> Seq(Task)]
    BY DEF TypeOK, RemoteOK
  <2>5. \A d \in Bucket \ {b} : bucket'[d] = bucket[d]
    BY <1>2, <1>7 DEF SendOk, Idle
  <2>6. Located(u, e)'
    <3>1. CASE inbox' = [inbox EXCEPT ![e] = Append(@, u)]
      <4>1. inbox'[e] = Append(inbox[e], u) /\ inbox[e] \in Seq(Task)
        BY <2>4, <3>1
      <4>2. \E i \in DOMAIN inbox'[e] : inbox'[e][i] = u
        BY <4>1, AppendKeeps
      <4> QED  BY <4>2 DEF Located, AtWorker
    <3>2. CASE life[e] \in Gone
      BY <1>1, <3>2 DEF Located
    <3> QED  BY <2>3, <3>1, <3>2
  <2>7. ASSUME NEW t \in Task, NEW c \in Conn, Located(t, c)  PROVE Located(t, c)'
    <3>1. CASE Sending(t, c)
      <4>1. CASE t = u /\ c = e
        BY <2>6, <4>1
      <4>2. CASE ~(t = u /\ c = e)
        BY <2>1, <2>2, <2>5, <3>1, <4>2, SendingKept DEF Located
      <4> QED  BY <4>1, <4>2
    <3>2. CASE AtWorker(t, c)
      <4>1. inbox'[c] = inbox[c] \/ inbox'[c] = Append(inbox[c], u)
        BY <2>3, <2>4
      <4>2. inbox[c] \in Seq(Task)
        BY <2>4
      <4>3. (\E i \in DOMAIN inbox[c] : inbox[c][i] = t)
               => \E i \in DOMAIN inbox'[c] : inbox'[c][i] = t
        <5>1. CASE inbox'[c] = inbox[c]
          BY <5>1
        <5>2. CASE inbox'[c] = Append(inbox[c], u)
          <6>1. \A i \in DOMAIN inbox[c] : i \in DOMAIN inbox'[c] /\ inbox'[c][i] = inbox[c][i]
            BY <4>2, <5>2, AppendKeeps
          <6> QED  BY <6>1
        <5> QED  BY <4>1, <5>1, <5>2
      <4> QED  BY <1>1, <3>2, <4>3 DEF AtWorker, Located
    <3> QED  BY <1>1, <2>7, <3>1, <3>2 DEF Located
  <2> QED  BY <1>1, <2>3, <2>7, WhereKept
<1>8. CASE SendFails(b) \/ SendTimesOut(b)
  <2>1. Goto(b, "revert") /\ UNCHANGED <<mem, inbox>>
    BY <1>8 DEF SendFails, SendTimesOut, objects, remote
  <2>2. /\ bucket'[b].pc = "revert" /\ bucket'[b].task = bucket[b].task
        /\ bucket'[b].conn = bucket[b].conn
        /\ \A d \in Bucket \ {b} : bucket'[d] = bucket[d]
    BY <1>3, <2>1 DEF BucketStep
  <2>3. ASSUME NEW t \in Task, NEW c \in Conn, Located(t, c)  PROVE Located(t, c)'
    BY <1>1, <2>1, <2>2, <2>3, SendingKept, AtWorkerKept DEF Located
  <2> QED  BY <1>1, <2>1, <2>3, WhereKept
<1>9. CASE RevertAssignment(b)
  <2>1. PICK u \in Task : u = bucket[b].task
    BY <1>9, Holding DEF RevertAssignment
  <2>2. /\ Goto(b, "clear") /\ inbox' = inbox
        /\ Write(u, [mem[u] EXCEPT !.status = "pending", !.worker = NoConn])
    BY <1>9, <2>1 DEF RevertAssignment, remote
  <2>3. /\ mem'[u].status = "pending"
        /\ \A t \in Task \ {u} : mem'[t] = mem[t]
    BY <2>2 DEF Write, TypeOK, ObjectsOK, TaskObject
  <2>4. Followed(u)' /\ Posted(u)'
    BY <2>3 DEF Followed, Posted
  <2>5. \A d \in Bucket \ {b} : bucket'[d] = bucket[d]
    BY <1>3, <2>2 DEF BucketStep
  <2>6. ASSUME NEW t \in Task \ {u}, NEW c \in Conn, Located(t, c)  PROVE Located(t, c)'
    BY <1>1, <2>1, <2>2, <2>5, <2>6, SendingKept, AtWorkerKept DEF Located
  <2> QED  BY <1>1, <2>3, <2>4, <2>6, WhereWritten
<1> QED
  BY <1>4, <1>5, <1>6, <1>7, <1>8, <1>9 DEF BucketWorker

LEMMA WhereConnection ==
    ASSUME TypeOK, \A c \in Conn : Fresh(c), Whereabouts,
           NEW e \in Conn, Register(e) \/ Unregister(e)
    PROVE  Whereabouts'
<1>1. UNCHANGED <<mem, bucket, handler, silent, finishers>>
  BY DEF Register, HandleRegister, Reconnect, StoreSession, RegisterResponseOk,
     RegisterResponseFails, Unregister, RemoveConnection, CloseChannel, objects, dispatcher,
     remote
<1>2. \A c \in Conn : life[c] \in Gone => life'[c] \in Gone
  BY GoneStays
<1>3. ASSUME NEW c \in Conn
      PROVE  \/ /\ inbox'[c] = inbox[c] /\ outbox'[c] = outbox[c]
                /\ running'[c] = running[c] /\ (c \in reported' => c \in reported)
             \/ inbox[c] = <<>> /\ running[c] = NoTask /\ outbox'[c] = outbox[c]
             \/ life'[c] \in Gone
  <2>1. ASSUME NEW d \in Conn, Reconnect(e, d)  PROVE <1>3!2
    <3>1. CASE c = d
      BY <1>2, <2>1, <3>1 DEF Reconnect
    <3>2. CASE c = e
      BY <2>1, <3>2 DEF Reconnect, Fresh
    <3>3. CASE c # d /\ c # e
      BY <2>1, <3>3 DEF Reconnect, TypeOK, RemoteOK
    <3> QED  BY <3>1, <3>2, <3>3
  <2>2. CASE ~\E d \in Conn : Reconnect(e, d)
    BY <2>2 DEF Register, HandleRegister, StoreSession, RegisterResponseOk,
       RegisterResponseFails, Unregister, RemoveConnection, CloseChannel, remote, Gone,
       TypeOK, ConnsOK, RemoteOK
  <2> QED  BY <2>1, <2>2
<1>4. ASSUME NEW t \in Task, NEW c \in Conn, Located(t, c)  PROVE Located(t, c)'
  <2>1. Sending(t, c) => Sending(t, c)'
    BY <1>1 DEF Sending
  <2>2. AtWorker(t, c) => AtWorker(t, c)' \/ life'[c] \in Gone
    <3>1. CASE inbox[c] = <<>> /\ running[c] = NoTask /\ outbox'[c] = outbox[c]
      <4>1. t # NoTask /\ ~\E i \in DOMAIN inbox[c] : inbox[c][i] = t
        BY <3>1, WorkerManagerAssumption
      <4> QED  BY <1>1, <3>1, <4>1 DEF AtWorker
    <3>2. CASE /\ inbox'[c] = inbox[c] /\ outbox'[c] = outbox[c]
               /\ running'[c] = running[c] /\ (c \in reported' => c \in reported)
      BY <1>1, <3>2, AtWorkerKept
    <3> QED  BY <1>3, <3>1, <3>2
  <2> QED  BY <1>1, <1>2, <1>4, <2>1, <2>2 DEF Located
<1> QED  BY <1>1, <1>4, WhereKept

LEMMA WhereHandler ==
    ASSUME TypeOK, OwnerKnown, Whereabouts, NEW e \in Conn, Handle(e)
    PROVE  Whereabouts'
<1>1. UNCHANGED <<bucket, life, inbox, running, reported, silent>>
  BY DEF Handle, HandleReport, RejectReport, TaskComplete, TaskCompleteEnqueue, conns, remote,
     dispatcher
<1>2. /\ mem \in [Task -> TaskObject] /\ outbox \in [Conn -> Seq(Report)]
      /\ handler \in [Conn -> [pc : HandlerStep, task : Task \cup {NoTask}]]
      /\ finishers \in [Task -> Nat]
  BY DEF TypeOK, ObjectsOK, ConnsOK, RemoteOK, CountsOK
<1>3. ASSUME NEW t \in Task, NEW c \in Conn, Located(t, c),
             AtWorker(t, c) => AtWorker(t, c)'
      PROVE  Located(t, c)'
  BY <1>1, <1>3 DEF Located, Sending
<1>4. CASE HandleReport(e)
  <2>1. PICK r \in Report : r = Head(outbox[e])
    BY <1>2, <1>4 DEF HandleReport
  <2>2. /\ handler[e].pc = "idle" /\ outbox[e] # <<>>
        /\ outbox' = [outbox EXCEPT ![e] = Tail(@)]
        /\ mem' = [mem EXCEPT ![r.task] = [@ EXCEPT !.failed = r.failed]]
        /\ handler' = [handler EXCEPT ![e] = [pc |-> "settle", task |-> r.task]]
        /\ finishers' = finishers
    BY <1>4, <2>1 DEF HandleReport
  <2>3. \A t \in Task : mem'[t].status = mem[t].status /\ mem'[t].worker = mem[t].worker
    BY <1>2, <2>2 DEF TaskObject
  <2>4. handler'[e].pc = "settle" /\ handler'[e].task = r.task /\ outbox'[e] = Tail(outbox[e])
    BY <1>2, <2>2
  <2>5. ASSUME NEW t \in Task, NEW c \in Conn, AtWorker(t, c)  PROVE AtWorker(t, c)'
    <3>1. CASE c # e
      <4>1. outbox'[c] = outbox[c] /\ handler'[c] = handler[c]
        BY <1>2, <2>2, <3>1
      <4> QED  BY <1>1, <2>5, <4>1, AtWorkerKept
    <3>2. CASE c = e
      <4>1. ASSUME NEW i \in DOMAIN outbox[e], outbox[e][i].task = t
            PROVE  AtWorker(t, e)'
        <5>1. outbox[e] \in Seq(Report)
          BY <1>2
        <5>2. outbox[e][i] = r \/ \E j \in DOMAIN Tail(outbox[e]) :
                                     Tail(outbox[e])[j] = outbox[e][i]
          BY <2>1, <2>2, <4>1, <5>1, TailKeeps
        <5> QED  BY <2>4, <4>1, <5>2 DEF AtWorker
      <4>2. CASE ~\E i \in DOMAIN outbox[e] : outbox[e][i].task = t
        BY <1>1, <2>2, <2>5, <3>2, <4>2 DEF AtWorker
      <4> QED  BY <3>2, <4>1, <4>2
    <3> QED  BY <3>1, <3>2
  <2> QED  BY <1>3, <2>2, <2>3, <2>5, WhereKept
<1>5. CASE RejectReport(e)
  <2>1. PICK r \in Report : r = Head(outbox[e])
    BY <1>2, <1>5 DEF RejectReport
  <2>2. /\ OwnerOf(r.task) # e /\ outbox[e] # <<>>
        /\ outbox' = [outbox EXCEPT ![e] = Tail(@)]
        /\ UNCHANGED <<mem, handler, finishers>>
    BY <1>5, <2>1 DEF RejectReport, objects, conns
  <2>3. ASSUME NEW t \in Task, NEW c \in Conn, mem[t].worker = c, AtWorker(t, c)
        PROVE  AtWorker(t, c)'
    <3>1. CASE c # e
      <4>1. outbox'[c] = outbox[c]
        BY <1>2, <2>2, <3>1
      <4> QED  BY <1>1, <2>2, <2>3, <4>1, AtWorkerKept
    <3>2. CASE c = e
      <4>1. r.task # t /\ outbox'[e] = Tail(outbox[e])
        <5>1. OwnerOf(t) = e
          BY <2>3, <3>2 DEF OwnerOf, OwnerKnown
        <5> QED  BY <1>2, <2>2, <5>1
      <4>2. ASSUME NEW i \in DOMAIN outbox[e], outbox[e][i].task = t
            PROVE  AtWorker(t, e)'
        <5>1. outbox[e] \in Seq(Report)
          BY <1>2
        <5>2. outbox[e][i] = r \/ \E j \in DOMAIN Tail(outbox[e]) :
                                     Tail(outbox[e])[j] = outbox[e][i]
          BY <2>1, <2>2, <4>2, <5>1, TailKeeps
        <5> QED  BY <4>1, <4>2, <5>2 DEF AtWorker
      <4>3. CASE ~\E i \in DOMAIN outbox[e] : outbox[e][i].task = t
        BY <1>1, <2>2, <2>3, <3>2, <4>3 DEF AtWorker
      <4> QED  BY <3>2, <4>2, <4>3
    <3> QED  BY <3>1, <3>2
  <2> QED  BY <1>3, <2>2, <2>3, WhereKept
<1>6. CASE TaskComplete(e)
  <2>1. PICK u \in Task : u = handler[e].task
    BY <1>6 DEF TaskComplete, TypeOK, ConnsOK
  <2>2. /\ Write(u, Settled(u)) /\ outbox' = outbox
        /\ handler' = [handler EXCEPT ![e] =
              IF Settled(u).status = "pending" THEN [pc |-> "enqueue", task |-> u]
                                               ELSE [pc |-> "idle", task |-> NoTask]]
        /\ finishers' = [finishers EXCEPT ![u] =
              IF Settled(u).status = "completed" THEN @ + 1 ELSE @]
    BY <1>6, <2>1 DEF TaskComplete, remote
  <2>3. Settled(u).status \in {"pending", "completed", "finished"}
    BY <1>2 DEF Settled, getTaskCompleteStatus, TaskObject
  <2>4. mem'[u] = Settled(u) /\ \A t \in Task \ {u} : mem'[t] = mem[t]
    BY <1>2, <2>2 DEF Write
  <2>5. Followed(u)'
    BY <2>3, <2>4 DEF Followed
  <2>6. Posted(u)'
    BY <1>2, <2>2, <2>4 DEF Posted
  <2>7. \A t \in Task \ {u} : finishers'[t] = finishers[t]
    BY <1>2, <2>2
  <2>8. ASSUME NEW t \in Task \ {u}, NEW c \in Conn, AtWorker(t, c)  PROVE AtWorker(t, c)'
    <3>1. CASE c # e
      <4>1. handler'[c] = handler[c]
        BY <1>2, <2>2, <3>1
      <4> QED  BY <1>1, <2>2, <2>8, <4>1, AtWorkerKept
    <3>2. CASE c = e
      BY <1>1, <2>1, <2>2, <2>8, <3>2 DEF AtWorker
    <3> QED  BY <3>1, <3>2
  <2> QED  BY <1>3, <2>4, <2>5, <2>6, <2>7, <2>8, WhereWritten
<1>7. CASE TaskCompleteEnqueue(e)
  <2>1. /\ handler[e].pc # "settle" /\ UNCHANGED <<mem, finishers, outbox>>
        /\ \A c \in Conn \ {e} : handler'[c] = handler[c]
    BY <1>2, <1>7 DEF TaskCompleteEnqueue, objects, remote
  <2>2. ASSUME NEW t \in Task, NEW c \in Conn, AtWorker(t, c)  PROVE AtWorker(t, c)'
    BY <1>1, <2>1, <2>2, AtWorkerKept
  <2> QED  BY <1>3, <2>1, <2>2, WhereKept
<1> QED  BY <1>4, <1>5, <1>6, <1>7 DEF Handle

LEMMA WhereWorker ==
    ASSUME TypeOK, Busy, Whereabouts, NEW e \in Conn, RemoteWorker(e)
    PROVE  Whereabouts'
<1>1. UNCHANGED <<mem, bucket, life, handler, finishers>> /\ silent \subseteq silent'
  BY DEF RemoteWorker, LateWrite, WorkerReceive, WorkerSwallows, WorkerIdle, WorkerReport,
     objects, dispatcher, conns
<1>2. /\ inbox \in [Conn -> Seq(Task)] /\ late \in [Conn -> Task \cup {NoTask}]
      /\ running \in [Conn -> Task \cup {NoTask}] /\ outbox \in [Conn -> Seq(Report)]
  BY DEF TypeOK, RemoteOK
<1>3. ASSUME NEW t \in Task, NEW c \in Conn, Located(t, c),
             AtWorker(t, c) => Located(t, c)'
      PROVE  Located(t, c)'
  BY <1>1, <1>3 DEF Located, Sending
<1>4. ASSUME NEW c \in Conn \ {e}
      PROVE  /\ inbox'[c] = inbox[c] /\ running'[c] = running[c] /\ outbox'[c] = outbox[c]
             /\ c \in reported' => c \in reported
  BY <1>2 DEF RemoteWorker, LateWrite, WorkerReceive, WorkerSwallows, WorkerIdle,
     WorkerReport
<1>5. SUFFICES ASSUME NEW t \in Task, AtWorker(t, e)  PROVE Located(t, e)'
  <2>1. ASSUME NEW t \in Task, NEW c \in Conn, AtWorker(t, c)  PROVE Located(t, c)'
    <3>1. CASE c = e
      BY <1>5, <2>1, <3>1
    <3>2. CASE c # e
      BY <1>1, <1>4, <2>1, <3>2, AtWorkerKept DEF Located
    <3> QED  BY <3>1, <3>2
  <2> QED  BY <1>1, <1>3, <2>1, WhereKept
<1>6. CASE LateWrite(e)
  <2>1. PICK u \in Task : u = late[e]
    BY <1>2, <1>6 DEF LateWrite
  <2>2. inbox'[e] = Append(inbox[e], u) /\ inbox[e] \in Seq(Task)
        /\ UNCHANGED <<running, reported, outbox>>
    BY <1>2, <1>6, <2>1 DEF LateWrite
  <2>3. (\E i \in DOMAIN inbox[e] : inbox[e][i] = t)
           => \E i \in DOMAIN inbox'[e] : inbox'[e][i] = t
    BY <2>2, AppendKeeps
  <2> QED  BY <1>1, <1>5, <2>2, <2>3 DEF Located, AtWorker
<1>7. CASE WorkerReceive(e)
  <2>1. /\ inbox[e] # <<>> /\ inbox[e] \in Seq(Task) /\ inbox'[e] = Tail(inbox[e])
        /\ UNCHANGED <<reported, outbox>>
        /\ running[e] # NoTask => running'[e] = running[e] /\ <<Head(inbox[e]), e>> \in silent'
        /\ running[e] = NoTask => running'[e] = Head(inbox[e])
    BY <1>2, <1>7 DEF WorkerReceive
  <2>2. ASSUME NEW i \in DOMAIN inbox[e], inbox[e][i] = t  PROVE Located(t, e)'
    <3>1. CASE Head(inbox[e]) = t
      <4>1. CASE running[e] = NoTask
        <5>1. running'[e] = t /\ e \notin reported'
          BY <2>1, <3>1, <4>1 DEF Busy
        <5> QED  BY <5>1 DEF Located, AtWorker
      <4>2. CASE running[e] # NoTask
        BY <2>1, <3>1, <4>2 DEF Located
      <4> QED  BY <4>1, <4>2
    <3>2. CASE Head(inbox[e]) # t
      <4>1. PICK j \in DOMAIN Tail(inbox[e]) : Tail(inbox[e])[j] = t
        BY <2>1, <2>2, <3>2, TailKeeps
      <4> QED  BY <2>1, <4>1 DEF Located, AtWorker
    <3> QED  BY <3>1, <3>2
  <2>3. CASE running[e] = t /\ e \notin reported
    <3>1. running'[e] = t /\ e \notin reported'
      BY <2>1, <2>3, WorkerManagerAssumption
    <3> QED  BY <3>1 DEF Located, AtWorker
  <2> QED  BY <1>1, <1>5, <2>1, <2>2, <2>3 DEF Located, AtWorker
<1>8. ASSUME NEW failed \in BOOLEAN, WorkerReport(e, failed)  PROVE Located(t, e)'
  <2>1. PICK u \in Task : u = running[e]
    BY <1>2, <1>8 DEF WorkerReport
  <2>2. PICK r \in Report : r = [task |-> u, failed |-> failed]
    BY DEF Report
  <2>3. /\ inbox' = inbox /\ outbox[e] \in Seq(Report)
        /\ \/ life[e] \in Gone /\ outbox' = outbox
           \/ outbox'[e] = Append(outbox[e], r)
    BY <1>2, <1>8, <2>1, <2>2 DEF WorkerReport
  <2>4. CASE life[e] \in Gone
    BY <1>1, <2>4 DEF Located
  <2>5. CASE outbox'[e] = Append(outbox[e], r)
    <3>1. \E i \in DOMAIN outbox'[e] : outbox'[e][i].task = u
      <4>1. PICK i \in DOMAIN outbox'[e] : outbox'[e][i] = r
        BY <2>3, <2>5, AppendKeeps
      <4> QED  BY <2>2, <4>1
    <3>2. (\E i \in DOMAIN outbox[e] : outbox[e][i].task = t)
             => \E i \in DOMAIN outbox'[e] : outbox'[e][i].task = t
      <4>1. \A i \in DOMAIN outbox[e] : i \in DOMAIN outbox'[e] /\ outbox'[e][i] = outbox[e][i]
        BY <2>3, <2>5, AppendKeeps
      <4> QED  BY <4>1
    <3> QED  BY <1>1, <1>5, <2>1, <2>3, <3>1, <3>2 DEF Located, AtWorker
  <2> QED  BY <2>3, <2>4, <2>5
<1>9. CASE WorkerSwallows(e)
  <2>1. /\ UNCHANGED <<inbox, outbox, reported>>
        /\ <<running[e], e>> \in silent'
    BY <1>9 DEF WorkerSwallows
  <2> QED  BY <1>1, <1>5, <2>1 DEF Located, AtWorker
<1>10. CASE WorkerIdle(e)
  <2>1. UNCHANGED <<inbox, outbox>> /\ e \in reported
    BY <1>10 DEF WorkerIdle
  <2> QED  BY <1>1, <1>5, <2>1 DEF Located, AtWorker
<1> QED  BY <1>6, <1>7, <1>8, <1>9, <1>10 DEF RemoteWorker

LEMMA WhereStep ==
    ASSUME TypeOK, OwnerKnown, Busy, \A c \in Conn : Fresh(c), Whereabouts, [Next]_vars
    PROVE  Whereabouts'
<1>1. CASE UNCHANGED vars
  <2>1. UNCHANGED <<mem, bucket, life, handler, inbox, running, reported, outbox, silent,
                    finishers>>
    BY <1>1 DEF vars, objects, dispatcher, conns, remote
  <2>2. \A t \in Task : \A c \in Conn : Located(t, c) => Located(t, c)'
    BY <2>1 DEF Located, Sending, AtWorker
  <2> QED  BY <2>1, <2>2, WhereKept
<1> QED
  BY <1>1, WhereTask, WhereBucket, WhereConnection, WhereHandler, WhereWorker DEF Next

\* Whoever holds the task is one of its hands.
LEMMA TicketIsHand ==
    ASSUME TypeOK, NEW t \in Task, Ticket(t)
    PROVE  Hands(t) # {}
<1>1. CASE t \in arriving
  BY <1>1 DEF Hands
<1>2. CASE Queued(t)
  <2>1. PICK b \in Bucket : \E i \in DOMAIN queue[b] : queue[b][i] = t
    BY <1>2 DEF Queued
  <2>2. PICK i \in DOMAIN queue[b] : queue[b][i] = t
    BY <2>1
  <2>3. <<"queue", b, i>> \in Hands(t)
    BY <2>2 DEF Hands
  <2> QED  BY <2>3
<1>3. CASE Dispatching(t)
  <2>1. PICK b \in Bucket : bucket[b].task = t
    BY <1>3 DEF Dispatching
  <2>2. <<"bucket", b, 0>> \in Hands(t)
    BY <2>1 DEF Hands
  <2> QED  BY <2>2
<1>4. CASE Retrying(t)
  <2>1. PICK c \in Conn : handler[c].task = t
    BY <1>4 DEF Retrying
  <2>2. <<"handler", c, 0>> \in Hands(t)
    BY <2>1 DEF Hands
  <2> QED  BY <2>2
<1> QED  BY <1>1, <1>2, <1>3, <1>4 DEF Ticket

LEMMA WorkerIsHand ==
    ASSUME TypeOK, NEW t \in Task, NEW c \in Conn, Sending(t, c) \/ AtWorker(t, c)
    PROVE  Hands(t) # {}
<1>1. CASE Sending(t, c)
  <2>1. PICK b \in Bucket : bucket[b].task = t
    BY <1>1 DEF Sending
  <2>2. <<"bucket", b, 0>> \in Hands(t)
    BY <2>1 DEF Hands
  <2> QED  BY <2>2
<1>2. ASSUME NEW i \in DOMAIN inbox[c], inbox[c][i] = t  PROVE Hands(t) # {}
  <2>1. <<"inbox", c, i>> \in Hands(t)
    BY <1>2 DEF Hands
  <2> QED  BY <2>1
<1>3. CASE running[c] = t /\ c \notin reported
  <2>1. <<"worker", c, 0>> \in Hands(t)
    BY <1>3 DEF Hands
  <2> QED  BY <2>1
<1>4. ASSUME NEW i \in DOMAIN outbox[c], outbox[c][i].task = t  PROVE Hands(t) # {}
  <2>1. <<"outbox", c, i>> \in Hands(t)
    BY <1>4 DEF Hands
  <2> QED  BY <2>1
<1>5. CASE handler[c].task = t
  <2>1. <<"handler", c, 0>> \in Hands(t)
    BY <1>5 DEF Hands
  <2> QED  BY <2>1
<1> QED  BY <1>1, <1>2, <1>3, <1>4, <1>5 DEF AtWorker

LEMMA FinisherIsHand ==
    ASSUME TypeOK, NEW t \in Task, finishers[t] > 0
    PROVE  Hands(t) # {}
<1>1. 1 \in 1..finishers[t]
  BY DEF TypeOK, CountsOK
<1>2. <<"finisher", 0, 1>> \in Hands(t)
  BY <1>1 DEF Hands
<1> QED  BY <1>2

LEMMA FollowedAlways ==
    ASSUME CancelTasks = {}
    PROVE  Spec => [](TypeOK /\ Whereabouts)
<1> DEFINE Inv == OwnerKnown /\ Busy /\ (\A c \in Conn : Fresh(c)) /\ Whereabouts
<1>1. Init => Inv
  <2>1. Init => Busy /\ \A c \in Conn : Fresh(c)
    BY DEF Init, Busy, Fresh
  <2> QED  BY <2>1, OwnerInit, WhereInit
<1>2. TypeOK /\ Inv /\ [Next]_vars => Inv'
  BY OwnerStep, FreshStep, WhereStep
<1> QED  BY <1>1, <1>2, TypeInit, TypeStep, PTL DEF Spec

\* A document that is not finished and that nobody holds is one whose worker's
\* connection is gone, or whose worker ended the attempt in silence: no order of
\* slow or failing sends, lost webhooks, failed registrations, lost connections,
\* lagging and returning workers orphans a task in another way.
THEOREM OrphansExplained ==
    ASSUME CancelTasks = {}
    PROVE  Spec => []OrphansAreExplained
<1>1. TypeOK /\ TicketsHeld /\ Whereabouts => OrphansAreExplained
  <2> SUFFICES ASSUME TypeOK, TicketsHeld, Whereabouts, NEW t \in Task,
                      db[t].present, db[t].status # "finished", Hands(t) = {}
               PROVE  /\ mem[t].worker \in Conn
                      /\ life[mem[t].worker] \in Gone \/ <<t, mem[t].worker>> \in silent
    BY DEF OrphansAreExplained
  <2>1. ~Pending(t)
    BY TicketIsHand DEF TicketsHeld
  <2>2. mem[t].status # "completed"
    BY FinisherIsHand DEF Whereabouts, Posted
  <2>3. mem[t].status = "processing"
    BY <2>1, <2>2 DEF Pending, TypeOK, ObjectsOK, TaskObject, Status
  <2>4. PICK c \in Conn : c = mem[t].worker
    BY <2>3 DEF Whereabouts, Followed
  <2>5. Located(t, c)
    BY <2>3, <2>4 DEF Whereabouts, Followed
  <2>6. life[c] \in Gone \/ <<t, c>> \in silent
    BY <2>5, WorkerIsHand DEF Located
  <2> QED  BY <2>4, <2>6
<1> QED  BY <1>1, FollowedAlways, TicketsAlways, PTL

\* While only webhooks fail, no sender returns, no link goes and no worker ends an
\* attempt in silence.
LinksUp == senders = Conn /\ silent = {} /\ \A c \in Conn : life[c] \notin Gone

LEMMA LinksUpStep ==
    ASSUME TypeOK, Links, LinksUp, Faults \subseteq {"webhook"}, [Next]_vars
    PROVE  LinksUp'
<1>1. {"drop", "write", "register", "slow", "reconnect", "encode"} \cap Faults = {}
  OBVIOUS
<1>2. CASE UNCHANGED <<life, senders, silent>>
  BY <1>2 DEF LinksUp
<1>3. ASSUME NEW t \in Task, Api(t) \/ Finisher(t)  PROVE UNCHANGED <<life, senders, silent>>
  BY <1>3 DEF Api, Finisher, CreateTask, ArrivingEnqueue, CancelRead, CancelWrite, TaskFinish,
     TaskFinishFails, conns, remote
<1>4. ASSUME NEW b \in Bucket, BucketWorker(b)  PROVE UNCHANGED <<life, senders, silent>>
  <2>1. ~SendFails(b) /\ ~SendTimesOut(b)
    BY <1>1, Holding DEF SendFails, SendTimesOut, BucketAt, LinksUp, Gone
  <2> QED
    BY <1>4, <2>1 DEF BucketWorker, PopTask, findNoConn, findPanics, findSuitableConn,
       AssignTask, AssignRefused, ConvertFails, RecordAssignment, SendOk, SendPanics,
       RevertAssignment, ClearAfterFailure, RequeueTask, conns, remote
<1>5. ASSUME NEW c \in Conn, Handle(c)  PROVE UNCHANGED <<life, senders, silent>>
  BY <1>5 DEF Handle, HandleReport, RejectReport, TaskComplete, TaskCompleteEnqueue, conns,
     remote
<1>6. ASSUME NEW c \in Conn, RemoteWorker(c)  PROVE UNCHANGED <<life, senders, silent>>
  <2>1. WorkerReceive(c) => silent' = silent
    BY DEF WorkerReceive, Links, OneMessage
  <2>2. ~WorkerSwallows(c)
    BY <1>1 DEF WorkerSwallows
  <2> QED
    BY <1>6, <2>1, <2>2 DEF RemoteWorker, LateWrite, WorkerReceive, WorkerIdle, WorkerReport,
       conns
<1>7. ASSUME NEW c \in Conn, Register(c) \/ Unregister(c)  PROVE LinksUp'
  <2>1. HandleRegister(c) \/ StoreSession(c) \/ RegisterResponseOk(c)
    BY <1>1, <1>7 DEF Register, Unregister, Reconnect, RegisterResponseFails,
       RemoveConnection, CloseChannel, LinksUp, Gone
  <2>2. /\ senders' = senders /\ silent' = silent
        /\ \E l \in LifeStep \ Gone : life' = [life EXCEPT ![c] = l]
    BY <2>1 DEF HandleRegister, StoreSession, RegisterResponseOk, LifeStep, Gone, remote
  <2> QED  BY <2>2 DEF LinksUp, TypeOK, ConnsOK
<1> QED  BY <1>2, <1>3, <1>4, <1>5, <1>6, <1>7 DEF Next, vars, conns, remote

\* While only webhooks fail and nobody cancels, every created task that is not
\* finished is in somebody's hands, so that a fair step for it remains: the safety
\* half of EveryTaskFinishes, for any number of retries and lost webhooks.
THEOREM UnfinishedIsInHand ==
    ASSUME Faults \subseteq {"webhook"}, CancelTasks = {}
    PROVE  Spec => [](\A t \in Task :
               db[t].present /\ db[t].status # "finished" => Hands(t) # {})
<1>1. Init => LinksUp
  BY DEF Init, LinksUp, Gone
<1>2. TypeOK /\ Links /\ LinksUp /\ [Next]_vars => LinksUp'
  BY LinksUpStep
<1>3. LinksUp /\ OrphansAreExplained => \A t \in Task :
          db[t].present /\ db[t].status # "finished" => Hands(t) # {}
  BY DEF LinksUp, OrphansAreExplained
<1>4. Faultless
  BY DEF Faultless
<1> QED  BY <1>1, <1>2, <1>3, <1>4, OrphansExplained, LinksAlways, PTL DEF Spec
=============================================================================
