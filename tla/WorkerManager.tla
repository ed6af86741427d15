---------------------------- MODULE WorkerManager ----------------------------
(***************************************************************************)
(* The task dispatcher of the controller: go/pkg/controller/worker/        *)
(* manager.go for one run of the controller process, with the task API     *)
(* that feeds it and the worker sessions it hands tasks to.                *)
(*                                                                         *)
(* The goroutines of the code are the processes of the model:              *)
(*   - one bucket worker per queue bucket (taskAssignmentWorkerBucket);    *)
(*   - one serve goroutine per connection, that registers the worker,      *)
(*     runs the message handlers one after the other and cleans up;        *)
(*   - the API handlers that create a task and cancel one;                 *)
(*   - the goroutine that posts a webhook (asyncTaskFinish);               *)
(*   - the worker process at the other end of each connection.             *)
(*                                                                         *)
(* The memory they share: the *Task objects (mem), the task documents      *)
(* (db), processingTasks (cached), the bucket queues (queue), the map of   *)
(* connections and the CurrentTask of each session (session).              *)
(*                                                                         *)
(* SendPayload is used through its contract, the module SendContract that  *)
(* WsConnection is shown to implement: see SendOk, SendFails, SendTimesOut *)
(* and LateWrite below.                                                    *)
(***************************************************************************)
EXTENDS Naturals, Sequences, FiniteSets

CONSTANTS
    Task,          \* task ids
    Conn,          \* websocket connections, each of one worker process
    Queue,         \* queue names
    Bucket,        \* the queue buckets, queueBuckets of them in the code
    TaskQueue,     \* the queue of each task
    ConnQueues,    \* the queues each worker serves
    BucketOf,      \* the bucket of each queue: getQueueBucket, a hash
    MaxRetry,      \* the retry budget of each task
    InitialTasks,  \* the pending documents assignPendingTasks finds at the start
    WebhookTasks,  \* those of them with a webhook URL: the API sets none
    WebhookLosses, \* bound: how many attempts of a task may lose their webhook
    CancelTasks,   \* those that clients cancel: DELETE /tasks/{id}
    QueueCap,      \* the capacity of a bucket's blocking dequeue, 100 in the code
    Faults,        \* what may go wrong in this instance, see FaultKinds
    NoTask, NoConn \* the nil pointer and the empty worker id

(* drop:      a connection is lost or closed;                              *)
(* write:     a websocket write fails;                                     *)
(* register:  the registration response cannot be sent;                    *)
(* slow:      a websocket write takes longer than SendPayload waits (3 s); *)
(* webhook:   a webhook cannot be delivered;                               *)
(* reconnect: a worker whose connection was lost comes back busy;          *)
(* lag:       the worker's send of a report yields before it returns;      *)
(* encode:    a report cannot be encoded, and the worker swallows that;    *)
(* convert:   a task cannot be converted into an assignment.               *)
FaultKinds == {"drop", "write", "register", "slow", "webhook", "reconnect", "lag",
               "encode", "convert"}

ASSUME WorkerManagerAssumption ==
    /\ NoTask \notin Task
    /\ NoConn \notin Conn
    /\ TaskQueue \in [Task -> Queue]
    /\ ConnQueues \in [Conn -> SUBSET Queue]
    /\ BucketOf \in [Queue -> Bucket]
    /\ MaxRetry \in [Task -> Nat]
    /\ WebhookTasks \subseteq InitialTasks
    /\ InitialTasks \subseteq Task
    /\ WebhookLosses \in Nat
    /\ QueueCap \in Nat \ {0}
    /\ Faults \subseteq FaultKinds
    /\ CancelTasks \subseteq Task
    \* A bound. The copy a cancel stores may name a worker whose send was given up;
    \* the report of that worker would be settled on a second object of the task.
    /\ CancelTasks = {} \/ "slow" \notin Faults

VARIABLES
    mem,         \* the *Task object of each task
    db,          \* the task document, its presence and what Update wrote last
    cached,      \* the keys of processingTasks
    cancelling,  \* the documents handleDeleteTask read and has not written yet
    arriving,    \* tasks CreateTask inserted, or assignPendingTasks read, and
                 \* has not enqueued yet
    queue,       \* taskAssignQueues
    bucket,      \* what each bucket worker is doing
    connections, \* wm.connections
    life,        \* how far the serve goroutine of each connection got
    session,     \* CurrentTask of the session of each connection
    handler,     \* the message each serve goroutine is handling
    senders,     \* the connections whose sender goroutine still serves SendPayload
    late,        \* the message a timed-out SendPayload left with the sender
    inbox,       \* assignments on their way to the worker
    running,     \* current_task of the worker process
    reported,    \* the workers that sent their report and did not return from it
    outbox,      \* reports on their way to the controller
    silent,      \* history: the attempts a worker ended without a report
    finishers,   \* taskFinish goroutines of each task
    attempts,    \* history: how often a task was written to a worker
    crashed      \* a goroutine panicked: the controller process is gone

objects    == <<mem, db, cached, cancelling>>
dispatcher == <<arriving, queue, bucket>>
conns      == <<connections, life, session, handler, senders>>
remote     == <<late, inbox, running, reported, outbox, silent>>

vars == <<objects, dispatcher, conns, remote, finishers, attempts, crashed>>

-----------------------------------------------------------------------------
(* Values.                                                                 *)

Status == {"pending", "processing", "completed", "finished"}

TaskObject == [status : Status, worker : Conn \cup {NoConn}, retried : Nat,
               failed : BOOLEAN]

\* What CreateTask builds: pending, no worker, nothing retried, no error.
NewTask == [status |-> "pending", worker |-> NoConn, retried |-> 0,
            failed |-> FALSE]

Document == [present : BOOLEAN, status : Status, worker : Conn \cup {NoConn},
             cancelled : BOOLEAN]

Report == [task : Task, failed : BOOLEAN]

BucketStep == {"pop", "find", "assign", "record", "send", "revert", "clear",
               "requeue"}

LifeStep == {"new", "mapped", "ready", "serving", "removed", "closed"}

HandlerStep == {"idle", "settle", "enqueue"}

Gone == {"removed", "closed"}

Suitable(c, t) == TaskQueue[t] \in ConnQueues[c]

TaskBucket(t) == BucketOf[TaskQueue[t]]

\* The status of a task that is done: a webhook is still to be posted or not.
getTaskCompleteStatus(t) == IF t \in WebhookTasks THEN "completed" ELSE "finished"

\* Mutant of Settled: one retry too many.
SettledOffByOne(t) ==
    IF mem[t].failed /\ mem[t].retried <= MaxRetry[t]
    THEN [mem[t] EXCEPT !.status = "pending", !.retried = @ + 1]
    ELSE [mem[t] EXCEPT !.status = getTaskCompleteStatus(t)]

\* taskComplete's verdict on the task object: retry, or done.
Settled(t) ==
    IF mem[t].failed /\ mem[t].retried < MaxRetry[t]
    THEN [mem[t] EXCEPT !.status = "pending", !.retried = @ + 1]
    ELSE [mem[t] EXCEPT !.status = getTaskCompleteStatus(t)]

\* TaskRepository.Update: the whole document is replaced by the object.
Stored(o) == [present |-> TRUE, status |-> o.status, worker |-> o.worker,
              cancelled |-> FALSE]

\* The object is changed and written back: "task.X = ...; Update(task)".
Write(t, o) == /\ mem' = [mem EXCEPT ![t] = o]
               /\ db'  = [db EXCEPT ![t] = Stored(o)]

\* Mutant of EnqueueTask: a full dequeue drops the task instead of blocking.
EnqueueOrDrop(t) ==
    LET b == TaskBucket(t) IN
    queue' = IF Len(queue[b]) < QueueCap THEN [queue EXCEPT ![b] = Append(@, t)]
                                         ELSE queue

\* EnqueueTask blocks in PushBack while the bucket's dequeue is full.
EnqueueTask(t) ==
    LET b == TaskBucket(t) IN
    /\ Len(queue[b]) < QueueCap
    /\ queue' = [queue EXCEPT ![b] = Append(@, t)]

-----------------------------------------------------------------------------
ObjectsOK ==
    /\ mem \in [Task -> TaskObject]
    /\ \A t \in Task : mem[t].retried <= MaxRetry[t]
    /\ db \in [Task -> Document]
    /\ cached \in SUBSET Task
    /\ cancelling \in SUBSET (Task \X (Conn \cup {NoConn}))

\* A bucket worker past its pop holds a task, and past its choice a connection.
BucketOK(b) ==
    /\ bucket[b].pc # "pop" => bucket[b].task \in Task
    /\ bucket[b].pc \in {"assign", "record", "send", "revert", "clear"}
          => bucket[b].conn \in Conn

DispatcherOK ==
    /\ arriving \in SUBSET Task
    /\ queue \in [Bucket -> Seq(Task)]
    /\ \A b \in Bucket : Len(queue[b]) <= QueueCap
    /\ bucket \in [Bucket -> [pc : BucketStep, task : Task \cup {NoTask},
                              conn : Conn \cup {NoConn}]]
    /\ \A b \in Bucket : BucketOK(b)

ConnsOK ==
    /\ connections \in SUBSET Conn
    /\ life \in [Conn -> LifeStep]
    /\ session \in [Conn -> Task \cup {NoTask}]
    /\ handler \in [Conn -> [pc : HandlerStep, task : Task \cup {NoTask}]]
    /\ \A c \in Conn : handler[c].pc # "idle" => handler[c].task \in Task
    /\ senders \in SUBSET Conn

RemoteOK ==
    /\ late \in [Conn -> Task \cup {NoTask}]
    /\ inbox \in [Conn -> Seq(Task)]
    /\ running \in [Conn -> Task \cup {NoTask}]
    /\ reported \in SUBSET Conn
    /\ outbox \in [Conn -> Seq(Report)]
    /\ silent \in SUBSET (Task \X Conn)

CountsOK ==
    /\ finishers \in [Task -> Nat]
    /\ attempts \in [Task -> Nat]
    /\ crashed \in BOOLEAN

\* Tasks, bucket workers, connections and worker processes have the values their
\* code gives them, no dequeue is longer than its capacity and no task retried
\* beyond its budget. (Links, webhook goroutines and attempts have no limit.)
TypeOK == ObjectsOK /\ DispatcherOK /\ ConnsOK /\ RemoteOK /\ CountsOK

\* NewManager, the sender of each connection, and the documents that Start's
\* assignPendingTasks has read, each into the one object of its task (what an
\* API that creates meanwhile makes of that is in TaskRecovery).
Init ==
    /\ mem = [t \in Task |-> NewTask]
    /\ db = [t \in Task |-> [present |-> t \in InitialTasks, status |-> "pending",
                          worker |-> NoConn, cancelled |-> FALSE]]
    /\ cached = {} /\ cancelling = {}
    /\ arriving = InitialTasks
    /\ queue = [b \in Bucket |-> <<>>]
    /\ bucket = [b \in Bucket |-> [pc |-> "pop", task |-> NoTask, conn |-> NoConn]]
    /\ connections = {}
    /\ life = [c \in Conn |-> "new"]
    /\ session = [c \in Conn |-> NoTask]
    /\ handler = [c \in Conn |-> [pc |-> "idle", task |-> NoTask]]
    /\ senders = Conn
    /\ late = [c \in Conn |-> NoTask]
    /\ inbox = [c \in Conn |-> <<>>]
    /\ running = [c \in Conn |-> NoTask]
    /\ reported = {}
    /\ outbox = [c \in Conn |-> <<>>]
    /\ silent = {}
    /\ finishers = [t \in Task |-> 0]
    /\ attempts = [t \in Task |-> 0]
    /\ crashed = FALSE

-----------------------------------------------------------------------------
(* Tasks arrive: the API inserts a document, then enqueues the object.     *)

CreateTask(t) ==
    /\ ~db[t].present
    /\ db' = [db EXCEPT ![t] = Stored(mem[t])]
    /\ arriving' = arriving \cup {t}
    /\ UNCHANGED <<mem, cached, cancelling, queue, bucket, conns, remote, finishers,
                   attempts, crashed>>

\* The EnqueueTask of CreateTask, or of assignPendingTasks for a document.
ArrivingEnqueue(t) ==
    /\ t \in arriving
    /\ EnqueueTask(t)
    /\ arriving' = arriving \ {t}
    /\ UNCHANGED <<objects, bucket, conns, remote, finishers, attempts, crashed>>

\* handleDeleteTask reads a document that is neither completed nor finished.
CancelRead(t) ==
    /\ t \in CancelTasks
    /\ db[t].present /\ db[t].status \in {"pending", "processing"}
    /\ cancelling' = cancelling \cup {<<t, db[t].worker>>}
    /\ UNCHANGED <<mem, db, cached, dispatcher, conns, remote, finishers, attempts,
                   crashed>>

\* Whatever the dispatcher wrote since, the document is replaced by the copy,
\* cancelled; the object in the dispatcher is not told.
CancelWrite(t) ==
    \E w \in Conn \cup {NoConn} :
        /\ <<t, w>> \in cancelling
        /\ cancelling' = cancelling \ {<<t, w>>}
        /\ db' = [db EXCEPT ![t] = [present |-> TRUE, status |-> "finished",
                                   worker |-> w, cancelled |-> TRUE]]
        /\ UNCHANGED <<mem, cached, dispatcher, conns, remote, finishers, attempts,
                       crashed>>

-----------------------------------------------------------------------------
(* A bucket worker: pop a task, find a connection, assign, record, send.   *)

BucketAt(b, pc) == bucket[b].pc = pc

Goto(b, pc) == bucket' = [bucket EXCEPT ![b].pc = pc]

Idle(b) == bucket' = [bucket EXCEPT ![b] = [pc |-> "pop", task |-> NoTask,
                                            conn |-> NoConn]]

\* Mutant of PopTask: the nil that PopFront may return is not looked at.
PopUnchecked(b) ==
    /\ BucketAt(b, "pop")
    /\ bucket' = [bucket EXCEPT ![b].pc = "find"]
    /\ UNCHANGED <<objects, arriving, queue, conns, remote, finishers, attempts,
                   crashed>>

PopTask(b) ==
    /\ BucketAt(b, "pop")
    /\ queue[b] # <<>>
    /\ bucket' = [bucket EXCEPT ![b] = [pc |-> "find", task |-> Head(queue[b]),
                                        conn |-> NoConn]]
    /\ queue' = [queue EXCEPT ![b] = Tail(@)]
    /\ UNCHANGED <<objects, arriving, conns, remote, finishers, attempts, crashed>>

\* findSuitableConns stops at the first suitable connection of a map that Go
\* iterates in random order, so the pick is any suitable one.
findSuitableConn(b, c) ==
    /\ BucketAt(b, "find")
    /\ c \in connections
    /\ life[c] # "mapped"
    /\ Suitable(c, bucket[b].task)
    /\ bucket' = [bucket EXCEPT ![b] = [@ EXCEPT !.pc = "assign", !.conn = c]]
    /\ UNCHANGED <<objects, arriving, queue, conns, remote, finishers, attempts,
                   crashed>>

\* No suitable connection and no provisioner to grow: "no available worker".
findNoConn(b) ==
    /\ BucketAt(b, "find")
    /\ \A c \in connections : life[c] # "mapped" /\ ~Suitable(c, bucket[b].task)
    /\ Goto(b, "requeue")
    /\ UNCHANGED <<objects, arriving, queue, conns, remote, finishers, attempts,
                   crashed>>

\* HandleRegister publishes the connection before register() stores its
\* session: a scan that meets it there dereferences a nil session.
findPanics(b) ==
    /\ BucketAt(b, "find")
    /\ \E c \in connections : life[c] = "mapped"
    /\ crashed' = TRUE
    /\ UNCHANGED <<objects, dispatcher, conns, remote, finishers, attempts>>

AssignTask(b) ==
    /\ BucketAt(b, "assign")
    /\ session[bucket[b].conn] = NoTask
    /\ session' = [session EXCEPT ![bucket[b].conn] = bucket[b].task]
    /\ Goto(b, "record")
    /\ UNCHANGED <<objects, arriving, queue, connections, life, handler, senders,
                   remote, finishers, attempts, crashed>>

\* "already have assigned task": on to the requeue, no other is tried.
AssignRefused(b) ==
    /\ BucketAt(b, "assign")
    /\ session[bucket[b].conn] # NoTask
    /\ Goto(b, "requeue")
    /\ UNCHANGED <<objects, arriving, queue, conns, remote, finishers, attempts,
                   crashed>>

\* The metadata or the input of the task cannot be converted: nothing is written.
ConvertFails(b) ==
    /\ "convert" \in Faults
    /\ BucketAt(b, "record")
    /\ Goto(b, "clear")
    /\ UNCHANGED <<objects, arriving, queue, conns, remote, finishers, attempts,
                   crashed>>

\* sendTaskAssignment up to the UpdateTask(task, false).
RecordAssignment(b) ==
    /\ BucketAt(b, "record")
    /\ LET t == bucket[b].task IN
       /\ Write(t, [mem[t] EXCEPT !.status = "processing", !.worker = bucket[b].conn])
       /\ cached' = cached \cup {t}
    /\ Goto(b, "send")
    /\ UNCHANGED <<cancelling, arriving, queue, conns, remote, finishers, attempts, crashed>>

\* Mutant of SendOk: a message that was written is reported as an error.
SendOkAsError(b) ==
    /\ BucketAt(b, "send")
    /\ LET c == bucket[b].conn
           t == bucket[b].task
       IN /\ c \in senders
          /\ inbox' = [inbox EXCEPT ![c] = Append(@, t)]
          /\ attempts' = [attempts EXCEPT ![t] = @ + 1]
    /\ Goto(b, "revert")
    /\ UNCHANGED <<objects, arriving, queue, conns, late, running, reported,
                   outbox, silent, finishers, crashed>>

\* The sender wrote the message and SendPayload returns nil. Once serve() has
\* returned, what is written may no longer reach the worker.
SendOk(b) ==
    /\ BucketAt(b, "send")
    /\ LET c == bucket[b].conn
           t == bucket[b].task
       IN /\ c \in senders
          /\ \/ inbox' = [inbox EXCEPT ![c] = Append(@, t)]
             \/ life[c] = "removed" /\ UNCHANGED inbox
          /\ attempts' = [attempts EXCEPT ![t] = @ + 1]
    /\ Idle(b)
    /\ UNCHANGED <<objects, arriving, queue, conns, late, running, reported,
                   outbox, silent, finishers, crashed>>

\* SendPayload returns an error and the message is never written: the write
\* failed and the sender returned, or no sender serves the channel any more.
\* A call that finds the channel closed does not get that far: SendPanics.
SendFails(b) ==
    /\ BucketAt(b, "send")
    /\ LET c == bucket[b].conn IN
       /\ life[c] # "closed"
       /\ c \notin senders \/ "write" \in Faults \/ life[c] = "removed"
       /\ senders' = senders \ {c}
    /\ Goto(b, "revert")
    /\ UNCHANGED <<objects, arriving, queue, connections, life, session, handler,
                   remote, finishers, attempts, crashed>>

\* SendPayload gives up after 3 s while the sender still has the message; the
\* sender will block for ever on the result nobody reads.
SendTimesOut(b) ==
    /\ "slow" \in Faults
    /\ BucketAt(b, "send")
    /\ LET c == bucket[b].conn IN
       /\ c \in senders
       /\ senders' = senders \ {c}
       /\ late' = [late EXCEPT ![c] = bucket[b].task]
    /\ Goto(b, "revert")
    /\ UNCHANGED <<objects, arriving, queue, connections, life, session, handler,
                   inbox, running, reported, outbox, silent, finishers, attempts,
                   crashed>>

\* The channel was closed after the connection was picked: a send on a closed
\* channel panics.
SendPanics(b) ==
    /\ BucketAt(b, "send")
    /\ life[bucket[b].conn] = "closed"
    /\ crashed' = TRUE
    /\ UNCHANGED <<objects, dispatcher, conns, remote, finishers, attempts>>

\* The error path of sendTaskAssignment: back to pending, UpdateTask(task, true).
RevertAssignment(b) ==
    /\ BucketAt(b, "revert")
    /\ LET t == bucket[b].task IN
       /\ Write(t, [mem[t] EXCEPT !.status = "pending", !.worker = NoConn])
       /\ cached' = cached \ {t}
    /\ Goto(b, "clear")
    /\ UNCHANGED <<cancelling, arriving, queue, conns, remote, finishers, attempts,
                   crashed>>

\* Mutant of ClearAfterFailure: the session is not cleared.
ClearForgotten(b) ==
    /\ BucketAt(b, "clear")
    /\ Goto(b, "requeue")
    /\ UNCHANGED <<objects, arriving, queue, conns, remote, finishers, attempts,
                   crashed>>

\* assignTaskToWorker's error path.
ClearAfterFailure(b) ==
    /\ BucketAt(b, "clear")
    /\ session' = [session EXCEPT ![bucket[b].conn] = NoTask]
    /\ Goto(b, "requeue")
    /\ UNCHANGED <<objects, arriving, queue, connections, life, handler, senders,
                   remote, finishers, attempts, crashed>>

\* Mutant of RequeueTask: the error is logged and the task is not put back.
RequeueForgotten(b) ==
    /\ BucketAt(b, "requeue")
    /\ Idle(b)
    /\ UNCHANGED <<objects, arriving, queue, conns, remote, finishers, attempts,
                   crashed>>

\* The bucket worker puts the task back into the queue only it empties.
RequeueTask(b) ==
    /\ BucketAt(b, "requeue")
    /\ EnqueueTask(bucket[b].task)
    /\ Idle(b)
    /\ UNCHANGED <<objects, arriving, conns, remote, finishers, attempts, crashed>>

-----------------------------------------------------------------------------
(* A connection: register, serve, clean up.                                *)

\* The registration of a worker that runs nothing. Each registration of a
\* "none" provisioner gets a new worker id, so it is a Conn of its own.
HandleRegister(c) ==
    /\ life[c] = "new"
    /\ connections' = connections \cup {c}
    /\ life' = [life EXCEPT ![c] = "mapped"]
    /\ UNCHANGED <<objects, dispatcher, session, handler, senders, remote,
                   finishers, attempts, crashed>>

\* The registration of the worker process of a lost connection d, which
\* still runs its task and takes it along.
Reconnect(c, d) ==
    /\ "reconnect" \in Faults
    /\ life[c] = "new"
    /\ life[d] \in Gone
    /\ running[d] # NoTask
    /\ connections' = connections \cup {c}
    /\ life' = [life EXCEPT ![c] = "mapped"]
    /\ running' = [running EXCEPT ![c] = running[d], ![d] = NoTask]
    /\ reported' = IF d \in reported THEN (reported \ {d}) \cup {c} ELSE reported
    /\ inbox' = [inbox EXCEPT ![d] = <<>>]
    /\ UNCHANGED <<objects, dispatcher, session, handler, senders, late, outbox,
                   silent, finishers, attempts, crashed>>

StoreSession(c) ==
    /\ life[c] = "mapped"
    /\ life' = [life EXCEPT ![c] = "ready"]
    /\ UNCHANGED <<objects, dispatcher, connections, session, handler, senders,
                   remote, finishers, attempts, crashed>>

\* The registration response was written and the connection is served.
RegisterResponseOk(c) ==
    /\ life[c] = "ready"
    /\ c \in senders
    /\ life' = [life EXCEPT ![c] = "serving"]
    /\ UNCHANGED <<objects, dispatcher, connections, session, handler, senders,
                   remote, finishers, attempts, crashed>>

\* register() fails after HandleRegister: serveConnection returns without
\* removeConnection, and the map keeps a connection with a closed channel.
RegisterResponseFails(c) ==
    /\ life[c] = "ready"
    /\ "register" \in Faults \/ c \notin senders
    /\ life' = [life EXCEPT ![c] = "closed"]
    /\ senders' = senders \ {c}
    /\ late' = [late EXCEPT ![c] = NoTask]
    /\ outbox' = [outbox EXCEPT ![c] = <<>>]
    /\ UNCHANGED <<objects, dispatcher, connections, session, handler, inbox,
                   running, reported, silent, finishers, attempts, crashed>>

\* serve() returned: the worker went away, the read deadline passed, or the
\* health check closed the connection. What is on its way may be lost.
RemoveConnection(c) ==
    /\ "drop" \in Faults
    /\ life[c] = "serving"
    /\ handler[c].pc = "idle"
    /\ connections' = connections \ {c}
    /\ life' = [life EXCEPT ![c] = "removed"]
    /\ inbox' \in {inbox, [inbox EXCEPT ![c] = <<>>]}
    /\ outbox' = [outbox EXCEPT ![c] = <<>>]
    /\ UNCHANGED <<objects, dispatcher, session, handler, senders, late, running,
                   reported, silent, finishers, attempts, crashed>>

\* The deferred close(sendChannel) and conn.Close() of serveConnection.
CloseChannel(c) ==
    /\ life[c] = "removed"
    /\ life' = [life EXCEPT ![c] = "closed"]
    /\ senders' = senders \ {c}
    /\ late' = [late EXCEPT ![c] = NoTask]
    /\ UNCHANGED <<objects, dispatcher, connections, session, handler, inbox,
                   running, reported, outbox, silent, finishers, attempts, crashed>>

-----------------------------------------------------------------------------
(* The worker process.                                                     *)

\* The stalled sender finishes the write that SendPayload gave up on.
LateWrite(c) ==
    /\ late[c] # NoTask
    /\ inbox' = [inbox EXCEPT ![c] = Append(@, late[c])]
    /\ attempts' = [attempts EXCEPT ![late[c]] = @ + 1]
    /\ late' = [late EXCEPT ![c] = NoTask]
    /\ UNCHANGED <<objects, dispatcher, conns, running, reported, outbox, silent,
                   finishers, crashed>>

\* A busy worker drops an assignment with a warning. (One it cannot unpack it
\* answers with a failure: received and reported, in this model.)
WorkerReceive(c) ==
    /\ inbox[c] # <<>>
    /\ running' = [running EXCEPT ![c] = IF @ = NoTask THEN Head(inbox[c]) ELSE @]
    /\ silent' = IF running[c] = NoTask THEN silent
                 ELSE silent \cup {<<Head(inbox[c]), c>>}
    /\ inbox' = [inbox EXCEPT ![c] = Tail(@)]
    /\ UNCHANGED <<objects, dispatcher, conns, late, reported, outbox, finishers,
                   attempts, crashed>>

\* The task handler returned or raised and the report is sent: without a
\* connection it is lost. The send may yield before current_task is cleared.
WorkerReport(c, failed) ==
    /\ running[c] # NoTask
    /\ c \notin reported
    /\ outbox' = IF life[c] \in Gone THEN outbox
                 ELSE [outbox EXCEPT ![c] =
                         Append(@, [task |-> running[c], failed |-> failed])]
    /\ \/ running' = [running EXCEPT ![c] = NoTask] /\ UNCHANGED reported
       \/ "lag" \in Faults /\ reported' = reported \cup {c} /\ UNCHANGED running
    /\ UNCHANGED <<objects, dispatcher, conns, late, inbox, silent, finishers,
                   attempts, crashed>>

\* The report cannot be encoded: _send_task_complete logs that, and the worker is
\* free again.
WorkerSwallows(c) ==
    /\ "encode" \in Faults
    /\ running[c] # NoTask
    /\ c \notin reported
    /\ running' = [running EXCEPT ![c] = NoTask]
    /\ silent' = silent \cup {<<running[c], c>>}
    /\ UNCHANGED <<objects, dispatcher, conns, late, inbox, reported, outbox,
                   finishers, attempts, crashed>>

WorkerIdle(c) ==
    /\ c \in reported
    /\ reported' = reported \ {c}
    /\ running' = [running EXCEPT ![c] = NoTask]
    /\ UNCHANGED <<objects, dispatcher, conns, late, inbox, outbox, silent,
                   finishers, attempts, crashed>>

-----------------------------------------------------------------------------
(* The message handlers.                                                   *)

\* The worker id GetTaskById finds: in the cached object, else in the document.
OwnerOf(t) == IF t \in cached THEN mem[t].worker ELSE db[t].worker

\* handleTaskComplete and handleTaskFailed up to taskComplete.
HandleReport(c) ==
    /\ life[c] = "serving"
    /\ handler[c].pc = "idle"
    /\ outbox[c] # <<>>
    /\ OwnerOf(Head(outbox[c]).task) = c
    /\ outbox' = [outbox EXCEPT ![c] = Tail(@)]
    /\ LET r == Head(outbox[c]) IN
       /\ mem' = [mem EXCEPT ![r.task].failed = r.failed]
       /\ handler' = [handler EXCEPT ![c] = [pc |-> "settle", task |-> r.task]]
    /\ session' = [session EXCEPT ![c] = NoTask]
    /\ UNCHANGED <<db, cached, cancelling, dispatcher, connections, life, senders,
                   late, inbox, running, reported, silent, finishers, attempts, crashed>>

\* "worker does not own this task": the report is dropped.
RejectReport(c) ==
    /\ life[c] = "serving"
    /\ handler[c].pc = "idle"
    /\ outbox[c] # <<>>
    /\ OwnerOf(Head(outbox[c]).task) # c
    /\ outbox' = [outbox EXCEPT ![c] = Tail(@)]
    /\ UNCHANGED <<objects, dispatcher, conns, late, inbox, running, reported,
                   silent, finishers, attempts, crashed>>

\* taskComplete: the new status, the Update, and asyncTaskFinish for what is
\* neither finished nor to be retried.
TaskComplete(c) ==
    /\ handler[c].pc = "settle"
    /\ LET t == handler[c].task
           o == Settled(t)
       IN /\ Write(t, o)
          /\ handler' = [handler EXCEPT ![c] =
                IF o.status = "pending" THEN [pc |-> "enqueue", task |-> t]
                                        ELSE [pc |-> "idle", task |-> NoTask]]
          /\ finishers' = [finishers EXCEPT ![t] =
                IF o.status = "completed" THEN @ + 1 ELSE @]
    /\ UNCHANGED <<cached, cancelling, dispatcher, connections, life, session,
                   senders, remote, attempts, crashed>>

TaskCompleteEnqueue(c) ==
    /\ handler[c].pc = "enqueue"
    /\ EnqueueTask(handler[c].task)
    /\ handler' = [handler EXCEPT ![c] = [pc |-> "idle", task |-> NoTask]]
    /\ UNCHANGED <<objects, arriving, bucket, connections, life, session, senders,
                   remote, finishers, attempts, crashed>>

\* taskFinish: the webhook was delivered and the document is updated.
TaskFinish(t) ==
    /\ finishers[t] > 0
    /\ Write(t, [mem[t] EXCEPT !.status = "finished"])
    /\ finishers' = [finishers EXCEPT ![t] = @ - 1]
    /\ UNCHANGED <<cached, cancelling, dispatcher, conns, remote, attempts, crashed>>

\* The webhook failed: the finished object goes back to the assignment queue.
TaskFinishFails(t) ==
    /\ "webhook" \in Faults
    /\ finishers[t] > 0
    /\ attempts[t] <= WebhookLosses
    /\ mem' = [mem EXCEPT ![t].status = "finished"]
    /\ EnqueueTask(t)
    /\ finishers' = [finishers EXCEPT ![t] = @ - 1]
    /\ UNCHANGED <<db, cached, cancelling, arriving, bucket, conns, remote, attempts,
                   crashed>>

-----------------------------------------------------------------------------
Api(t) == CreateTask(t) \/ ArrivingEnqueue(t) \/ CancelRead(t) \/ CancelWrite(t)

BucketWorker(b) ==
    \/ PopTask(b) \/ findNoConn(b) \/ findPanics(b)
    \/ \E c \in Conn : findSuitableConn(b, c)
    \/ AssignTask(b) \/ AssignRefused(b) \/ ConvertFails(b) \/ RecordAssignment(b)
    \/ SendOk(b) \/ SendFails(b) \/ SendTimesOut(b) \/ SendPanics(b)
    \/ RevertAssignment(b) \/ ClearAfterFailure(b) \/ RequeueTask(b)

Register(c) ==
    \/ HandleRegister(c) \/ \E d \in Conn : Reconnect(c, d)
    \/ StoreSession(c)
    \/ RegisterResponseOk(c) \/ RegisterResponseFails(c)

Handle(c) ==
    \/ HandleReport(c) \/ RejectReport(c)
    \/ TaskComplete(c) \/ TaskCompleteEnqueue(c)

Unregister(c) == RemoveConnection(c) \/ CloseChannel(c)

RemoteWorker(c) ==
    \/ LateWrite(c) \/ WorkerReceive(c) \/ WorkerIdle(c) \/ WorkerSwallows(c)
    \/ \E failed \in BOOLEAN : WorkerReport(c, failed)

Finisher(t) == TaskFinish(t) \/ TaskFinishFails(t)

Next ==
    /\ ~crashed
    /\ \/ \E t \in Task : Api(t) \/ Finisher(t)
       \/ \E b \in Bucket : BucketWorker(b)
       \/ \E c \in Conn : Register(c) \/ Handle(c) \/ Unregister(c) \/ RemoteWorker(c)

Spec == Init /\ [][Next]_vars

\* Goroutines that can take a step take one; workers connect, receive and
\* finish what they run; webhooks are answered. ~crashed is part of each
\* action because nothing runs in a process that is gone.
Fairness ==
    /\ \A t \in Task : /\ WF_vars(~crashed /\ ArrivingEnqueue(t))
                       /\ WF_vars(~crashed /\ TaskFinish(t))
    /\ \A b \in Bucket : WF_vars(~crashed /\ BucketWorker(b))
    /\ \A c \in Conn : /\ WF_vars(~crashed /\ Register(c))
                       /\ WF_vars(~crashed /\ Handle(c))
                       /\ WF_vars(~crashed /\ RemoteWorker(c))

FairSpec == Spec /\ Fairness

-----------------------------------------------------------------------------
(* Where a task can be: every hand that holds it. A worker that sent its   *)
(* report no longer counts.                                                *)

Hands(t) ==
    {<<"arriving", 0, 0>> : x \in arriving \cap {t}}
    \cup (UNION {{<<"queue", b, i>> : i \in {j \in DOMAIN queue[b] : queue[b][j] = t}}
                   : b \in Bucket})
    \cup {<<"bucket", b, 0>> : b \in {d \in Bucket : bucket[d].task = t}}
    \cup (UNION {{<<"inbox", c, i>> : i \in {j \in DOMAIN inbox[c] : inbox[c][j] = t}}
                   : c \in Conn})
    \cup {<<"worker", c, 0>> : c \in {d \in Conn \ reported : running[d] = t}}
    \cup (UNION {{<<"outbox", c, i>> : i \in {j \in DOMAIN outbox[c] : outbox[c][j].task = t}}
                   : c \in Conn})
    \cup {<<"handler", c, 0>> : c \in {d \in Conn : handler[d].task = t}}
    \cup {<<"finisher", 0, i>> : i \in 1..finishers[t]}

Queued(t) == \E b \in Bucket : \E i \in DOMAIN queue[b] : queue[b][i] = t

\* The bucket worker holds t and has not recorded it, or took the record back.
Dispatching(t) ==
    \E b \in Bucket : /\ bucket[b].pc \notin {"pop", "send", "revert"}
                      /\ bucket[b].task = t

Retrying(t) == \E c \in Conn : handler[c].pc = "enqueue" /\ handler[c].task = t

Ticket(t) == t \in arriving \/ Queued(t) \/ Dispatching(t) \/ Retrying(t)

\* A created task whose object says pending is always on its way to a queue,
\* in one, or in the hand of the bucket worker: assigning, failing to, backing
\* out and retrying never drop the last reference to it. Whatever goes wrong.
NoTicketLost ==
    \A t \in Task :
        db[t].present /\ mem[t].status = "pending" => Ticket(t)

\* As long as no send is slow, a task is in one place at most: queued once, or
\* with one bucket worker, or on one worker, or in one report. Two executions
\* of the same attempt need two of them.
SingleCustody == \A t \in Task : Cardinality(Hands(t)) <= 1

\* What a session says and what the task objects say agree: a busy session is
\* held by the bucket worker that is assigning or by the processing task its
\* worker owns; a processing task occupies the session of its worker until
\* the handler of its report clears it. So no two tasks share a worker.
SessionAgreement ==
    /\ \A c \in Conn : session[c] # NoTask =>
          \/ mem[session[c]].status = "processing" /\ mem[session[c]].worker = c
          \/ \E b \in Bucket : /\ bucket[b].pc \in {"record", "send", "revert", "clear"}
                               /\ bucket[b].conn = c
                               /\ bucket[b].task = session[c]
    /\ \A b \in Bucket : bucket[b].pc \in {"record", "send", "revert", "clear"}
          => session[bucket[b].conn] = bucket[b].task
    /\ \A t \in Task : mem[t].status = "processing" =>
          \/ session[mem[t].worker] = t
          \/ handler[mem[t].worker] = [pc |-> "settle", task |-> t]

\* A task is written to a worker once, and once more for every retry its
\* failures were granted: backing out of a failed send costs no attempt, and
\* no attempt is made beyond the budget.
AttemptBudget ==
    \A t \in Task : /\ attempts[t] <= mem[t].retried + 1
                    /\ mem[t].retried <= MaxRetry[t]

\* A document that is not finished and that nobody holds any more is one whose
\* worker's connection is gone, or whose worker ended the attempt in silence: it
\* could not encode its report, or was busy when the assignment came. The
\* controller itself, with all it backs out of and retries, orphans no task.
OrphansAreExplained ==
    \A t \in Task :
        db[t].present /\ db[t].status # "finished" /\ Hands(t) = {}
            => /\ mem[t].worker \in Conn
               /\ life[mem[t].worker] \in Gone \/ <<t, mem[t].worker>> \in silent

\* A document the dispatcher finished is never written again, by no late
\* assignment, report or webhook goroutine, but for a cancel that had read it
\* before. (One that a cancel finished is: the dispatcher goes on with its object,
\* whose next Update overwrites it.)
FinishedIsFinal ==
    [][\A t \in Task :
          /\ db[t].present /\ db[t].status = "finished" /\ ~db[t].cancelled
          /\ \A w \in Conn \cup {NoConn} : <<t, w>> \notin cancelling
          => db'[t] = db[t]]_vars

\* Without faults every created task is finished in the end, by as many
\* retries as it takes, unless a panic ends the process first.
EveryTaskFinishes ==
    \A t \in Task : db[t].present ~> (db[t].status = "finished" \/ crashed)

\* "EnqueueTask adds a task to the appropriate queue bucket": a bucket worker
\* that puts a task back gets to do so.
RequeueReturns ==
    \A b \in Bucket : BucketAt(b, "requeue") ~> (~BucketAt(b, "requeue") \/ crashed)

-----------------------------------------------------------------------------
(* The dispatcher implements the task service.                             *)

Waiting(t) == \/ t \in arriving \/ Queued(t) \/ Retrying(t)
              \/ \E b \in Bucket : bucket[b].task = t

\* Who holds the task, and else what its object says: a cancel changes the document
\* only.
phase == [t \in Task |->
    IF ~db[t].present THEN "unknown"
    ELSE IF Waiting(t) THEN "waiting"
    ELSE IF Hands(t) # {} THEN "executing"
    ELSE IF mem[t].status = "finished" THEN "done" ELSE "lost"]

Service == INSTANCE TaskService WITH phase <- phase, tries <- attempts

\* With any faults but slow sends and lost webhooks, every step of the
\* dispatcher is a step of the service or invisible to it, that of a cancel too.
ImplementsTaskService == Service!Spec
=============================================================================
