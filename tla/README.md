# distworker in TLA+

A verification project for distworker: a controller (Go) that takes tasks over
HTTP, keeps them in MongoDB and hands them to worker processes (Python) over
websockets. The modules model the code under `src/`; TLC checks them on small
instances; TLAPS proves what matters most for every instance. File names below
are relative to `src/go/pkg/controller/` unless they start with `src/`.

## 1. The system

| component | state | operations | what makes it correct |
|---|---|---|---|
| Task dispatcher, `worker/manager.go` | eight bucket queues (`queueBuckets`), `connections`, `processingTasks`, the `*Task` objects, `CurrentTask` of each session | `EnqueueTask`, a bucket worker per queue, `HandleRegister`, `RemoveConnection`, the message handlers, webhook goroutines, a health ticker, `cleanupGarbage`, `Shutdown` | no task lost, none run twice at a time, retries within the budget, one task per worker, what is finished stays finished |
| Connection, `worker/websocket/` | send channel (10), the sender goroutine, session, ping and pong times | `register`, `serve`, `sender`, `SendPayload`, `Close` | an error from `SendPayload` means the message is not delivered; every caller returns; a dead link leaves the map |
| Task API, `handlers.go` | none | create, cancel, get, list, wait | a waiter gets the task's end; a result is not lost to a cancel or a restart |
| Repositories, `src/go/internal/controller/mongodbrepo/` | task, queue and session documents | create, replace, heartbeat update, list, statistics | whole-document replacement must not undo another writer |
| Event bus, `subscriber/subscriber.go` | topics with progress, `done`, waiters | `Listener`, `EmitProgress`, `Finish`, `Wait`, `Progress` | every waiter wakes up; progress complete and in order |
| Startup recovery, `worker/manager.go` 105-121, 745-761, 797-826 | documents of the former run | `cleanupGarbage`, `assignPendingTasks` | each unfinished task is in somebody's hands again, none that is finished |
| Provisioners, `src/go/internal/provisioner/` | `CurrentWorkers`, child processes, contexts | `IsGrowable`, `Grow`, `Shutdown` | `Grow` returns; a grown worker lives; who is connected is listed and reported |
| Worker process, `src/python/distworker/client/worker.py` | `current_task`, `connected`, progress queue | connect, register, heartbeat, receive, run, report, idle exit | each task is released, its report comes last, registration first |
| Health checks, `src/go/pkg/healthchecker/` | a status and details shared by goroutines | `Check` | the worst status wins |
| Authentication, `src/go/internal/protocol/auth.go`, `src/python/distworker/client/auth.py` | clocks on both sides | sign, validate | the right token within five minutes is accepted, nothing else |
| File storage, `src/go/internal/storage/` | directories with a metadata file, or objects | `Upload`, `Download`, `Delete` | what was accepted is served, whole |
| Server, `server.go`, `src/go/cmd/controller/main.go` | the process, its listeners, the database client, the configured queues | `NewServer`, `Start`, `Stop`, the queue handlers | handlers never outlive the database; configured queues exist; deleted ones stay deleted |
| Metrics, `src/go/pkg/metrics/metrics.go` | Prometheus gauges | collect, by a ticker and by requests | gauges show what is there; not modelled, see section 7 |
| OpenAI API, configuration, API types, deployment | none of their own | conversions | see section 7 |

How they interact: an API handler inserts a document and puts the `*Task` object
into a bucket queue; the bucket's goroutine pops it, picks a connection from the
map that the serve goroutines maintain, takes the session, writes the document
and passes the message to the connection's sender over a channel; the worker's
report comes back through the serve goroutine of the connection, which clears
the session, settles the task, writes the document, tells the event bus and
enqueues a retry or starts a webhook goroutine. When no worker is free the
bucket worker has a provisioner start one and waits for its registration. The
goroutines share the objects by pointer; only the connection map, a session's
`CurrentTask` and the queues have locks, each of its own.

What is hard: every one of these steps may be overtaken by another goroutine or
by the loss of the connection; a send may fail, be given up on while it still
succeeds, or meet a closed channel; workers come back busy; queues are
bounded and their consumers are producers too; sessions and map entries are
removed by worker id when any connection of the worker ends; documents are replaced whole by
writers that read them earlier; the process may end between any two steps and
start again from the documents. `PROJECT.json` lists the hazards
at their lines with the properties that would catch them going wrong. Where the code
already does what the hazard says, a property that holds has to except it; then the
hazard names no property, and its note says which exception it is.

## 2. The modules

| module | what it is |
|---|---|
| `TaskService` | the promise to a client: a task is submitted, started at most `1 + MaxRetry` times, never twice at a time, done for good, or lost with its worker |
| `WorkerManager` | the dispatcher for one run of the controller process, with the API that feeds it and the workers that answer; refines `TaskService` |
| `WorkerManagerProofs` | type correctness and `NoTicketLost` for every instance, `OrphansAreExplained` for every one without cancels |
| `WorkerManagerCustodyProofs` | who holds a task: `SingleCustody`, `SessionAgreement`, `FinishedIsFinal`, `AttemptBudget` for every instance without slow sends |
| `WorkerManagerServiceProofs` | the refinement of `TaskService`, step by step |
| `SendContract` | what `Connection.SendPayload` promises its caller, message by message |
| `WsConnection` | one websocket connection on the controller's side: `register`, the sender, `SendPayload`, the read deadline, the deferred calls; refines `SendContract` |
| `WsConnectionProofs` | types, the refinement, that nothing follows an abandoned message, no caller is forgotten and nothing shut is listed, for every instance |
| `TaskEventBus` | one topic of the event bus, the client that waits or streams, and the dispatcher that feeds it |
| `TaskEventBusProofs` | types, the order of a stream, the waiter's topic and its answer, and that no topic is stranded, for every instance |
| `TaskRecovery` | task documents over restarts, and all that replaces them: startup, dispatcher, webhook, progress, cancel |
| `TaskRecoveryProofs` | every safety property of `TaskRecovery`, for every number of tasks and mishaps |
| `WorkerPool` | connections, session documents and the provisioner: how workers come, are listed, and go |
| `WorkerPoolProofs` | every safety property of `WorkerPool`, for every number of workers, links and bucket workers |
| `PythonWorker` | the worker process of the Python SDK |
| `ControllerServer` | the controller process from `NewServer` to its exit, and the queue documents |
| `FileStorage`, `HealthCheck`, `Signatures` | one file; one health check; signed requests |
| `MCWorkerManager`, `MCWsConnection`, `MCTaskEventBus`, `MCTaskRecovery`, `MCWorkerPool` | the instances TLC checks |
| `Services` | the five parts that share no state with any other (`PythonWorker` to `Signatures`), one instance of each, and one name for the property of each |
| `MCServices` | a run for `Services`: each behaviour is one of one part, so that it checks them without their product |
| `ServicesProofs` | the safety property of each of these five parts, for all values of its constants |

### WorkerManager and the code

Each goroutine is a process; an action is what happens between two points where
another goroutine can observe or change shared state.

| state | code |
|---|---|
| `mem`, `db`, `cached`, `cancelling` | the `*Task` object, its document, the keys of `processingTasks`, the documents that `handleDeleteTask` has read and not written |
| `arriving`, `queue` | tasks between their insertion (or `assignPendingTasks`) and `PushBack`; `taskAssignQueues` |
| `bucket[b]` | the program counter and locals of `taskAssignmentWorkerBucket(b)`: pop, find, assign, record, send, revert, clear, requeue |
| `connections`, `life`, `session` | `wm.connections`; how far `serveConnection` got; `CurrentTask` |
| `handler[c]` | the message the serve goroutine is handling: settle is `taskComplete`, enqueue its last step |
| `senders`, `late` | connections whose sender goroutine still answers; the message it still holds after `SendPayload` gave up |
| `inbox`, `outbox`, `running`, `reported` | the two directions of the websocket, and the worker process |
| `finishers` | the goroutines of `asyncTaskFinish` |
| `attempts`, `silent` | history variables: how often a task was written to a worker; the attempts a worker ended without a report |
| `crashed` | a goroutine panicked, and with it the process |

| actions | code |
|---|---|
| `CreateTask`, `ArrivingEnqueue` | `CreateTask` in two steps; `assignPendingTasks` for `InitialTasks` |
| `CancelRead`, `CancelWrite` | `handleDeleteTask`: the document is read and checked, then replaced; the dispatcher's object is not told |
| `PopTask`, `findSuitableConn`, `findNoConn`, `findPanics` | the pop; the scan of the map, which Go iterates in random order and which panics on a connection that has no session yet |
| `AssignTask`, `AssignRefused`, `ConvertFails`, `RecordAssignment` | `session.AssignTask`; the conversion into a message; the fields and `UpdateTask(task, false)` |
| `SendOk`, `SendFails`, `SendTimesOut`, `SendPanics`, `LateWrite` | the outcomes of `SendPayload`, and the write of a sender nobody waits for |
| `RevertAssignment`, `ClearAfterFailure`, `RequeueTask` | the error path, step by step |
| `HandleRegister`, `Reconnect`, `StoreSession`, `RegisterResponseOk`, `RegisterResponseFails` | registration: the map first, the session after it, the response last |
| `RemoveConnection`, `CloseChannel` | the deferred calls of `serveConnection` |
| `WorkerReceive`, `WorkerReport`, `WorkerSwallows`, `WorkerIdle` | the worker process: an assignment, its report or the exception that swallows it, and `current_task` cleared |
| `HandleReport`, `RejectReport`, `TaskComplete`, `TaskCompleteEnqueue` | the completion and failure handlers |
| `TaskFinish`, `TaskFinishFails` | the webhook goroutine |

Abstractions. A field assignment and the `Update` that follows it are one step,
and the database does not fail. A worker of a "none" provisioner gets a new id at
each registration, so every registration is a `Conn` of its own. A read error,
the pong timeout and `Close` by the health ticker all end `serve()`: one action.
The API never sets `WebhookUrl`, so only documents found at the start have one.
What is in flight when a connection ends may or may not arrive.

At the start every pending document has been read into one object. That
`assignPendingTasks` runs while the API creates tasks, which gives two objects of one
task, is left to `TaskRecovery`: there a task has an object for each of its makers.

A cancel changes the document only. The dispatcher's next `Update` replaces it, so a
task that a client cancelled may be run, retried and finished: `FinishedIsFinal` is
about what the dispatcher finished, and the refinement of `TaskService` looks at who
holds a task and at its object (`phase`). The copy that a cancel writes may name a
worker whose send was given up, and the report of that worker would be settled on a
second object of the task; the module assumes cancels and slow sends away from each
other.

`Faults` chooses what may go wrong in an instance, so that a run says which fault
a property survives. Some combinations are left out because the code really
breaks the property there, and the model shows how: with `slow`, a send that
timed out may still be delivered, and the task runs on two workers
(`SingleCustody`, `AttemptBudget` fail); with `drop`, a task on a lost connection stays in
processing until the controller restarts, as it does with `encode`, `lag` or
`reconnect`, when a worker swallows its report or drops an assignment while busy
(`EveryTaskFinishes` fails).

### WsConnection and the code

`SendPayload` puts a message and an unbuffered result channel into the send
channel and waits 3 s for the result; the sender goroutine takes messages one by
one, writes each (for up to 10 s) and hands the result over; `serve` reads until an
error, the read deadline or the end of the socket. The deferred calls of
`serveConnection` then remove the connection from the map, close the send channel
and close the socket, in this order.

| state | code |
|---|---|
| `call[m]` | how far the `SendPayload` of message `m` got, and what it returned; the registration response is one of the messages |
| `channel`, `shut` | `sendChannel` and whether it is closed |
| `sender` | the sender goroutine: idle, writing, with a result to hand over, gone |
| `serve`, `listed`, `socket` | the steps of `serveConnection`; whether the map holds the connection; whether the socket lives |
| `wire` | history variable: what was written, in order |
| `crashed` | a send on the closed channel |

| actions | code |
|---|---|
| `HandleRegister`, `RegisterFails`, `Registered`, `ResponseFails` | `register` and its failures |
| `Pick` | a dispatcher goroutine finds the connection in the map; it may send later |
| `Offer`, `OfferFull`, `OfferPanics`, `TimeOut` | the two selects of `SendPayload` |
| `SenderTake`, `SenderQuit`, `WriteOk`, `WriteFails`, `Report` | the loop of `sender` |
| `HandleMessage`, `HandlerReturns` | `serve` is in a message handler and reads nothing meanwhile |
| `ServeEnds`, `RemoveConnection`, `CloseChannel`, `CloseSocket`, `SocketEnds` | the end of the connection |

`SendContract` says: ok means written; refused means never written; timed out
means that the message is written last or never. This is what `WorkerManager`
assumes: `SendOk` hands the assignment to the worker, `SendFails` does not, and
after `SendTimesOut` the connection leaves `senders` for good, with at most one
`LateWrite`. The reason it leaves for good is line 191 of `worker/websocket/connection.go`:
the sender offers its result on an unbuffered channel that nobody reads any more.

### TaskEventBus and the code

| state | code |
|---|---|
| `mapped`, `done`, `progress` | the topic in `busImpl.topics`, `eventTopic.done` (with `doneCh`), `eventTopic.progress` |
| `growing` | the middle of `append`: the new length is stored and the element is not, which the unlocked reader can see |
| `stream` | the goroutine of `Progress`: its place in the loop, `progressIndex`, `progressSize` |
| `kind`, `client`, `result`, `received` | the HTTP handler: `handleCreateTask` or an OpenAI handler, what it got |
| `status`, `tries`, `settled` | the task object as `taskComplete` leaves it before and after its call of `Finish` |

| actions | code |
|---|---|
| `Listener`, `Submit`, `SubmitFails` | `CreateTask`: the topic, the insert, the enqueue |
| `WaitReturns`, `ClientLeaves` | `Wait` returns; the request's context or the wait time ends |
| `CheckDone`, `ReadSize`, `SendProgress`, `SendTorn`, `AllSent`, `FallAsleep` | each unlocked read of `Progress`, each send, the wait on the condition variable |
| `EmitProgress`, `EmitBroadcast` | `EmitProgress` around the torn append |
| `Dispatch`, `Settle`, `Finish` | assignment; the two halves of `taskComplete` |

One task is enough: topics share nothing but the map's lock, under which every
operation is short. The model keeps three weaknesses of the code in view without a property
for them: a `Finish` between the check of `done` and the wait leaves the
goroutine asleep on a finished topic; what was emitted since the last round is
not sent once `done` is set; a failed insert leaves its topic behind.

### TaskRecovery and the code

A document is read into an object of its own each time (`CreateTask`,
`assignPendingTasks`, `cleanupGarbage`), so a task may have three objects,
`obj[t][maker]`, and each `Update` replaces the whole document. The steps of
`WorkerManager` between pop and send are one action here (`Assign`) and workers
are never short; in return the process may crash between any two steps
(`Crash`, `Start`), the database may fail, and progress may come late.

| state | code |
|---|---|
| `doc`, `obj`, `cached` | documents, objects by who made them, `processingTasks` |
| `phase`, `toClean`, `toList` | the process, and what the two cursors of the startup have still to visit |
| `enqueuing`, `queued`, `running`, `finishers`, `posting` | in whose hands an object is |
| `cancelling` | what `handleDeleteTask` has read and not written back |
| `mishaps`, `erred` | the bound on crashes and errors; whether the database failed |

What the model shows of the code. `cleanupGarbage` runs before
`queueConsuming` is set, so an interrupted task with a retry left is settled as
pending and, instead of being enqueued, handed to the goroutine that finishes
it: whether it is run again or ends as "controller restarted" depends on who
reads the document first, `assignPendingTasks` or that goroutine. A task that
the API creates while the cursor is open is dispatched twice, as two objects. A
cancel is overwritten by the dispatcher's next write, and the worker is never
told. The webhook of a completed document is forgotten by a restart.
`ResultLossIsBlamed` says that nothing else loses a result.

### WorkerPool and the code

| state | code |
|---|---|
| `grow`, `expired`, `instance`, `root` | how far each `Grow` is; its 60 s context, that of the instance, that of the server |
| `process`, `dialed`, `linked` | the worker process and its connections |
| `serve`, `listed` | the serve goroutine of each connection; the entry of each id in `wm.connections` |
| `session`, `beaten` | the session documents, and those with a `last_heartbeat` for the TTL index |
| `gone` | the controller process is gone: exit or panic |

| actions | code |
|---|---|
| `Grow`, `GrowFails`, `WaitForWorkerReady`, `WaitFails`, `Expire`, `Assign`, `AssignPanics` | `Grow` with a session that cannot be inserted or a process that cannot be started; the wait; the assignment by the closure of `processTaskAssignment` |
| `CancelInstance`, `Kill`, `ShutdownObeyed`, `ProcessWaited`, `ProcessExits` | the goroutines that keep the process, and what ends it |
| `Dial`, `Drop` | the worker makes its next connection, under its id, and loses it |
| `RegisterCheck`, `RegisterUpdate`, `RegisterPublish`, `Registered` | `HandleRegister`: the document is read or inserted, replaced, the connection put into the map; then the session and the response |
| `RemoveConnection`, `DeleteSession`, `SessionExpires` | the end of a connection: the map entry of its id, then the document of its id; the TTL index |

What the model shows of the code. The end of a connection removes by id, whoever has
the id by now: first the map entry (`RemoveConnection`), then the session document
(`worker/websocket/listener.go` 85). A worker that reconnected before its former
connection ended is connected and gets no tasks, and is connected and not reported;
nobody writes its document again, since a registration and a heartbeat only replace one that
is there, so it cannot register a third time either. `HiddenBlamesFormerLink` and
`ConnectedIsReported` say that this and a `Grow` that gave up are the only ways.
A registration reads the document and replaces it in two steps;
`DeletedStaysDeleted` says that it never brings one back. `CurrentWorkers` is never
counted, so `Autoscale.Max` limits nothing, and there is no bound to state. A `Grow` that fails
by its time-out deletes its session with the context that has just ended, so the
document stays, and without a heartbeat the TTL index never removes it. A connection
that is in the map before it has its session makes the dispatcher panic.

### PythonWorker and the code

One event loop: an action is what happens between two awaits. `link`, `wire`
are the websocket and what was written to it, `current` is `current_task`,
`step[a]` the place of assignment `a` in `_process_task`, `queue[a]` its progress queue,
`manager` the connection manager and `run`. An assignment is a message: a task that is
retried comes as another one under the same task id, over the same connection, and
`_handle_task_assignment` looks at `current_task` only. So on the wire the failure
report of a task may be followed by the progress of its first attempt (a handler that
raises does not wait for its queue) and by all of the second; `WireIsOrdered` speaks of
assignments. `Connect` writes the registration, `HandleTaskAssignment` takes no
assignment while `current_task` is set, `AssignmentFails` answers one that cannot be
unpacked with a failure, `SendTaskComplete` waits for the progress queue (`join`),
`SendTaskFailed` does not, and what `_send_message` cannot write is lost. A result or an
error text that protobuf refuses raises inside `_send_task_complete` or
`_send_task_failed`, which log it: the worker is released and the task never reported. A
manager that gave up (`max_reconnect_attempts`) leaves a process without connection;
only `idle_time` ends it.

### The small modules and the code

- `ControllerServer`: `phase` is where `main`, `NewServer`, `Start` or the way down
  is. Without a storage type `setDefaults` writes into a map that nobody made and
  panics, so the default it means to set is never reached. `createIndexes` drops
  the TTL index of the sessions when its expiry differs and makes it anew, in two
  steps that an exit may part. `queues` says of each queue document whether it is from the configuration or
  the API; each request is at a step of its handler. `Shutdown` of the API server
  waits for handlers up to 30 s, which a handler that waits for a task uses up,
  because the workers are closed first. `UpdateQueue` replaces what it read
  before: of a queue deleted meanwhile nothing is written and the client is told
  the opposite.
- `FileStorage`: the four steps of `LocalStorage.Upload`, the two of
  `S3Storage.Upload`, lookup and open, and `RemoveAll` entry by entry. Every one of
  them may fail by I/O; a lookup or an open that does ends its download with that
  error, which says nothing of the file. Local
  storage writes the client's filename as a line into a file beside the data:
  names with a line break, empty names and `.metadata` are accepted and not
  served. The server reaches only `Health` and `Close` of the storage: a multipart
  request comes to `handleCreateTaskWithFiles` (`handlers.go` 62), which parses the form and then
  asks `ShouldBindJSON` for the same body, so it answers 400 before any upload; and the
  route of the worker's download spells
  its parameter `{file_id}`, which gin takes literally.
- `HealthCheck`: a Go string is two words, each stored on its own, so that two
  failing features may leave the text of one status with the length of another.
- `Signatures`: HMACs are records of what they cover. The modelled clients are
  both of Go and Python, for registration and HTTP; the Python HTTP signature
  cannot be accepted ("WorkerId", no date header), and Go never signs a payload's
  hash because it looks for its header under a lower-case key.

## 3. The runs

| run | instance | shows |
|---|---|---|
| `service` | 2 tasks, 2 workers, 2 buckets; lost connections, failing writes and registrations, workers that return busy or lag, failing conversions, one task that is cancelled at any time | `SessionAgreement`: no two tasks on a worker, no session busy for nothing; `SingleCustody`, `AttemptBudget`, `FinishedIsFinal`, `ImplementsTaskService` |
| `slow` | 2 tasks, 2 workers, one bucket of capacity 1; sends that time out, lost connections, failing writes and registrations, workers that lag, return busy or swallow a report | `NoTicketLost` where the queue blocks and messages come late; `OrphansAreExplained` |
| `live` | 2 tasks, 2 workers, 2 buckets, one webhook lost once | `EveryTaskFinishes` |
| `full` | 3 tasks, 1 worker, capacity 1, no fault | a violation: `RequeueReturns` |
| `link` | 1 registration response and 4 assignments, a channel of 2, slow and failing writes, lost sockets, refused registrations | `AbandonedIsLast`; `ImplementsSendContract`; `DeadLinkIsRemoved`, unless `serve` is in a message handler for ever; `CallersReturn` |
| `unsent` | one slow write | a violation: `ErrorMeansUnsent` |
| `bus` | one retry, 3 progress messages, clients that leave, failing inserts | `StreamIsPrefix`, `WaitMeansSettled`, `WaiterIsAnswered`, `SleeperIsWoken`, `TopicIsReleased` |
| `wait_retry` | one retry | a violation: `WaitMeansFinished` |
| `recovery` | 1 task with a retry and a webhook, 2 mishaps (crash, database error, lost webhook), cancels, late progress | `UnfinishedIsHeld`, `FinishedSurvivesRestart`, `ResultLossIsBlamed`, `EveryTaskSettles` |
| `pool` | 1 provisioned worker with 2 connections, 1 external, every fault | `HiddenBlamesFormerLink`, `ListedIsServed`, `ConnectedIsReported`, `DeletedStaysDeleted`, `GrowReturns` |
| `grown` | 2 provisioned workers, no fault | a violation: `ReadyWorkerSurvives` |
| `services` | `PythonWorker` with 2 assignments and 2 connections; `FileStorage` with both backends and five kinds of filename; `HealthCheck` with its two features; `Signatures` over two midnights; `ControllerServer` with 2 requests, 2 queues and five kinds of configuration | `WireIsOrdered`, `WorkerReleasesTask`; `ServedIsUploaded`; `HealthIsWorst`; `SignedIsAccepted`; `ServerIsWhole` |

Bounds. Two tasks are needed for two to meet on a worker; one of them has a
retry, the other none. Two buckets give two bucket workers racing for a session; the
single bucket of `slow` and `full` makes producers and the consumer meet at a full
queue, which two tasks fill at capacity 1 when one is with the bucket worker.
Capacity 1 stands for the 100 of the code: what matters is that producers can
fill the queue between the consumer's pop and its requeue. `WebhookLosses`
bounds how often a webhook is lost, because each loss executes the task again.
The number of registrations is the number of `Conn`. One of the two tasks is cancelled, any number of times. Conversions fail in
`service` and reports are swallowed in `slow` only: together with the other faults each
would make the other run too large, and neither adds to the other's properties.
Nothing else is bounded there. In `link` a channel of 2 stands for the 10 of the code: a stuck sender holds one
message, two fill the channel and the fourth finds it full. In `bus` three
messages let one be read, one be appended meanwhile and one come after; one
retry gives a second attempt whose topic is gone. In `recovery` tasks share
nothing but the startup, and two mishaps give a restart that meets a restart, or
an error; every object, document and step of the one task is explored. In `pool` two
connections of one worker are what its id can confuse, and the external worker is the
control; grown workers share nothing but the count of bucket workers, and two of them
only make the run longer. In `services` two connections give a registration among progress and
reports of a task that outlived the first; a window of 1 and days of 3 ticks put
both clocks on every side of midnight and of the window; two requests race on
one queue document and on the shutdown.
Every bound of a counter (`MaxLinks`, `MaxProgress`, `MaxLink`, `MaxMishaps`,
`MaxTime`, `MaxSkew`) is a constant of its module; a heartbeat is written once per
connection.
All runs allow a state without successor: the process may crash or exit, and all
tasks may be done with every connection closed.

Fairness of `live` and `full`: weak fairness for each goroutine that can take a
step, as the Go scheduler gives, and for the API call in flight; for workers:
that they register, receive and return from their handler (nothing in the code
enforces `TimeoutMS`); for webhooks: `TaskFinish` is eventually possible and
taken. It is enough that the bucket workers are treated fairly, not each of their
choices: with no lost links every worker they can pick is one that answers. A
panic ends everything, so liveness is stated up to `crashed`.

Fairness of the other runs. `link`: weak fairness for the
callers, the sender and `serveConnection`; a slow write ends after 10 s by its
own timeout. No fairness is assumed of message handlers. `DeadLinkIsRemoved` supposes
(`SF` of `ServeEnds`) that the worker of a dead link falls
silent for the 15 s of the read deadline at some time, which holds for an idle worker (its heartbeats are
30 s apart). `bus`: weak fairness for the handler, the goroutine of
`Progress` and the dispatcher, of which an attempt ends at last. `recovery`: the
process is started again, its goroutines take their steps and workers report.
`pool`: the goroutine of each `Grow` takes its steps and its timer runs out; processes,
workers and connections may do what they like. `services`: the
event loop of the worker process takes its steps and handlers of tasks return; no
connection is ever assumed.

The violations. `full`: a bucket worker that finds no free worker calls `EnqueueTask`
(`worker/manager.go` 161) on the dequeue it alone empties. If producers filled it
since the pop, `PushBack` waits for room that only the waiting goroutine could
make, and every task of the bucket waits with it, also when workers become free.
`unsent`: the caller's 3 s are over while the sender still writes; the caller
takes the assignment back, the worker gets it all the same. `wait_retry`:
`taskComplete` calls `Finish` for every end of an attempt, so the first failure
answers the waiting client with a pending task and ends the topic. `grown`: the
process is started with the context of `Grow` (`src/go/internal/provisioner/command.go`
116), called "startup timeout" at line 79; the dispatcher cancels it as soon as
the first task is assigned, which kills the worker that has just got it.

## 4. The proofs

Each theorem is proved from the assumption of its module, which says what the
constants are, not how many; further hypotheses are named below.

`WorkerManagerProofs` proves, from `WorkerManagerAssumption` only:

- `TypeCorrect`: `Spec => []TypeOK`. `TypeOK` is inductive: besides the types it
  says that a bucket worker past its pop holds a task and past its choice a
  connection, and that a handler at work holds a task, which is what the records
  and indices of the actions need, that no queue exceeds `QueueCap` and no retry
  count `MaxRetry`. One lemma per group of actions.
- `TicketsKept`: `Spec => []NoTicketLost`: a created task whose object is pending is always in one of
  the places from which it will be dispatched. The invariant is `TicketsHeld`, which
  also gives a ticket to a finished object whose document does not know of it, as a
  lost webhook leaves them (`Pending`). The lemma `SameTicket` says that a step that leaves a task's ticket
  places alone keeps it; `PushKeeps` that an enqueue keeps every queued task and
  adds its own; the action lemmas say where the ticket goes: from `arriving` to
  the queue, to the bucket worker, off the books when the object says
  processing, back into the hand of the bucket worker by `RevertAssignment`
  (which makes the object pending in the same step), to the queue by
  `RequeueTask`; and from the handler to the queue for a retry. The theorem
  holds under all faults, slow sends included.
- `OrphansExplained`: `Spec => []OrphansAreExplained`, under every fault, for
  `CancelTasks = {}`: a cancel finishes the document and leaves the object, which is no orphan. Under slow sends a task may
  be queued and executed at once, so custody is of no use; the invariant follows
  processing objects only. `Whereabouts`: the worker such an object names is being sent
  the task (`Sending`), or has it in its inbox, at work, or as a report on its way back
  (`AtWorker`), or lost its link, or ended the attempt in silence (`Located`); and a
  completed object has a webhook to post. A worker ends an attempt in silence when it drops an
  assignment because it is at work or when its result cannot be encoded, and a report is
  rejected only of a worker that the object no longer names. `OwnerKnown` (document and
  object name the same worker) keeps the report of the named worker from being rejected,
  `Busy` says that a worker that reported before it is free still has its task, and `Fresh`
  that a connection is untouched before it registers.
- `NoAssignmentDropped`, for `"lag" \notin Faults` and `"reconnect" \notin Faults`: no worker has
  an assignment waiting while it is busy. Under either fault TLC finds one that does. The invariant is
  `Links`: a link carries one message at a time (`OneMessage`), a session is free only when
  the worker is, as long as its sender serves (`SenderReady`), and a bucket worker that is
  about to send has the session and a quiet link (`Claimed`). `OwnBucket` keeps two bucket
  workers from claiming one session, and `Prompt` says that a worker that has reported is free.
- `UnfinishedIsInHand`, while only webhooks fail and nobody cancels: every created task
  that is not finished is in somebody's hands, the safety half of `EveryTaskFinishes`.

`WorkerManagerCustodyProofs` proves, for `"slow" \notin Faults` and every other
fault allowed, that nothing is held twice. The hypothesis is needed:
`SendTimesOut` gives the task back to its queue while the sender may still write
it, which puts it in two places.

- `CustodyHolds`: `Spec => []Custody`. `SingleCustody` counts positions of queues,
  which move with each push and pop, so the invariant speaks of hands: a kind of
  place and its owner (`Held(t, k, x)`). `Exclusive` and `NoCopies` say that a task is in
  one hand, once; `IdleHandsEmpty` that who waits for work holds none;
  `HandsOK` what object, document and session say of a task in each hand: without it a
  report could be accepted for a task that is queued. `ProcessingCached` and
  `Unborn` are what `GetTaskById` and `CreateTask` rely on, and
  `SessionAgreement` is part of the induction: that a report is accepted only from the
  worker the object names is what keeps the hand of the object exclusive.
- The argument: for each action a lemma says where its task goes
  (`PopMoves`, `SendMoves`, `ReportMoves`...), as one of three moves (`Move`,
  `Drop`, or none) which keep `Exclusive`. Another lemma per action shows that the new
  hand is in order (`CustodySend`, `CustodyReport`...), with `HandsKept` and `AgreementKept` for all
  tasks it does not touch.
- `TaskInOnePlace` (`SingleCustody`) turns hands back into positions;
  `SessionsAgree` (`SessionAgreement`) is a conjunct; `FinishedForGood`
  (`FinishedIsFinal`): of those who write a document the dispatcher holds its task, and a
  held task is not finished by it; a cancel writes what it read, so the property excepts
  the cancels that read before the end, and the documents that a cancel finished.
  A cancel touches the document only, so hands and objects do not see it.
- `AttemptsWithinBudget` (`AttemptBudget`), also for `"webhook" \notin Faults`, since a lost
  webhook executes a finished task again without a retry. `Budget` adds
  that in a hand from which a task can be started all its attempts are counted as
  retries; `RequeueTask` after a failed send keeps that because nothing was written.

`WorkerManagerServiceProofs` proves under the same two hypotheses:

- `DispatcherServes`: `Spec => ImplementsTaskService`. A task waits in a spare hand,
  executes in any other, and is lost in none (`PhaseOf`, equal to the mapping of
  `WorkerManager`). The phase is read from hands and object, so cancels are stutters: to the
  dispatcher a cancelled task is one like any other. `CreateTask` submits, `SendOk` starts, `TaskComplete` retries or
  finishes, `TaskFinish` finishes; the end of connections and processes loses
  tasks; every other action moves tasks between hands of one phase.

`WsConnectionProofs` proves, from `WsConnectionAssumption`:

- `TypeCorrect`, and `NothingAfterAbandoned`: `Spec => []AbandonedIsLast`, and `ContractKept`: `Spec` implies
  the contract. `IInv` has four parts. `TypeOK`; `InFlight`: what
  the channel and the sender hold is still open, and no message is held twice;
  `Acknowledged`: all that was written is acknowledged except the message whose
  result the sender is about to hand over, which is last; `ResultIsWritten`:
  that result is of a written message. The property is not inductive alone: that nothing
  follows an abandoned message depends on the sender having nobody to hand its
  result to, which is what `Acknowledged` records.
- `NoCallForgotten` (`WaitingIsHeld`): a caller that waits has its message with the
  sender or in the channel, with `InFlight` one to one. Only `Report` lets go of a
  message, and it answers the caller.
- `UnlistedBeforeShut` (`ShutIsUnlisted`): a connection that `serveConnection` is through
  with is not in the map, unless its response failed: `serveConnection` then returns
  before it has deferred the removal. That only `register()` sends the response, and
  that a call which has ended stays as it is, make it inductive (`OnceListed`).

`TaskEventBusProofs` proves, from `TaskEventBusAssumption`:

- `TypeCorrect`: the goroutine never reads past the slice (`index <= size <=
  Len(progress)`), and retries stay in the budget.
- `StreamInOrder`: `Spec => []StreamIsPrefix`, by the invariant `Streamed`: as
  many messages were sent as the index says, each equal to its element. Only
  `SendProgress` touches either, all other steps at most extend `progress`
  (`StreamedKept`).
- `WaiterHasTopic`: a client that waits has its topic in the map or done: the
  safety half of `WaiterIsAnswered`.
- `TopicNeverStranded` (`TopicHasEnd`): a topic in the map waits for its client to submit
  or for a task that is not finished, unless it was left behind by a document that could
  not be inserted. `TopicEnds` adds how far the client is.
- `WaiterSeesSettled` (`WaitMeansSettled`), by `SettledFirst`: the bus is told only
  after the object was settled, and of nothing before the submission.

`TaskRecoveryProofs` proves, from `TaskRecoveryAssumption`, under every fault and
for any number of tasks, by an invariant `Inv` that speaks of each task alone
(`Fine(t)`), so that one lemma per action does the task it is about and
`OtherFine` the rest:

- `TypeCorrect`; `HeldUntilFinished` (`UnfinishedIsHeld`). The property
  looks at the serving controller only; the invariant has to say what the startup
  still owes (`StartupOK`), that an object is at one stage (`OneStage`), what each
  stage says of its object (`StagesOK`), and that an unfinished document is with
  the cached object, or with some object once it was listed (`DocumentHeld`).
- `RestartKeepsFinished` (`FinishedSurvivesRestart`): a finished document of a
  process that is gone is in nobody's hands, and neither of the cursors
  makes an object of it.
- `ResultLoss` (`ResultLossIsBlamed`), by `ResultKept`: the only object of a task
  whose document has a result has the result too.

`WorkerPoolProofs` proves, from `WorkerPoolAssumption` and under every fault:

- `TypeCorrect`; `ListedServed` (`ListedIsServed`), `HiddenIsBlamed`
  (`HiddenBlamesFormerLink`), by `Registry`: `Undialed` says that a connection
  not yet made is at no step, and `ListedOrFormer` carries the
  property from the check of the registration on. That an id is of one worker,
  and of one connection of an external one, is `IdIs`. The proof needs that each
  worker may connect at least once, so `MaxLink` is a bound of at least 1.
- `ConnectedReported` (`ConnectedIsReported`), by `Documents`: once its `Grow` has begun, the
  document of a provisioned worker is missing only with an excuse (`MissingIsExcused`): its `Grow`
  failed, or a connection of that worker is over (`Excused`). A connection refused for want of the
  document has the same excuse (`RefusedIsExcused`), the document of a live external
  connection is there (`ExternalReported`), and a document that gets its heartbeats has a
  connection that gives them or is over (`BeatenIsLive`), so that the index that expires
  documents makes no other excuse.
- `DeletedGone` (`DeletedStaysDeleted`): a deleted session document never comes back. Documents are
  made by `Grow` before its process starts (`Started`) and at the registration of an external
  worker, whose id is new; all else replaces what is there.

`ServicesProofs` proves about the parts of `Services`, each by an
invariant of its own and for all values of its constants:

- `WireInOrder` (`WireIsOrdered`) and `WorkerTypeCorrect`: of one assignment, of which a task that is
  retried has several on one connection, a report on the wire means that
  its handler is over, a result that its progress queue is empty (`ReportsOver`), which
  never holds more than was made (`Waiting`); an open connection began with its
  registration (`Registered`). `WorkerAtOneTask` (`OneAtATime`): the worker is at one task, the one
  `current_task` names, over all ends of its connection.
- `ServerWhole` (`ServerIsWhole`), for `Configured \subseteq Queue`: while the API is closed no
  handler is at work (`NothingServed`), every configured queue that was visited
  is there, missed or deleted since (`QueuesVisited`), and the database is closed only after the
  handlers or the deadline (`DatabaseOpen`).
- `HealthAnswersWorst` (`HealthIsWorst`), for any set of features: each word of the status
  is of a feature that failed (`WordOf`).
- `FileIsServed` (`ServedIsUploaded`), whatever fails on either backend: but for the
  three kinds of filename local storage does not keep, and for a download that fails by its own I/O.
- `SignedAccepted` (`SignedIsAccepted`), for natural `Window`, `MaxTime`, `MaxSkew`:
  a request on its way is of a known shape (`Signed`), and two HMACs are equal
  only if their tokens and contents are.
- `ServicesTyped` (`ServicesTypeOK`): the five parts side by side keep the types of all;
  a file is written in its directory only (`DirectoryFirst`).

Only model-checked: liveness, which is out of reach of the prover (fairness and
ENABLED): `EveryTaskFinishes`, `DeadLinkIsRemoved`, `CallersReturn`,
`WaiterIsAnswered`, `SleeperIsWoken`, `TopicIsReleased`, `EveryTaskSettles`,
`GrowReturns`, `WorkerReleasesTask`. Of each, a
theorem says the part that needs no fairness, that nothing it waits for is lost:

| liveness property | its safety half |
| --- | --- |
| `EveryTaskFinishes` | `UnfinishedIsInHand` |
| `DeadLinkIsRemoved` | `UnlistedBeforeShut` |
| `CallersReturn` | `NoCallForgotten` |
| `WaiterIsAnswered` | `WaiterHasTopic` |
| `SleeperIsWoken`, `TopicIsReleased` | `TopicNeverStranded` |
| `EveryTaskSettles` | `HeldUntilFinished` |
| `GrowReturns` | none needed: the timer of each `Grow` runs |
| `WorkerReleasesTask` | `WorkerAtOneTask` |

Under slow sends three properties fail, and their theorems exclude `"slow"` for that
reason: `SingleCustody`, `SessionAgreement` and `FinishedIsFinal`. A message that is
written after `SendPayload` gave up and before `RevertAssignment` runs may be executed
and reported at once; the report is accepted, since the object still names the
worker, and `RevertAssignment` then makes a finished task pending again.

## 5. Plan

Done: every module with its runs, every safety property of the runs as a theorem, and
the safety half of each liveness property. Next: what is left of custody under slow sends: which two hands a task can be in at once.

## 6. Files

`PROJECT.json` maps every definition to the lines it models, lists the runs, a
mutant for each property (a plausible bug under which the property fails), the
hazards and the theorems. `tlc -config MCWorkerManagerLive.cfg MCWorkerManager`
runs one configuration, `tlapm WorkerManagerProofs.tla` checks the proofs of one module.

## 7. Not modelled

- The metrics, which only read. What they show differs from their help texts, and a model could
  but repeat it: the pipeline of `Stat` sums the string `"1"` (`repositories.go` 167), so
  that the counts of tasks come out as 0; that of processing tasks is assigned to the
  pending ones (199); and every task without an error counts as one in error, since a
  missing field is not null (170). `metrics.go` 106 and 110 promise the "Number of tasks
  currently being processed" and "waiting to be processed", 121 that of tasks "by status".
  Tasks and sessions are read at two moments (271, 288), collectors interleave, and the gauge
  of a status no worker has any more is not reset (349). The `Record` functions are called by nobody.
- Translation of OpenAI requests, parsing of the configuration file, protobuf and status
  conversions, `_match_parts`, paging: pure functions of their input.
- The three handlers that answer 501 (`handlers.go` 596, 641, 656).
- Round-trip times and the health ticker's arithmetic: it ends a connection, as
  the read deadline and the peer do, which is one action of the model.
- At `Shutdown` the context of the manager ends before the connections are
  closed, so reports in flight cannot be stored: to the documents it is the crash of
  `TaskRecovery`.
- `processingTasks` is never emptied, and nobody enforces `TimeoutMS`: a leak and
  an assumption, without behaviour to explore.
- API types, deployment files, Helm charts.
