---------------------------- MODULE ServicesProofs ----------------------------
(***************************************************************************)
(* Proofs about the parts of Services: the worker process, the process of  *)
(* the controller, the health check, the file storage and the signatures.  *)
(* Each theorem is about the specification of one part, for all values of  *)
(* its constants; MCServices checks one instance of each.                  *)
(***************************************************************************)
EXTENDS Services, FiniteSetTheorems, TLAPS

-----------------------------------------------------------------------------
(* The process of the controller.                                          *)

Built == {"built", "started", "listening", "serving"}

\* The API is closed: no handler has started.
Closed == {"config", "storage", "database", "indexes", "queues", "built", "started", "listening"}

Idle == \A r \in Request : ~Server!Active(r)

\* While the API is closed no handler is at work and no queue was deleted.
NothingServed == phase \in Closed => Idle /\ deleted = {}

\* What initializeQueues has been over is there, skipped or deleted since.
QueuesVisited ==
    /\ \A q \in Configured \ todo : queues[q] # "none" \/ q \in missed \cup deleted
    /\ phase \in Built => todo = {}

IndexedFrom == phase \in {"queues"} \cup Built => ttl = "current"

\* The database is open from NewDB to Close, which comes after the handlers or
\* after the deadline.
DatabaseOpen ==
    /\ phase \in {"indexes", "queues", "drain api", "drain worker"} \cup Built => database
    /\ phase \in {"drain worker", "close"} => deadline \/ Idle

ServerInv ==
    /\ Server!TypeOK /\ NothingServed /\ QueuesVisited /\ IndexedFrom /\ DatabaseOpen
    /\ Server!DeletedQueuesStayDeleted

LEMMA ServerInit ==
    ASSUME Configured \subseteq Queue
    PROVE  Server!Init => ServerInv
<1> SUFFICES ASSUME Server!Init  PROVE ServerInv
  OBVIOUS
<1>1. Server!TypeOK
  BY DEF Server!Init, Server!TypeOK, Server!ConfigKind, Server!Phase, Server!TTLIndex,
     Server!Working
<1>2. Idle
  BY DEF Server!Init, Idle, Server!Active, Server!Working
<1> QED
  BY <1>1, <1>2 DEF Server!Init, ServerInv, NothingServed, QueuesVisited, IndexedFrom, DatabaseOpen,
     Server!DeletedQueuesStayDeleted, Built

\* The steps of main leave the handlers, the targets and what was deleted alone.
LEMMA MainStep ==
    ASSUME ServerInv, UNCHANGED Server!http, UNCHANGED deleted,
           \/ Server!LoadConfig \/ Server!OpenStorage \/ Server!OpenDatabase
           \/ Server!ReplaceIndex \/ Server!createIndexes \/ Server!QueuesInitialized
           \/ Server!Start \/ Server!StartupFails \/ Server!Stop \/ Server!ShutdownManager
           \/ Server!Deadline \/ Server!ShutdownApi \/ Server!ShutdownWorkers
           \/ Server!CloseDatabase
    PROVE  ServerInv'
<1> USE DEF Server!http
<1>1. UNCHANGED <<queues, handler, target, deleted, missed, todo, config>>
  BY DEF Server!LoadConfig, Server!OpenStorage, Server!OpenDatabase, Server!ReplaceIndex,
     Server!createIndexes, Server!QueuesInitialized, Server!Start, Server!StartupFails, Server!Stop,
     Server!ShutdownManager, Server!Deadline, Server!ShutdownApi, Server!ShutdownWorkers,
     Server!CloseDatabase
<1>2. Server!TypeOK'
  BY <1>1
     DEF ServerInv, Server!TypeOK, Server!LoadConfig, Server!OpenStorage, Server!OpenDatabase,
     Server!ReplaceIndex, Server!createIndexes, Server!QueuesInitialized, Server!Start,
     Server!StartupFails, Server!Stop, Server!ShutdownManager, Server!Deadline, Server!ShutdownApi,
     Server!ShutdownWorkers, Server!CloseDatabase, Server!Go, Server!NewLocalStorage,
     Server!NewS3Storage, Server!UnknownStorage, Server!Phase, Server!TTLIndex
<1>3. Idle' <=> Idle
  BY <1>1 DEF Idle, Server!Active
<1>4. Server!DeletedQueuesStayDeleted'
  BY <1>1 DEF ServerInv, Server!DeletedQueuesStayDeleted
<1>5. NothingServed'
  BY <1>1, <1>3
     DEF ServerInv, NothingServed, Closed, Server!LoadConfig, Server!OpenStorage,
     Server!OpenDatabase, Server!ReplaceIndex, Server!createIndexes, Server!QueuesInitialized,
     Server!Start, Server!StartupFails, Server!Stop, Server!ShutdownManager, Server!Deadline,
     Server!ShutdownApi, Server!ShutdownWorkers, Server!CloseDatabase, Server!Go,
     Server!NewLocalStorage, Server!NewS3Storage, Server!UnknownStorage
<1>6. QueuesVisited'
  BY <1>1
     DEF ServerInv, QueuesVisited, Built, Server!LoadConfig, Server!OpenStorage,
     Server!OpenDatabase, Server!ReplaceIndex, Server!createIndexes, Server!QueuesInitialized,
     Server!Start, Server!StartupFails, Server!Stop, Server!ShutdownManager, Server!Deadline,
     Server!ShutdownApi, Server!ShutdownWorkers, Server!CloseDatabase, Server!Go,
     Server!NewLocalStorage, Server!NewS3Storage, Server!UnknownStorage
<1>7. IndexedFrom'
  BY DEF ServerInv, IndexedFrom, Built, Server!LoadConfig, Server!OpenStorage,
     Server!OpenDatabase, Server!ReplaceIndex, Server!createIndexes, Server!QueuesInitialized,
     Server!Start, Server!StartupFails, Server!Stop, Server!ShutdownManager, Server!Deadline,
     Server!ShutdownApi, Server!ShutdownWorkers, Server!CloseDatabase, Server!Go,
     Server!NewLocalStorage, Server!NewS3Storage, Server!UnknownStorage
<1>8. DatabaseOpen'
  BY <1>3
     DEF ServerInv, DatabaseOpen, Idle, Built, Server!LoadConfig, Server!OpenStorage,
     Server!OpenDatabase, Server!ReplaceIndex, Server!createIndexes, Server!QueuesInitialized,
     Server!Start, Server!StartupFails, Server!Stop, Server!ShutdownManager, Server!Deadline,
     Server!ShutdownApi, Server!ShutdownWorkers, Server!CloseDatabase, Server!Go,
     Server!NewLocalStorage, Server!NewS3Storage, Server!UnknownStorage
<1> QED  BY <1>2, <1>4, <1>5, <1>6, <1>7, <1>8 DEF ServerInv

LEMMA InitializeStep ==
    ASSUME Configured \subseteq Queue, ServerInv, NEW q \in Configured, Server!InitializeQueue(q)
    PROVE  ServerInv'
<1>1. /\ phase = "queues" /\ todo' = todo \ {q}
      /\ queues \in [Queue -> {"none", "config", "api"}]
      /\ \/ queues' = [queues EXCEPT ![q] = "config"] /\ UNCHANGED missed
         \/ queues[q] # "none" /\ UNCHANGED <<queues, missed>>
         \/ missed' = missed \cup {q} /\ UNCHANGED queues
      /\ UNCHANGED <<config, phase, ttl, database, stop, deadline, handler, target, deleted>>
  BY DEF Server!InitializeQueue, Server!http, ServerInv, Server!TypeOK
<1>2. deleted = {} /\ (Idle' <=> Idle)
  BY <1>1 DEF ServerInv, NothingServed, Closed, Idle, Server!Active
<1>3. Server!TypeOK'
  BY <1>1 DEF ServerInv, Server!TypeOK
<1>4. QueuesVisited'
  BY <1>1 DEF ServerInv, QueuesVisited, Built
<1>5. NothingServed' /\ IndexedFrom' /\ Server!DeletedQueuesStayDeleted'
  BY <1>1, <1>2 DEF ServerInv, NothingServed, IndexedFrom, Server!DeletedQueuesStayDeleted
<1>6. DatabaseOpen'
  BY <1>1, <1>2 DEF ServerInv, DatabaseOpen
<1> QED  BY <1>3, <1>4, <1>5, <1>6 DEF ServerInv

\* A step of the handler of r: it is at work, or begins while main serves.
LEMMA HandlerStep ==
    ASSUME Configured \subseteq Queue, ServerInv, NEW r \in Request,
           \/ Server!Accept(r) \/ Server!DatabaseFails(r) \/ Server!handleCreateQueue(r)
           \/ Server!handleUpdateQueue(r) \/ Server!UpdateQueue(r)
           \/ Server!handleDeleteQueue(r) \/ Server!WaitEnds(r)
    PROVE  ServerInv'
<1> USE DEF Server!main, Server!At, Server!Reply
<1>1. PICK h \in Server!Working \cup {"answered", "refused"} :
         /\ handler' = [handler EXCEPT ![r] = h]
         /\ h \in Server!Working => phase = "serving" \/ Server!Active(r)
  BY DEF Server!Accept, Server!DatabaseFails, Server!handleCreateQueue, Server!handleUpdateQueue,
     Server!UpdateQueue, Server!handleDeleteQueue, Server!WaitEnds, Server!Working, Server!Active
<1>2. /\ UNCHANGED <<config, phase, ttl, todo, database, stop, deadline, target, missed>>
      /\ phase = "serving" \/ Server!Active(r)
  BY DEF Server!Accept, Server!DatabaseFails, Server!handleCreateQueue, Server!handleUpdateQueue,
     Server!UpdateQueue, Server!handleDeleteQueue, Server!WaitEnds, Server!Working, Server!Active
<1>3. /\ handler \in [Request -> Server!Working \cup {"new", "answered", "refused"}]
      /\ queues \in [Queue -> {"none", "config", "api"}] /\ target[r] \in Queue
      /\ deleted \subseteq Queue
  BY DEF ServerInv, Server!TypeOK
<1>4. PICK q \in Queue : q = target[r]
  BY <1>3
<1>5. \/ UNCHANGED <<queues, deleted>>
      \/ queues' = [queues EXCEPT ![q] = "api"] /\ deleted' = deleted \ {q}
      \/ /\ queues' = [queues EXCEPT ![q] = IF @ = "none" THEN @ ELSE "api"]
         /\ UNCHANGED deleted
      \/ queues' = [queues EXCEPT ![q] = "none"] /\ deleted' = deleted \cup {q}
  BY <1>4
     DEF Server!Accept, Server!DatabaseFails, Server!handleCreateQueue, Server!handleUpdateQueue,
     Server!UpdateQueue, Server!handleDeleteQueue, Server!WaitEnds
<1>6. Server!TypeOK'
  BY <1>1, <1>2, <1>3, <1>5 DEF ServerInv, Server!TypeOK
<1>7. phase \notin Closed
  BY <1>2 DEF ServerInv, NothingServed, Idle, Closed
<1>8. phase # "serving" /\ Idle => Idle'
  BY <1>2 DEF Idle
<1>9. NothingServed' /\ IndexedFrom' /\ DatabaseOpen'
  BY <1>2, <1>7, <1>8 DEF ServerInv, NothingServed, IndexedFrom, DatabaseOpen, Built
<1>10. Server!DeletedQueuesStayDeleted'
  BY <1>3, <1>5 DEF ServerInv, Server!DeletedQueuesStayDeleted
<1>11. QueuesVisited'
  BY <1>2, <1>3, <1>5 DEF ServerInv, QueuesVisited
<1> QED  BY <1>6, <1>9, <1>10, <1>11 DEF ServerInv

LEMMA ServerStutter ==
    ASSUME ServerInv, UNCHANGED Server!vars
    PROVE  ServerInv'
BY DEF Server!vars, Server!main, Server!http, ServerInv, Server!TypeOK, NothingServed,
   QueuesVisited, IndexedFrom, DatabaseOpen, Server!DeletedQueuesStayDeleted, Idle, Server!Active

LEMMA ServerNext ==
    ASSUME Configured \subseteq Queue
    PROVE  ServerInv /\ [Server!Next]_Server!vars => ServerInv'
<1> SUFFICES ASSUME ServerInv, [Server!Next]_Server!vars  PROVE ServerInv'
  OBVIOUS
<1>1. CASE \/ Server!LoadConfig \/ Server!OpenStorage \/ Server!OpenDatabase
           \/ Server!ReplaceIndex \/ Server!createIndexes \/ Server!QueuesInitialized
           \/ Server!Start \/ Server!StartupFails \/ Server!Stop \/ Server!ShutdownManager
           \/ Server!Deadline \/ Server!ShutdownApi \/ Server!ShutdownWorkers
           \/ Server!CloseDatabase
  <2>1. UNCHANGED Server!http /\ UNCHANGED deleted
    BY <1>1
       DEF Server!http, Server!LoadConfig, Server!OpenStorage, Server!OpenDatabase,
       Server!ReplaceIndex, Server!createIndexes, Server!QueuesInitialized, Server!Start,
       Server!StartupFails, Server!Stop, Server!ShutdownManager, Server!Deadline,
       Server!ShutdownApi, Server!ShutdownWorkers, Server!CloseDatabase
  <2> QED  BY <1>1, <2>1, MainStep
<1>2. CASE UNCHANGED Server!vars
  BY <1>2, ServerStutter
<1> QED  BY <1>1, <1>2, InitializeStep, HandlerStep DEF Server!Next

\* A handler finds the server whole: its database open until the deadline of the
\* shutdown, the configured queues and the TTL index there when the API opens,
\* and a deleted queue stays deleted against an update that read it before.
THEOREM ServerWhole ==
    ASSUME Configured \subseteq Queue
    PROVE  Server!Spec => []ServerIsWhole
<1>1. ServerInv => Server!ServerIsWhole
  <2> SUFFICES ASSUME ServerInv  PROVE Server!ServerIsWhole
    OBVIOUS
  <2>1. Server!DatabaseOutlivesHandlers
    BY DEF ServerInv, NothingServed, DatabaseOpen, Idle, Closed, Built, Server!TypeOK, Server!Phase,
       Server!DatabaseOutlivesHandlers
  <2>2. Server!ConfiguredQueuesExist /\ Server!SessionsExpire /\ Server!DeletedQueuesStayDeleted
    BY DEF ServerInv, QueuesVisited, IndexedFrom, Built, Server!ConfiguredQueuesExist,
       Server!SessionsExpire
  <2> QED  BY <2>1, <2>2 DEF Server!ServerIsWhole
<1> QED  BY <1>1, ServerInit, ServerNext, PTL DEF Server!Spec, ServerIsWhole

-----------------------------------------------------------------------------
(* The worker process.                                                     *)

\* The manager counts failures up to its bound as long as it runs, and a
\* connection is only held while it does.
Attempts ==
    /\ manager = "running" => attempts <= MaxReconnect
    /\ link # "closed" => manager = "running"

\* What was written to an open connection begins with its registration.
Registered == link = "open" => wire # <<>>

Over(a) == step[a] \in {"refused", "reported", "released"}

\* A report is written when the handler is done with its task, a result when its
\* progress was sent as well.
ReportsOver ==
    \A i \in DOMAIN wire :
        /\ wire[i].type \in {"complete", "failed"} => Over(wire[i].of)
        /\ wire[i].type = "complete" => queue[wire[i].of] = 0

\* Progress waits at most as often as it was made.
Waiting == \A a \in Assignment : queue[a] <= made[a]

WorkerInv == TypeOK /\ Attempts /\ Waiting /\ Registered /\ ReportsOver /\ WireIsOrdered

LEMMA MessageIs ==
    ASSUME NEW m \in Message, m.type \in {"progress", "complete", "failed"}
    PROVE  m.of \in Assignment
BY DEF Message

LEMMA WorkerInit == Init => WorkerInv
<1> SUFFICES ASSUME Init  PROVE WorkerInv
  OBVIOUS
<1>1. /\ link = "closed" /\ links = 0 /\ attempts = 0 /\ idleTime = FALSE /\ manager = "running"
      /\ current = NoTask
  BY DEF Init
<1>2. wire = <<>> /\ wire \in Seq(Message) /\ DOMAIN wire = {}
  BY DEF Init
<1>3. /\ queue = [t \in Assignment |-> 0] /\ made = [t \in Assignment |-> 0] /\ step = [t \in Assignment |-> "none"]
  BY DEF Init
<1>4. Waiting
  <2> SUFFICES ASSUME NEW a \in Assignment  PROVE queue[a] <= made[a]
    BY DEF Waiting
  <2>1. queue[a] = 0 /\ made[a] = 0
    BY <1>3
  <2> QED  BY <2>1
<1>5. MaxLinks \in Nat /\ MaxReconnect \in Nat /\ MaxProgress \in Nat
  BY WorkerAssumption
<1>6. TypeOK
  <2>1. 0 \in 0..MaxLinks /\ 0 \in 0..(MaxReconnect + 1) /\ 0 \in 0..MaxProgress
    BY <1>5
  <2>2. /\ queue \in [Assignment -> 0..MaxProgress] /\ made \in [Assignment -> 0..MaxProgress]
        /\ step \in [Assignment -> Step]
    BY <1>3, <2>1 DEF Step
  <2> QED  BY <1>1, <1>2, <2>1, <2>2 DEF TypeOK
<1> QED
  BY <1>1, <1>2, <1>4, <1>5, <1>6
  DEF WorkerInv, Attempts, Registered, ReportsOver, WireIsOrdered

\* A message after those that are there: of a task that is not over, or the
\* progress that waited when its handler had raised.
LEMMA SendKeeps ==
    ASSUME WorkerInv, NEW m \in Message, Send(m), link' = link, manager' = manager,
           attempts' = attempts, step' \in [Assignment -> Step], queue' \in [Assignment -> 0..MaxProgress],
           m.type # "register",
           m.type \in {"complete", "failed"} => ~Over(m.of) /\ Over(m.of)',
           m.type = "complete" => queue'[m.of] = 0,
           m.type = "progress" => queue[m.of] > 0,
           \A a \in Assignment : (Over(a) => Over(a)') /\ (Over(a) /\ queue[a] = 0 => queue'[a] = 0)
    PROVE  /\ wire' \in Seq(Message) /\ Registered' /\ ReportsOver' /\ WireIsOrdered'
<1>1. wire \in Seq(Message) /\ queue \in [Assignment -> 0..MaxProgress] /\ MaxProgress \in Nat
  BY WorkerAssumption DEF WorkerInv, TypeOK
<1>2. CASE link # "open"
  <2>1. wire' = wire
    BY <1>2 DEF Send
  <2>2. \A i \in DOMAIN wire : wire[i].type \in {"complete", "failed"} => wire[i].of \in Assignment
    BY <1>1, MessageIs
  <2>3. ReportsOver'
    BY <2>1, <2>2 DEF WorkerInv, ReportsOver
  <2>4. Registered' /\ WireIsOrdered'
    BY <1>2, <2>1 DEF WorkerInv, Registered, WireIsOrdered
  <2> QED  BY <1>1, <2>1, <2>3, <2>4
<1>3. CASE link = "open"
  <2>1. wire' = Append(wire, m) /\ wire # <<>>
    BY <1>3 DEF Send, WorkerInv, Registered
  <2>2. PICK n \in Nat : n = Len(wire)
    BY <1>1
  <2>3. /\ n > 0 /\ DOMAIN wire = 1..n /\ wire' \in Seq(Message) /\ DOMAIN wire' = 1..(n + 1)
        /\ wire'[n + 1] = m /\ \A i \in 1..n : wire'[i] = wire[i]
        /\ wire' # <<>>
    <3>1. wire' = Append(wire, m) /\ wire \in Seq(Message)
      BY <1>1, <2>1
    <3>2. wire' \in Seq(Message) /\ Len(wire') = n + 1 /\ wire'[n + 1] = m
      BY <2>2, <3>1
    <3>3. \A i \in 1..n : wire'[i] = wire[i]
      BY <2>2, <3>1
    <3>4. DOMAIN wire = 1..n /\ DOMAIN wire' = 1..(n + 1) /\ n > 0 /\ wire' # <<>>
      BY <2>1, <2>2, <3>1, <3>2
    <3> QED  BY <3>2, <3>3, <3>4
  <2>4. \A i \in 1..n : /\ wire[i].type \in {"complete", "failed"} =>
                              wire[i].of \in Assignment /\ Over(wire[i].of)
                        /\ wire[i].type = "complete" => queue[wire[i].of] = 0
                        /\ wire[i].type = "register" => i = 1
    <3> TAKE i \in 1..n
    <3>1. wire[i] \in Message
      BY <1>1, <2>3
    <3> QED  BY <2>3, <3>1, MessageIs DEF WorkerInv, ReportsOver, WireIsOrdered
  <2>5. ReportsOver'
    <3> SUFFICES ASSUME NEW i \in 1..(n + 1)
                 PROVE  /\ wire'[i].type \in {"complete", "failed"} =>
                              step'[wire'[i].of] \in {"refused", "reported", "released"}
                        /\ wire'[i].type = "complete" => queue'[wire'[i].of] = 0
      BY <2>3 DEF ReportsOver, Over
    <3> USE DEF Over
    <3>1. CASE i = n + 1
      BY <2>3, <3>1
    <3>2. CASE i \in 1..n
      BY <2>3, <2>4, <3>2
    <3> QED  BY <2>2, <3>1, <3>2
  <2>6. WireIsOrdered'
    <3>1. wire'[1].type = "register"
      BY <2>1, <2>3 DEF WorkerInv, WireIsOrdered
    <3>2. ASSUME NEW j \in 1..(n + 1)  PROVE wire'[j].type # "register" \/ j = 1
      BY <2>3, <2>4, <3>2
    <3>3. ASSUME NEW i \in 1..(n + 1), NEW j \in 1..(n + 1), i < j,
                 wire'[i].type \in {"complete", "failed"},
                 wire'[j].type \in {"progress", "complete", "failed"},
                 wire'[j].of = wire'[i].of
          PROVE  wire'[i].type = "failed" /\ wire'[j].type = "progress"
      <4>1. i \in 1..n /\ wire'[i] = wire[i]
        BY <2>3, <3>3
      <4>2. CASE j \in 1..n
        BY <2>3, <3>3, <4>1, <4>2 DEF WorkerInv, WireIsOrdered
      <4>3. CASE j = n + 1
        <5>1. wire'[j] = m
          BY <2>3, <4>3
        <5>2. Over(m.of) /\ m.of \in Assignment /\ (wire[i].type = "complete" => queue[m.of] = 0)
          BY <2>4, <3>3, <4>1, <5>1
        <5>3. m.type = "progress"
          BY <3>3, <5>1, <5>2
        <5>4. wire[i].type # "complete"
          BY <1>1, <5>2, <5>3
        <5> QED  BY <3>3, <4>1, <5>1, <5>3, <5>4
      <4> QED  BY <3>3, <4>2, <4>3
    <3> QED  BY <2>3, <3>1, <3>2, <3>3 DEF WireIsOrdered
  <2> QED  BY <2>3, <2>5, <2>6 DEF Registered
<1> QED  BY <1>2, <1>3

\* Nothing is written, and no task that is over changes.
LEMMA SilentKeeps ==
    ASSUME WorkerInv, TypeOK', Attempts', Waiting', UNCHANGED wire, link' = "open" => link = "open",
           \A a \in Assignment : Over(a) => Over(a)' /\ (queue[a] = 0 => queue'[a] = 0)
    PROVE  WorkerInv'
<1>1. \A i \in DOMAIN wire : wire[i].type \in {"complete", "failed"} => wire[i].of \in Assignment
  <2>1. wire \in Seq(Message)
    BY DEF WorkerInv, TypeOK
  <2> QED  BY <2>1, MessageIs
<1>2. ReportsOver'
  BY <1>1 DEF WorkerInv, ReportsOver
<1>3. Registered' /\ WireIsOrdered'
  BY DEF WorkerInv, Registered, WireIsOrdered
<1> QED  BY <1>2, <1>3 DEF WorkerInv

LEMMA ConnectKeeps ==
    ASSUME WorkerInv, Connect
    PROVE  WorkerInv'
<1>1. PICK m : m = [type |-> "register"]
  OBVIOUS
<1>2. /\ wire' = <<m>> /\ m \in Message /\ m.type = "register"
      /\ link' = "open" /\ links' = links + 1 /\ links < MaxLinks /\ attempts' = 0
      /\ manager' = "running"
      /\ UNCHANGED <<idleTime, current, step, queue, made, manager>>
  BY <1>1 DEF Connect, work, Message
<1>3. wire' \in Seq(Message) /\ DOMAIN wire' = {1} /\ wire'[1] = m /\ wire' # <<>>
  BY <1>2
<1>4. TypeOK' /\ Attempts'
  BY <1>2, <1>3, WorkerAssumption DEF WorkerInv, TypeOK, Attempts
<1>5. WireIsOrdered' /\ ReportsOver' /\ Registered' /\ Waiting'
  BY <1>2, <1>3 DEF WireIsOrdered, ReportsOver, Registered, Waiting, WorkerInv
<1> QED  BY <1>4, <1>5 DEF WorkerInv

LEMMA ConnKeeps ==
    ASSUME WorkerInv,
           ConnectFails \/ SocketEnds \/ Disconnect \/ Stop \/ IdleExit \/ RegisterResponse
    PROVE  WorkerInv'
<1> USE DEF work, conn
<1>1. UNCHANGED <<wire, links, current, step, queue, made>>
  BY DEF ConnectFails, SocketEnds, Disconnect, Stop, IdleExit, RegisterResponse
<1>2. link' = "open" => link = "open"
  BY DEF ConnectFails, SocketEnds, Disconnect, Stop, IdleExit, RegisterResponse
<1>3. Attempts'
  BY WorkerAssumption
     DEF ConnectFails, SocketEnds, Disconnect, Stop, IdleExit, RegisterResponse, Failed, WorkerInv,
         Attempts, TypeOK
<1>4. attempts' \in 0..(MaxReconnect + 1)
  BY WorkerAssumption
     DEF ConnectFails, SocketEnds, Disconnect, Stop, IdleExit, RegisterResponse, Failed, WorkerInv,
         Attempts, TypeOK
<1>5. /\ link' \in {"closed", "open", "broken"} /\ idleTime' \in BOOLEAN
      /\ manager' \in {"running", "ended", "exited"}
  BY DEF ConnectFails, SocketEnds, Disconnect, Stop, IdleExit, RegisterResponse, Failed, WorkerInv,
         TypeOK
<1>6. TypeOK'
  BY <1>1, <1>4, <1>5 DEF WorkerInv, TypeOK
<1>7. \A a \in Assignment : Over(a) => Over(a)' /\ (queue[a] = 0 => queue'[a] = 0)
  BY <1>1 DEF Over
<1>8. Waiting'
  BY <1>1 DEF WorkerInv, Waiting
<1> QED  BY <1>1, <1>2, <1>3, <1>6, <1>7, <1>8, SilentKeeps

LEMMA HeartbeatKeeps ==
    ASSUME WorkerInv, Heartbeat
    PROVE  WorkerInv'
<1>1. PICK m : m = [type |-> "heartbeat"]
  OBVIOUS
<1>2. m \in Message /\ m.type = "heartbeat" /\ Send(m)
      /\ UNCHANGED <<link, links, attempts, idleTime, current, step, queue, made, manager>>
  BY <1>1 DEF Heartbeat, work, Message
<1>3. /\ wire' \in Seq(Message) /\ Registered' /\ ReportsOver' /\ WireIsOrdered'
  BY <1>2, SendKeeps DEF WorkerInv, TypeOK, Over
<1>4. TypeOK' /\ Attempts' /\ Waiting'
  BY <1>2, <1>3 DEF WorkerInv, TypeOK, Attempts, Waiting
<1> QED  BY <1>3, <1>4 DEF WorkerInv

LEMMA HandlerKeeps ==
    ASSUME WorkerInv, NEW a \in Assignment,
           \/ HandleTaskAssignment(a) \/ SendProgress(a) \/ HandlerRaises(a) \/ HandlerReturns(a)
           \/ Release(a)
    PROVE  WorkerInv'
<1> USE DEF conn
<1>1. UNCHANGED <<wire, link, links, attempts, idleTime, manager>>
  BY DEF HandleTaskAssignment, SendProgress, HandlerRaises, HandlerReturns, Release
<1>2. step \in [Assignment -> Step] /\ queue \in [Assignment -> 0..MaxProgress]
      /\ made \in [Assignment -> 0..MaxProgress]
      /\ MaxProgress \in Nat /\ current \in Assignment \cup {NoTask}
  BY WorkerAssumption DEF WorkerInv, TypeOK
<1>3. step' \in [Assignment -> Step] /\ current' \in Assignment \cup {NoTask}
  BY <1>2 DEF HandleTaskAssignment, SendProgress, HandlerRaises, HandlerReturns, Release, Step
<1>4. \A u \in Assignment : Over(u) => Over(u)'
  BY <1>2 DEF HandleTaskAssignment, SendProgress, HandlerRaises, HandlerReturns, Release, Over
<1>5. /\ queue' \in [Assignment -> 0..MaxProgress] /\ made' \in [Assignment -> 0..MaxProgress]
      /\ Waiting'
      /\ \A u \in Assignment : Over(u) => (queue[u] = 0 => queue'[u] = 0)
  <2>1. CASE SendProgress(a)
    <3>1. /\ step[a] = "running" /\ made[a] < MaxProgress /\ queue[a] <= made[a]
          /\ queue[a] \in Nat /\ made[a] \in Nat
          /\ made' = [made EXCEPT ![a] = made[a] + 1]
          /\ queue' = [queue EXCEPT ![a] = queue[a] + 1]
      BY <1>2, <2>1 DEF SendProgress, WorkerInv, Waiting
    <3>2. queue[a] + 1 \in 0..MaxProgress /\ made[a] + 1 \in 0..MaxProgress
          /\ queue[a] + 1 <= made[a] + 1
      BY <1>2, <3>1
    <3>3. queue' \in [Assignment -> 0..MaxProgress] /\ made' \in [Assignment -> 0..MaxProgress]
      BY <1>2, <3>1, <3>2
    <3>4. Waiting'
      BY <1>2, <3>1, <3>2 DEF WorkerInv, Waiting
    <3> QED  BY <1>2, <3>1, <3>3, <3>4 DEF Over
  <2>2. CASE UNCHANGED <<queue, made>>
    BY <1>2, <2>2 DEF WorkerInv, Waiting
  <2> QED
    BY <2>1, <2>2 DEF HandleTaskAssignment, HandlerRaises, HandlerReturns, Release
<1>6. TypeOK' /\ Attempts'
  BY <1>1, <1>3, <1>5 DEF WorkerInv, TypeOK, Attempts
<1> QED  BY <1>1, <1>4, <1>5, <1>6, SilentKeeps

LEMMA SenderKeeps ==
    ASSUME WorkerInv, NEW a \in Assignment,
           ProgressWorker(a) \/ SendTaskComplete(a) \/ SendTaskFailed(a) \/ AssignmentFails(a)
    PROVE  WorkerInv'
<1>1. /\ UNCHANGED <<link, links, attempts, idleTime, current, made, manager>>
      /\ step \in [Assignment -> Step] /\ queue \in [Assignment -> 0..MaxProgress] /\ MaxProgress \in Nat
      /\ made \in [Assignment -> 0..MaxProgress] /\ \A u \in Assignment : queue[u] <= made[u]
  BY WorkerAssumption
     DEF ProgressWorker, SendTaskComplete, SendTaskFailed, AssignmentFails, WorkerInv, TypeOK,
         Waiting
<1>2. CASE ProgressWorker(a)
  <2>1. PICK m : m = [type |-> "progress", of |-> a]
    OBVIOUS
  <2>2. /\ m \in Message /\ m.type = "progress" /\ m.of = a /\ (Send(m) \/ UNCHANGED wire)
        /\ queue[a] > 0 /\ queue' = [queue EXCEPT ![a] = queue[a] - 1] /\ UNCHANGED step
    BY <1>1, <1>2, <2>1 DEF ProgressWorker, Message
  <2>3. queue[a] - 1 \in 0..MaxProgress /\ queue[a] - 1 <= made[a]
    BY <1>1, <2>2
  <2>4. queue' \in [Assignment -> 0..MaxProgress] /\ Waiting'
        /\ \A u \in Assignment : queue[u] = 0 => queue'[u] = 0
    BY <1>1, <2>2, <2>3 DEF Waiting
  <2>5. \A u \in Assignment : Over(u) => Over(u)'
    BY <2>2 DEF Over
  <2>6. CASE Send(m)
    <3>1. wire' \in Seq(Message) /\ Registered' /\ ReportsOver' /\ WireIsOrdered'
      BY <1>1, <2>2, <2>4, <2>5, <2>6, SendKeeps
    <3>2. TypeOK' /\ Attempts'
      BY <1>1, <2>2, <2>4, <3>1 DEF WorkerInv, TypeOK, Attempts
    <3> QED  BY <2>4, <3>1, <3>2 DEF WorkerInv
  <2>7. CASE UNCHANGED wire
    <3>1. TypeOK' /\ Attempts'
      BY <1>1, <2>2, <2>4, <2>7 DEF WorkerInv, TypeOK, Attempts
    <3> QED  BY <1>1, <2>4, <2>5, <2>7, <3>1, SilentKeeps
  <2> QED  BY <2>2, <2>6, <2>7
<1>3. CASE SendTaskComplete(a) \/ SendTaskFailed(a) \/ AssignmentFails(a)
  <2>1. /\ step[a] \in {"none", "joining", "raised"}
        /\ \E s \in {"refused", "reported"} : step' = [step EXCEPT ![a] = s]
        /\ UNCHANGED queue
    BY <1>3 DEF SendTaskComplete, SendTaskFailed, AssignmentFails
  <2>2. /\ step' \in [Assignment -> Step] /\ ~Over(a) /\ Over(a)'
        /\ \A u \in Assignment : Over(u) => Over(u)'
    BY <1>1, <2>1 DEF Step, Over
  <2>3. Waiting' /\ Attempts'
    BY <1>1, <2>1 DEF Waiting, WorkerInv, Attempts
  <2>4. CASE UNCHANGED wire
    <3>1. TypeOK'
      BY <1>1, <2>1, <2>2, <2>4 DEF WorkerInv, TypeOK
    <3> QED  BY <1>1, <2>1, <2>2, <2>3, <2>4, <3>1, SilentKeeps
  <2>5. CASE ~UNCHANGED wire
    <3>1. PICK m : /\ m \in {[type |-> "complete", of |-> a], [type |-> "failed", of |-> a]}
                   /\ Send(m) /\ (m.type = "complete" => queue[a] = 0)
      BY <1>3, <2>5 DEF SendTaskComplete, SendTaskFailed, AssignmentFails
    <3>2. m \in Message /\ m.type \in {"complete", "failed"} /\ m.of = a
      BY <3>1 DEF Message
    <3>3. wire' \in Seq(Message) /\ Registered' /\ ReportsOver' /\ WireIsOrdered'
      BY <1>1, <2>1, <2>2, <3>1, <3>2, SendKeeps
    <3>4. TypeOK'
      BY <1>1, <2>1, <2>2, <3>3 DEF WorkerInv, TypeOK
    <3> QED  BY <2>3, <3>3, <3>4 DEF WorkerInv
  <2> QED  BY <2>4, <2>5
<1> QED  BY <1>2, <1>3

LEMMA WorkerStep == WorkerInv /\ [Next]_vars => WorkerInv'
<1> SUFFICES ASSUME WorkerInv, [Next]_vars  PROVE WorkerInv'
  OBVIOUS
<1>1. CASE UNCHANGED vars
  <2>1. UNCHANGED <<link, links, attempts, wire, idleTime, current, step, queue, made, manager>>
    BY <1>1 DEF vars, conn, work
  <2>2. TypeOK' /\ Attempts' /\ Waiting'
    BY <2>1 DEF WorkerInv, TypeOK, Attempts, Waiting
  <2>3. \A a \in Assignment : Over(a) => Over(a)' /\ (queue[a] = 0 => queue'[a] = 0)
    BY <2>1 DEF Over
  <2> QED  BY <2>1, <2>2, <2>3, SilentKeeps
<1>2. CASE ConnectionManager \/ Heartbeat \/ SocketEnds \/ Stop \/ IdleExit \/ RegisterResponse
  BY <1>2, ConnectKeeps, ConnKeeps, HeartbeatKeeps DEF ConnectionManager
<1>3. CASE EventLoop
  BY <1>3, HandlerKeeps, SenderKeeps DEF EventLoop
<1>4. ASSUME NEW a \in Assignment,
             \/ HandleTaskAssignment(a) \/ AssignmentFails(a)
             \/ SendProgress(a) \/ HandlerRaises(a)
      PROVE  WorkerInv'
  BY <1>4, HandlerKeeps, SenderKeeps
<1> QED  BY <1>1, <1>2, <1>3, <1>4 DEF Next

LEMMA WorkerHolds == Spec => []WorkerInv
BY WorkerInit, WorkerStep, PTL DEF Spec

\* Types, the counter of attempts included: it stops one beyond its bound.
THEOREM WorkerTypeCorrect == Spec => []TypeOK
BY WorkerHolds, PTL DEF WorkerInv

\* For any assignments, also of one task that is retried over and over on one
\* connection: every connection starts with the registration, and nothing of an
\* assignment follows its report but the progress of a handler that raised.
THEOREM WireInOrder == Spec => []WireIsOrdered
BY WorkerHolds, PTL DEF WorkerInv

\* What the event loop still has to do for a task.
InProcess(a) == step[a] \in {"running", "joining", "raised", "reported"}

\* current_task is the one task that _process_task is at.
OneAtATime == \A a \in Assignment : InProcess(a) <=> current = a

LEMMA OneTaskStep == TypeOK /\ OneAtATime /\ [Next]_vars => OneAtATime'
<1> SUFFICES ASSUME TypeOK, OneAtATime, [Next]_vars  PROVE OneAtATime'
  OBVIOUS
<1> USE DEF OneAtATime, InProcess
<1>1. step \in [Assignment -> Step] /\ current \in Assignment \cup {NoTask} /\ NoTask \notin Assignment
  BY WorkerAssumption DEF TypeOK
<1>2. CASE UNCHANGED <<step, current>>
  BY <1>2
<1>3. CASE ConnectionManager \/ Heartbeat \/ SocketEnds \/ Stop \/ IdleExit \/ RegisterResponse
           \/ UNCHANGED vars
  BY <1>2, <1>3
  DEF ConnectionManager, Connect, ConnectFails, Disconnect, Heartbeat, SocketEnds, Stop,
      IdleExit, RegisterResponse, work, vars
<1>4. ASSUME NEW a \in Assignment, SendProgress(a) \/ ProgressWorker(a)
      PROVE  OneAtATime'
  BY <1>2, <1>4 DEF SendProgress, ProgressWorker
<1>5. ASSUME NEW a \in Assignment, HandleTaskAssignment(a)
      PROVE  OneAtATime'
  BY <1>1, <1>5 DEF HandleTaskAssignment
<1>6. ASSUME NEW a \in Assignment,
             HandlerRaises(a) \/ HandlerReturns(a) \/ SendTaskComplete(a) \/ SendTaskFailed(a)
      PROVE  OneAtATime'
  <2>1. /\ InProcess(a) /\ current' = current
        /\ \E s \in {"raised", "joining", "reported"} : step' = [step EXCEPT ![a] = s]
    BY <1>6 DEF HandlerRaises, HandlerReturns, SendTaskComplete, SendTaskFailed
  <2> QED  BY <1>1, <2>1
<1>7. ASSUME NEW a \in Assignment, Release(a)
      PROVE  OneAtATime'
  BY <1>1, <1>7 DEF Release
<1>8. ASSUME NEW a \in Assignment, AssignmentFails(a)
      PROVE  OneAtATime'
  BY <1>1, <1>8 DEF AssignmentFails
<1> QED  BY <1>3, <1>4, <1>5, <1>6, <1>7, <1>8 DEF Next, EventLoop

\* The worker is at one task at a time, and it is at the one that current_task
\* names: no task it has begun is forgotten before its release, and none it has
\* released keeps it from the next or from its idle exit. The safety half of
\* WorkerReleasesTask.
THEOREM WorkerAtOneTask == Spec => []OneAtATime
<1>1. Init => OneAtATime
  BY WorkerAssumption DEF Init, OneAtATime, InProcess
<1> QED  BY <1>1, OneTaskStep, WorkerTypeCorrect, PTL DEF Spec

-----------------------------------------------------------------------------
(* The health check.                                                       *)

\* A word of the status is that of some feature that failed, once one of them
\* has stored it, and "up" until then.
WordOf(word, stored) ==
    /\ word = "up" \/ \E f \in failed : word = Health!Severity(f)
    /\ (\E f \in failed : check[f] \in stored) => word # "up"

HealthInv ==
    /\ check \in [Feature -> {"asking", "failed", "text", "length", "judged", "done"}]
    /\ failed \subseteq Feature /\ details \subseteq Feature
    /\ \A f \in Feature : /\ check[f] \in {"failed", "text", "length"} => f \in failed
                          /\ check[f] = "asking" => f \notin failed
                          /\ check[f] = "done" => f \in details
    /\ WordOf(text, {"text", "judged", "done"})
    /\ WordOf(length, {"length", "judged", "done"})
    /\ answer # "none" => \A f \in Feature : check[f] = "done"
    /\ Health!HealthIsWorst

LEMMA HealthInit == Health!Init => HealthInv
<1> SUFFICES ASSUME Health!Init  PROVE HealthInv
  OBVIOUS
<1>1. check \in [Feature -> {"asking", "failed", "text", "length", "judged", "done"}]
      /\ \A f \in Feature : check[f] = "asking"
  BY DEF Health!Init
<1> QED  BY <1>1 DEF Health!Init, HealthInv, WordOf, Health!HealthIsWorst

\* What a feature does before the answer.
LEMMA FeatureKeeps ==
    ASSUME HealthInv, NEW f \in Feature,
           Health!Ask(f) \/ Health!StoreText(f) \/ Health!StoreLength(f) \/ Health!PutDetail(f)
    PROVE  HealthInv'
<1>1. answer = "none" /\ answer' = answer
  BY DEF HealthInv, Health!Ask, Health!StoreText, Health!StoreLength, Health!PutDetail
<1>2. Health!HealthIsWorst'
  BY <1>1 DEF Health!HealthIsWorst
<1>3. Health!Severity(f) # "up"
  BY DEF Health!Severity
<1>4. CASE Health!Ask(f)
  <2>1. PICK s \in {"judged", "failed"} :
           /\ check' = [check EXCEPT ![f] = s]
           /\ s = "judged" => failed' = failed
           /\ s = "failed" => failed' = failed \cup {f}
    BY <1>4 DEF Health!Ask
  <2>2. check[f] = "asking" /\ f \notin failed /\ UNCHANGED <<text, length, details>>
    BY <1>4 DEF Health!Ask, HealthInv
  <2>3. WordOf(text, {"text", "judged", "done"})' /\ WordOf(length, {"length", "judged", "done"})'
    BY <2>1, <2>2 DEF HealthInv, WordOf, Health!Severity
  <2> QED  BY <1>1, <1>2, <2>1, <2>2, <2>3 DEF HealthInv
<1>5. CASE Health!StoreText(f)
  <2>1. PICK s \in {"text", "judged"} : check' = [check EXCEPT ![f] = s]
    BY <1>5 DEF Health!StoreText
  <2>2. /\ check[f] \in {"failed", "length"} /\ (check[f] = "failed" => check'[f] = "text")
        /\ text' = Health!Severity(f) /\ f \in failed
        /\ UNCHANGED <<length, failed, details>>
    BY <1>5 DEF Health!StoreText, HealthInv
  <2>3. WordOf(text, {"text", "judged", "done"})' /\ WordOf(length, {"length", "judged", "done"})'
    BY <1>3, <2>1, <2>2 DEF HealthInv, WordOf, Health!Severity
  <2> QED  BY <1>1, <1>2, <2>1, <2>2, <2>3 DEF HealthInv
<1>6. CASE Health!StoreLength(f)
  <2>1. PICK s \in {"length", "judged"} : check' = [check EXCEPT ![f] = s]
    BY <1>6 DEF Health!StoreLength
  <2>2. /\ check[f] \in {"failed", "text"} /\ (check[f] = "failed" => check'[f] = "length")
        /\ length' = Health!Severity(f) /\ f \in failed
        /\ UNCHANGED <<text, failed, details>>
    BY <1>6 DEF Health!StoreLength, HealthInv
  <2>3. WordOf(text, {"text", "judged", "done"})' /\ WordOf(length, {"length", "judged", "done"})'
    BY <1>3, <2>1, <2>2 DEF HealthInv, WordOf, Health!Severity
  <2> QED  BY <1>1, <1>2, <2>1, <2>2, <2>3 DEF HealthInv
<1>7. CASE Health!PutDetail(f)
  <2>1. /\ check[f] = "judged" /\ check' = [check EXCEPT ![f] = "done"]
        /\ details' = details \cup {f} /\ UNCHANGED <<text, length, failed>>
    BY <1>7 DEF Health!PutDetail
  <2>2. WordOf(text, {"text", "judged", "done"})' /\ WordOf(length, {"length", "judged", "done"})'
    BY <2>1 DEF HealthInv, WordOf, Health!Severity
  <2> QED  BY <1>1, <1>2, <2>1, <2>2 DEF HealthInv
<1> QED  BY <1>4, <1>5, <1>6, <1>7

LEMMA AnswerKeeps ==
    ASSUME HealthInv, Health!handleHealth
    PROVE  HealthInv'
<1>1. /\ \A f \in Feature : check[f] = "done" /\ f \in details
      /\ answer' = (IF text = length THEN text ELSE "torn")
      /\ UNCHANGED <<check, text, length, failed, details>>
      /\ failed \subseteq Feature /\ details \subseteq Feature
  BY DEF Health!handleHealth, HealthInv
<1>2. CASE failed = {}
  <2>1. text = "up" /\ length = "up" /\ Health!Worst = "up"
    BY <1>2 DEF HealthInv, WordOf, Health!Worst
  <2> QED  BY <1>1, <2>1 DEF HealthInv, WordOf, Health!HealthIsWorst, Health!Worst, Health!Severity
<1>3. CASE failed # {} /\ failed \cap Required = {}
  <2>1. text = "degraded" /\ length = "degraded" /\ Health!Worst = "degraded"
    BY <1>1, <1>3 DEF HealthInv, WordOf, Health!Severity, Health!Worst
  <2> QED  BY <1>1, <2>1 DEF HealthInv, WordOf, Health!HealthIsWorst, Health!Worst, Health!Severity
<1>4. CASE failed # {} /\ failed \ Required = {}
  <2>1. text = "down" /\ length = "down" /\ Health!Worst = "down"
    BY <1>1, <1>4 DEF HealthInv, WordOf, Health!Severity, Health!Worst
  <2> QED  BY <1>1, <2>1 DEF HealthInv, WordOf, Health!HealthIsWorst, Health!Worst, Health!Severity
<1>5. CASE failed \cap Required # {} /\ failed \ Required # {}
  BY <1>1, <1>5 DEF HealthInv, WordOf, Health!HealthIsWorst, Health!Severity
<1> QED  BY <1>2, <1>3, <1>4, <1>5

\* /health answers the worst of what its features say, with every detail, for any
\* features and in any order of the stores; the exception is what the code's
\* unprotected status allows, a required and an optional feature failing together.
THEOREM HealthAnswersWorst == Health!Spec => []HealthIsWorst
<1>1. HealthInv /\ [Health!Next]_Health!vars => HealthInv'
  <2> SUFFICES ASSUME HealthInv, [Health!Next]_Health!vars  PROVE HealthInv'
    OBVIOUS
  <2>1. CASE UNCHANGED Health!vars
    BY <2>1 DEF Health!vars, HealthInv, WordOf, Health!HealthIsWorst, Health!Worst, Health!Severity
  <2> QED  BY <2>1, FeatureKeeps, AnswerKeeps DEF Health!Next
<1>2. HealthInv => Health!HealthIsWorst
  BY DEF HealthInv
<1> QED  BY <1>1, <1>2, HealthInit, PTL DEF Health!Spec, HealthIsWorst

-----------------------------------------------------------------------------
(* The file storage.                                                       *)

\* What Upload leaves when it returns an id, until somebody deletes it, and what
\* it has written on the way there.
StorageInv ==
    /\ upload = "copied" => Storage!local /\ data = "whole"
    /\ upload = "mkdir" => Storage!local
    /\ upload = "put" => ~Storage!local /\ data = "whole"
    /\ upload = "ok" /\ delete = "idle" =>
          IF Storage!local
          THEN meta /\ data = IF name = "metadata" THEN "clobbered" ELSE "whole"
          ELSE data = "whole"
    /\ upload = "ok" =>
          data # "partial" /\ (data = "clobbered" => Storage!local /\ name = "metadata")
    /\ download # "idle" \/ delete # "idle" => upload = "ok"
    /\ Storage!ServedIsUploaded

\* Every accepted file is served as it was sent until it is deleted, unless the
\* download itself meets an I/O error, and no body that broke is served: on either
\* backend and whatever failed or crashed before. The local storage alone breaks
\* it, for three kinds of filename.
THEOREM FileIsServed == Storage!Spec => []ServedIsUploaded
<1> USE DEF StorageInv, Storage!ServedIsUploaded, Storage!local, Storage!s3
<1>1. Storage!Init => StorageInv
  BY DEF Storage!Init
<1>2. StorageInv /\ [Storage!Next]_Storage!vars => StorageInv'
  <2> SUFFICES ASSUME StorageInv, [Storage!Next]_Storage!vars  PROVE StorageInv'
    OBVIOUS
  <2>1. CASE Storage!UploadMkdir \/ Storage!UploadCreate \/ Storage!UploadCopy
    BY <2>1 DEF Storage!UploadMkdir, Storage!UploadCreate, Storage!UploadCopy
  <2>2. CASE Storage!WriteMetadata
    BY <2>2 DEF Storage!WriteMetadata, Storage!Overwritten
  <2>3. CASE Storage!PutObject \/ Storage!HeadObject \/ Storage!Crash
    BY <2>3 DEF Storage!PutObject, Storage!HeadObject, Storage!Crash
  <2>4. CASE Storage!GetFileInfo
    <3>1. /\ upload = "ok" /\ UNCHANGED <<backend, name, data, meta, upload, delete>>
          /\ \/ download' = "io"
             \/ download' = IF Storage!local THEN Storage!LocalFileInfo
                                             ELSE Storage!findObjectByFileID
      BY <2>4 DEF Storage!GetFileInfo, Storage!Read
    <3> QED
      BY <3>1 DEF Storage!LocalFileInfo, Storage!Readable, Storage!findObjectByFileID
  <2>5. CASE Storage!Open
    <3>1. /\ upload = "ok" /\ UNCHANGED <<backend, name, data, meta, upload, delete>>
          /\ \/ download' = "io"
             \/ download' = IF data = "none" THEN "error" ELSE data
      BY <2>5 DEF Storage!Open, Storage!Contents, Storage!Read
    <3>2. data \notin {"partial"} /\ (delete = "idle" => data \in {"whole", "clobbered"})
      BY <3>1
    <3> QED  BY <3>1, <3>2
  <2>8. CASE Storage!Close
    BY <2>8 DEF Storage!Close
  <2>6. CASE Storage!Delete \/ Storage!Remove
    BY <2>6 DEF Storage!Delete, Storage!Remove
  <2>7. CASE UNCHANGED Storage!vars
    BY <2>7 DEF Storage!vars
  <2> QED  BY <2>1, <2>2, <2>3, <2>4, <2>5, <2>6, <2>7, <2>8 DEF Storage!Next
<1>3. StorageInv => Storage!ServedIsUploaded
  OBVIOUS
<1> QED  BY <1>1, <1>2, <1>3, PTL DEF Storage!Spec, ServedIsUploaded

-----------------------------------------------------------------------------
(* The signatures.                                                         *)

\* A request on its way is one of the three kinds, signed with some token.
Signed ==
    request # Auth!None =>
        \E token \in Token, date \in Auth!Time :
            /\ request.date = date /\ request.signature.token = token
            /\ \/ /\ request.kind = "register"
                  /\ request.signature =
                        Auth!Sign("websocket", token, date, Auth!Registration(date))
               \/ /\ request.kind = "http" /\ request.by = "python"
               \/ /\ request.kind = "http" /\ request.by = "go"
                  /\ request.headers \in {{"date"}, {"date", "hash"}}
                  /\ request.signature =
                        Auth!Sign("request", token, date,
                                  Auth!Canonical(request.headers, "unsigned", "go"))

AuthInv ==
    /\ now \in 0..MaxTime
    /\ Signed
    /\ verdict # "none" => request # Auth!None
    /\ Auth!SignedIsAccepted

\* Two signatures are the same only if their tokens and contents are.
LEMMA SignatureIs ==
    ASSUME NEW purpose, NEW a, NEW b, NEW date, NEW c, NEW d
    PROVE  Auth!Sign(purpose, a, date, c) = Auth!Sign(purpose, b, date, d) <=> a = b /\ c = d
<1>1. Auth!Sign(purpose, a, date, c).token = a /\ Auth!Sign(purpose, a, date, c).content = c
      /\ Auth!Sign(purpose, b, date, d).token = b /\ Auth!Sign(purpose, b, date, d).content = d
  BY DEF Auth!Sign
<1>2. a = b /\ c = d => Auth!Sign(purpose, a, date, c) = Auth!Sign(purpose, b, date, d)
  OBVIOUS
<1> QED  BY <1>1, <1>2

LEMMA StaleIs ==
    ASSUME Window \in Nat, MaxTime \in Nat, MaxSkew \in Nat, now \in 0..MaxTime,
           request.date \in Auth!Time
    PROVE  Auth!Stale <=> request.date - now \notin -Window..Window
<1>1. now \in Int /\ request.date \in Int
  BY DEF Auth!Time
<1> QED  BY <1>1 DEF Auth!Stale

LEMMA SubmitKeeps ==
    ASSUME AuthInv, NEW token \in Token, NEW date \in Auth!Time,
           \/ Auth!SendRegistration(token, date)
           \/ \E hashed \in BOOLEAN : Auth!BuildAuthorizationHeader(token, date, hashed)
           \/ Auth!build_http_authorization_header(token, date)
    PROVE  AuthInv'
<1>1. /\ request = Auth!None /\ UNCHANGED <<now, verdict>>
  BY DEF Auth!SendRegistration, Auth!BuildAuthorizationHeader,
     Auth!build_http_authorization_header, Auth!Submit
<1>2. verdict = "none" /\ verdict' = "none"
  BY <1>1 DEF AuthInv
<1>3. Signed'
  <2>1. CASE Auth!SendRegistration(token, date)
    <3>1. request'.date = date /\ request'.kind = "register"
          /\ request'.signature = Auth!Sign("websocket", token, date, Auth!Registration(date))
      BY <2>1 DEF Auth!SendRegistration, Auth!Submit
    <3>2. request'.signature.token = token
      BY <3>1 DEF Auth!Sign
    <3> QED  BY <3>1, <3>2 DEF Signed
  <2>2. ASSUME NEW hashed \in BOOLEAN, Auth!BuildAuthorizationHeader(token, date, hashed)
        PROVE  Signed'
    <3>1. PICK headers \in {{"date"}, {"date", "hash"}} :
             /\ request'.date = date /\ request'.kind = "http" /\ request'.by = "go"
             /\ request'.headers = headers
             /\ request'.signature =
                   Auth!Sign("request", token, date, Auth!Canonical(headers, "unsigned", "go"))
      BY <2>2 DEF Auth!BuildAuthorizationHeader, Auth!Submit
    <3>2. request'.signature.token = token
      BY <3>1 DEF Auth!Sign
    <3> QED  BY <3>1, <3>2 DEF Signed
  <2>3. CASE Auth!build_http_authorization_header(token, date)
    <3>1. /\ request'.date = date /\ request'.kind = "http" /\ request'.by = "python"
          /\ request'.signature =
                Auth!Sign("request", token, date, Auth!Canonical({}, "none", "python"))
      BY <2>3 DEF Auth!build_http_authorization_header, Auth!Submit
    <3>2. request'.signature.token = token
      BY <3>1 DEF Auth!Sign
    <3> QED  BY <3>1, <3>2 DEF Signed
  <2> QED  BY <2>1, <2>2, <2>3
<1> QED  BY <1>1, <1>2, <1>3 DEF AuthInv, Auth!SignedIsAccepted

LEMMA ValidateKeeps ==
    ASSUME Window \in Nat, MaxTime \in Nat, MaxSkew \in Nat, AuthInv,
           Auth!ValidateWebSocketSignature \/ Auth!ValidateSignature
    PROVE  AuthInv'
<1>1. UNCHANGED <<now, request>> /\ request # Auth!None
  BY DEF Auth!ValidateWebSocketSignature, Auth!ValidateSignature, Auth!Judge, Auth!Receive
<1>2. PICK token \in Token, date \in Auth!Time :
         /\ request.date = date /\ request.signature.token = token
         /\ \/ /\ request.kind = "register"
               /\ request.signature =
                     Auth!Sign("websocket", token, date, Auth!Registration(date))
            \/ /\ request.kind = "http" /\ request.by = "python"
            \/ /\ request.kind = "http" /\ request.by = "go"
               /\ request.headers \in {{"date"}, {"date", "hash"}}
               /\ request.signature =
                     Auth!Sign("request", token, date,
                               Auth!Canonical(request.headers, "unsigned", "go"))
  BY <1>1 DEF AuthInv, Signed
<1>3. Auth!Stale <=> request.date - now \notin -Window..Window
  BY <1>2, StaleIs DEF AuthInv
<1>4. Auth!SignedIsAccepted'
  <2>1. CASE Auth!ValidateWebSocketSignature
    <3>1. request.kind = "register"
      BY <2>1 DEF Auth!ValidateWebSocketSignature, Auth!Receive
    <3>2. request.signature = Auth!Sign("websocket", token, date, Auth!Registration(date))
      BY <1>2, <3>1
    <3>3. request.signature = Auth!Sign("websocket", WorkerToken, date, Auth!Registration(date))
             <=> token = WorkerToken
      BY <3>2, SignatureIs
    <3>4. verdict' = IF Auth!Stale THEN "stale"
                     ELSE IF token = WorkerToken THEN "accepted" ELSE "mismatch"
      BY <1>2, <2>1, <3>3 DEF Auth!ValidateWebSocketSignature, Auth!Judge
    <3> QED  BY <1>1, <1>2, <1>3, <3>1, <3>4 DEF Auth!SignedIsAccepted
  <2>2. CASE Auth!ValidateSignature
    <3>1. request.kind = "http"
      BY <2>2 DEF Auth!ValidateSignature, Auth!Receive
    <3>2. CASE request.by = "python"
      BY <1>1, <2>2, <3>1, <3>2
         DEF Auth!ValidateSignature, Auth!Judge, Auth!Malformed, Auth!SignedIsAccepted
    <3>3. CASE request.by = "go"
      <4>1. PICK payload : payload = IF "hash" \in request.headers THEN "hash" ELSE "unsigned"
        OBVIOUS
      <4>2. /\ request.headers \in {{"date"}, {"date", "hash"}}
            /\ request.signature =
                  Auth!Sign("request", token, date, Auth!Canonical(request.headers, "unsigned", "go"))
        BY <1>2, <3>1, <3>3
      <4>3. Auth!Canonical(request.headers, "unsigned", "go")
               = Auth!Canonical(request.headers, payload, "go") <=> payload = "unsigned"
        <5>1. \A p : Auth!Canonical(request.headers, p, "go").payload = p
          BY DEF Auth!Canonical
        <5> QED  BY <5>1
      <4>4. request.signature =
               Auth!Sign("request", WorkerToken, date, Auth!Canonical(request.headers, payload, "go"))
               <=> token = WorkerToken /\ "hash" \notin request.headers
        BY <4>1, <4>2, <4>3, SignatureIs
      <4>5. ~Auth!Malformed
        BY <3>3, <4>2 DEF Auth!Malformed
      <4>6. verdict' = IF Auth!Stale THEN "stale"
                       ELSE IF token = WorkerToken /\ "hash" \notin request.headers
                            THEN "accepted" ELSE "mismatch"
        BY <1>2, <2>2, <4>1, <4>4, <4>5 DEF Auth!ValidateSignature, Auth!Judge
      <4> QED  BY <1>1, <1>2, <1>3, <3>1, <3>3, <4>6 DEF Auth!SignedIsAccepted
    <3> QED  BY <1>2, <3>1, <3>2, <3>3
  <2> QED  BY <2>1, <2>2
<1>5. Signed'
  BY <1>1 DEF AuthInv, Signed
<1> QED  BY <1>1, <1>4, <1>5 DEF AuthInv

\* A registration or a plain HTTP request that a client signs with the right token
\* is accepted while its clock is within the window, whatever the length of the
\* day: the key is made of the date of the request, never of the controller's.
THEOREM SignedAccepted ==
    ASSUME Window \in Nat, MaxTime \in Nat, MaxSkew \in Nat
    PROVE  Auth!Spec => []SignedIsAccepted
<1>1. Auth!Init => AuthInv
  BY DEF Auth!Init, AuthInv, Signed, Auth!SignedIsAccepted
<1>2. AuthInv /\ [Auth!Next]_Auth!vars => AuthInv'
  <2> SUFFICES ASSUME AuthInv, [Auth!Next]_Auth!vars  PROVE AuthInv'
    OBVIOUS
  <2>1. CASE Auth!Tick
    BY <2>1 DEF Auth!Tick, AuthInv, Signed, Auth!SignedIsAccepted
  <2>2. CASE Auth!Answer
    BY <2>2 DEF Auth!Answer, AuthInv, Signed, Auth!SignedIsAccepted
  <2>3. CASE UNCHANGED Auth!vars
    BY <2>3 DEF Auth!vars, AuthInv, Signed, Auth!SignedIsAccepted
  <2> QED  BY <2>1, <2>2, <2>3, SubmitKeeps, ValidateKeeps DEF Auth!Next
<1>3. AuthInv => Auth!SignedIsAccepted
  BY DEF AuthInv
<1> QED  BY <1>1, <1>2, <1>3, PTL DEF Auth!Spec, SignedIsAccepted

-----------------------------------------------------------------------------
(* The types of all parts.                                                 *)

\* A local file is only written once its directory is there, which only Delete
\* takes away from a file that was accepted.
DirectoryFirst ==
    /\ Storage!local /\ upload \in {"mkdir", "copied"} => dir
    /\ delete # "idle" => upload = "ok"

LEMMA StorageTyped == Storage!Spec => []Storage!TypeOK
<1> DEFINE Typed == Storage!TypeOK /\ DirectoryFirst
<1> USE DEF Storage!TypeOK, DirectoryFirst, Storage!local, Storage!s3
<1>1. Storage!Init => Typed
  BY DEF Storage!Init
<1>2. Typed /\ [Storage!Next]_Storage!vars => Typed'
  <2> SUFFICES ASSUME Typed, [Storage!Next]_Storage!vars  PROVE Typed'
    OBVIOUS
  <2>1. CASE Storage!UploadMkdir \/ Storage!UploadCreate \/ Storage!UploadCopy
    BY <2>1 DEF Storage!UploadMkdir, Storage!UploadCreate, Storage!UploadCopy
  <2>2. CASE Storage!WriteMetadata
    BY <2>2 DEF Storage!WriteMetadata, Storage!Overwritten
  <2>3. CASE Storage!PutObject \/ Storage!HeadObject \/ Storage!Crash
    BY <2>3 DEF Storage!PutObject, Storage!HeadObject, Storage!Crash
  <2>4. CASE Storage!GetFileInfo \/ Storage!Open \/ Storage!Close
    BY <2>4 DEF Storage!GetFileInfo, Storage!LocalFileInfo, Storage!findObjectByFileID,
       Storage!Open, Storage!Contents, Storage!Read, Storage!Close
  <2>5. CASE Storage!Delete
    BY <2>5 DEF Storage!Delete
  <2>7. CASE Storage!Remove
    <3>1. meta' \in BOOLEAN /\ dir' \in BOOLEAN
      BY <2>7 DEF Storage!Remove
    <3>2. delete' \in {"removing", "done"} /\ upload = "ok"
      BY <2>7 DEF Storage!Remove
    <3>3. data' \in {data, "none"} /\ ((data' # "none" /\ Storage!local) => dir')
      BY <2>7 DEF Storage!Remove
    <3> QED  BY <2>7, <3>1, <3>2, <3>3 DEF Storage!Remove
  <2>6. CASE UNCHANGED Storage!vars
    BY <2>6 DEF Storage!vars
  <2> QED  BY <2>1, <2>2, <2>3, <2>4, <2>5, <2>6, <2>7 DEF Storage!Next
<1> QED  BY <1>1, <1>2, PTL DEF Storage!Spec

LEMMA HealthTyped == Health!Spec => []Health!TypeOK
<1> USE DEF Health!TypeOK, Health!HealthStatus
<1>1. Health!Init => Health!TypeOK
  BY DEF Health!Init
<1>2. Health!TypeOK /\ [Health!Next]_Health!vars => Health!TypeOK'
  <2> SUFFICES ASSUME Health!TypeOK, [Health!Next]_Health!vars  PROVE Health!TypeOK'
    OBVIOUS
  <2>1. ASSUME NEW f \in Feature, Health!Ask(f) \/ Health!PutDetail(f)
        PROVE  Health!TypeOK'
    BY <2>1 DEF Health!Ask, Health!PutDetail
  <2>2. ASSUME NEW f \in Feature, Health!StoreText(f) \/ Health!StoreLength(f)
        PROVE  Health!TypeOK'
    BY <2>2 DEF Health!StoreText, Health!StoreLength, Health!Severity
  <2>3. CASE Health!handleHealth
    BY <2>3 DEF Health!handleHealth
  <2>4. CASE UNCHANGED Health!vars
    BY <2>4 DEF Health!vars
  <2> QED  BY <2>1, <2>2, <2>3, <2>4 DEF Health!Next
<1> QED  BY <1>1, <1>2, PTL DEF Health!Spec

LEMMA AuthTyped ==
    ASSUME MaxTime \in Nat
    PROVE  Auth!Spec => []Auth!TypeOK
<1>1. Auth!Init => Auth!TypeOK
  BY DEF Auth!Init, Auth!TypeOK
<1>2. Auth!TypeOK /\ [Auth!Next]_Auth!vars => Auth!TypeOK'
  <2> SUFFICES ASSUME Auth!TypeOK, [Auth!Next]_Auth!vars  PROVE Auth!TypeOK'
    OBVIOUS
  <2>1. CASE Auth!Tick
    BY <2>1 DEF Auth!Tick, Auth!TypeOK
  <2>2. ASSUME NEW token \in Token, NEW kind, NEW by \in {"go", "python"}, NEW headers,
               NEW date, NEW purpose, NEW content,
               Auth!Submit(kind, by, headers, date, Auth!Sign(purpose, token, date, content))
        PROVE  Auth!TypeOK'
    BY <2>2 DEF Auth!Submit, Auth!Sign, Auth!TypeOK
  <2>3. CASE Auth!ValidateWebSocketSignature \/ Auth!ValidateSignature
    BY <2>3 DEF Auth!ValidateWebSocketSignature, Auth!ValidateSignature, Auth!Judge, Auth!TypeOK
  <2>4. CASE Auth!Answer
    BY <2>4 DEF Auth!Answer, Auth!TypeOK
  <2>5. CASE UNCHANGED Auth!vars
    BY <2>5 DEF Auth!vars, Auth!TypeOK
  <2> QED
    BY <2>1, <2>2, <2>3, <2>4, <2>5
    DEF Auth!Next, Auth!SendRegistration, Auth!BuildAuthorizationHeader,
        Auth!build_http_authorization_header
<1> QED  BY <1>1, <1>2, PTL DEF Auth!Spec

\* The five parts side by side keep the types of all of them: the bounded retries
\* of the worker, files in their directory, words of a status, known verdicts
\* and the phases of main.
THEOREM ServicesTyped ==
    ASSUME Configured \subseteq Queue, MaxTime \in Nat
    PROVE  Spec /\ Storage!Spec /\ Health!Spec /\ Auth!Spec /\ Server!Spec
              => []ServicesTypeOK
<1>1. Spec => []TypeOK
  BY WorkerTypeCorrect
<1>2. Server!Spec => []Server!TypeOK
  <2>1. ServerInv => Server!TypeOK
    BY DEF ServerInv
  <2> QED  BY <2>1, ServerInit, ServerNext, PTL DEF Server!Spec
<1> QED
  BY <1>1, <1>2, StorageTyped, HealthTyped, AuthTyped, PTL DEF ServicesTypeOK
=============================================================================
