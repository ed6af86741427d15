-------------------------- MODULE ControllerServer --------------------------
(***************************************************************************)
(* The process of the controller (main.go, server.go): NewServer, Start    *)
(* and the way down, with the HTTP handlers that work on queue documents   *)
(* or wait for a task meanwhile (handlers.go, repositories.go). The queue   *)
(* documents and the indexes of the database outlive the process.          *)
(***************************************************************************)
CONSTANTS
    Request,     \* HTTP requests, one handler each
    Queue,
    Configured,  \* config.Queues, some of Queue
    Faults       \* what may happen: "io", "leave"

VARIABLES
    config,    \* what the configuration says
    phase,     \* where main is
    ttl,       \* the TTL index of the session documents, as it is in the database
    todo,      \* the queues initializeQueues has still to look at
    queues,    \* the queue documents, by where their description is from
    database,  \* the client of the database is open
    stop,      \* shutdownRequested, and the closed channel
    deadline,  \* the 30 s of the graceful shutdown are over
    handler,   \* the step of each request
    target,    \* its queue
    missed,    \* configured queues that could not be created
    deleted    \* queues deleted over the API and not created since

main == <<config, phase, ttl, todo, database, stop, deadline>>
http == <<handler, target>>
vars == <<main, queues, http, missed, deleted>>

\* A storage type, none, an unknown one, or a value that validateConfig refuses.
ConfigKind == {"local", "s3", "default", "unknown", "invalid"}

\* "other": an index on last_heartbeat with another expiry.
TTLIndex == {"none", "other", "current"}

Phase == {"config", "storage", "database", "indexes", "queues", "built", "started", "listening", "serving",
          "drain api", "drain worker", "close", "exited"}

Working == {"create", "update", "write", "delete", "wait"}

\* Main is in one phase, and every request at one step of its handler.
TypeOK ==
    /\ config \in ConfigKind /\ phase \in Phase /\ ttl \in TTLIndex
    /\ todo \subseteq Configured /\ missed \subseteq Configured /\ deleted \subseteq Queue
    /\ queues \in [Queue -> {"none", "config", "api"}]
    /\ database \in BOOLEAN /\ stop \in BOOLEAN /\ deadline \in BOOLEAN
    /\ handler \in [Request -> Working \cup {"new", "answered", "refused"}]
    /\ target \in [Request -> Queue]

\* The documents may be those of an earlier run.
Init ==
    /\ config \in ConfigKind
    /\ phase = "config"
    /\ ttl \in TTLIndex
    /\ todo = Configured
    /\ queues \in [Queue -> {"none", "api"}]
    /\ database = FALSE /\ stop = FALSE /\ deadline = FALSE
    /\ handler = [r \in Request |-> "new"]
    /\ target \in {[r \in Request |-> q] : q \in Queue}
    /\ missed = {} /\ deleted = {}

-----------------------------------------------------------------------------
(* The configuration, NewServer and Start.                                  *)

Go(from, to) == phase = from /\ phase' = to

\* Without a storage type the default is written into a map nobody made: a panic.
setDefaults == config # "default"

\* The server id, ports, types and the limits of the provisioners.
validateConfig == config # "invalid"

LoadConfig ==
    /\ Go("config", IF setDefaults /\ validateConfig THEN "storage" ELSE "exited")
    /\ UNCHANGED <<config, ttl, todo, queues, database, stop, deadline, http, missed, deleted>>

\* The directory is made, and a file can be written into it.
NewLocalStorage == config = "local" /\ Go("storage", "database")

\* The bucket answers within 10 s.
NewS3Storage == config = "s3" /\ Go("storage", "database")

\* "unsupported storage type".
UnknownStorage == config = "unknown" /\ Go("storage", "exited")

OpenStorage ==
    /\ NewLocalStorage \/ NewS3Storage \/ UnknownStorage
    /\ UNCHANGED <<config, ttl, todo, queues, database, stop, deadline, http, missed, deleted>>

\* NewDB: connect and ping.
OpenDatabase ==
    /\ Go("database", "indexes")
    /\ database' = TRUE
    /\ UNCHANGED <<config, ttl, todo, queues, stop, deadline, http, missed, deleted>>

\* CreateOne is refused because of an index with other options: that one is
\* dropped, and the process may end before the new one is there.
ReplaceIndex ==
    /\ phase = "indexes" /\ ttl = "other"
    /\ ttl' = "none"
    /\ UNCHANGED <<config, phase, todo, queues, database, stop, deadline, http, missed, deleted>>

\* Mutant of createIndexes: the index that is there is taken for the one wanted.
createIndexesIfNone ==
    /\ Go("indexes", "queues")
    /\ ttl' = IF ttl = "none" THEN "current" ELSE ttl
    /\ UNCHANGED <<config, todo, queues, database, stop, deadline, http, missed, deleted>>

\* The indexes of the four collections; of them only the TTL index changes what
\* the database does.
createIndexes ==
    /\ ttl # "other"
    /\ Go("indexes", "queues")
    /\ ttl' = "current"
    /\ UNCHANGED <<config, todo, queues, database, stop, deadline, http, missed, deleted>>

\* A queue that is there stays as it is; one that cannot be created is skipped.
InitializeQueue(q) ==
    /\ phase = "queues" /\ q \in todo
    /\ todo' = todo \ {q}
    /\ \/ queues[q] = "none" /\ queues' = [queues EXCEPT ![q] = "config"] /\ UNCHANGED missed
       \/ queues[q] # "none" /\ UNCHANGED <<queues, missed>>
       \/ "io" \in Faults /\ missed' = missed \cup {q} /\ UNCHANGED queues
    /\ UNCHANGED <<config, phase, ttl, database, stop, deadline, http, deleted>>

QueuesInitialized ==
    /\ todo = {}
    /\ Go("queues", "built")
    /\ UNCHANGED <<config, ttl, todo, queues, database, stop, deadline, http, missed, deleted>>

\* workerManager.Start, then the two listeners.
Start ==
    /\ Go("built", "started") \/ Go("started", "listening") \/ Go("listening", "serving")
    /\ UNCHANGED <<config, ttl, todo, queues, database, stop, deadline, http, missed, deleted>>

\* log.Fatalf.
StartupFails ==
    /\ "io" \in Faults
    /\ phase \in {"config", "storage", "database", "indexes", "started", "listening"}
    /\ phase' = "exited"
    /\ UNCHANGED <<config, ttl, todo, queues, database, stop, deadline, http, missed, deleted>>

\* Stop: a signal, once main listens to it, or the error of a server; both may
\* come, and the channel is closed once.
Stop ==
    /\ phase \in {"built", "started", "listening", "serving"}
    /\ ~stop
    /\ stop' = TRUE
    /\ UNCHANGED <<config, phase, ttl, todo, queues, database, deadline, http, missed, deleted>>

-----------------------------------------------------------------------------
(* The way down.                                                           *)

Active(r) == handler[r] \in Working

\* "Shutdown worker manager first": the workers are gone, requests still come.
ShutdownManager ==
    /\ stop
    /\ Go("serving", "drain api")
    /\ UNCHANGED <<config, ttl, todo, queues, database, stop, deadline, http, missed, deleted>>

Deadline ==
    /\ phase \in {"drain api", "drain worker"}
    /\ ~deadline
    /\ deadline' = TRUE
    /\ UNCHANGED <<config, phase, ttl, todo, queues, database, stop, http, missed, deleted>>

\* Mutant of ShutdownApi: Close instead of Shutdown.
ShutdownApiAtOnce ==
    /\ Go("drain api", "drain worker")
    /\ UNCHANGED <<config, ttl, todo, queues, database, stop, deadline, http, missed, deleted>>

\* apiServer.Shutdown waits for the handlers, until the deadline.
ShutdownApi ==
    /\ Go("drain api", "drain worker")
    /\ deadline \/ \A r \in Request : ~Active(r)
    /\ UNCHANGED <<config, ttl, todo, queues, database, stop, deadline, http, missed, deleted>>

\* workerServer.Shutdown does not wait for websockets.
ShutdownWorkers ==
    /\ Go("drain worker", "close")
    /\ UNCHANGED <<config, ttl, todo, queues, database, stop, deadline, http, missed, deleted>>

CloseDatabase ==
    /\ phase = "close"
    /\ IF database THEN database' = FALSE /\ UNCHANGED phase
                   ELSE phase' = "exited" /\ UNCHANGED database
    /\ UNCHANGED <<config, ttl, todo, queues, stop, deadline, http, missed, deleted>>

-----------------------------------------------------------------------------
(* The handlers. A request comes as long as the API server accepts it, and   *)
(* nothing runs after the exit.                                              *)

Accept(r) ==
    /\ phase = "serving"
    /\ handler[r] = "new"
    /\ \E h \in {"create", "update", "delete", "wait"} : handler' = [handler EXCEPT ![r] = h]
    /\ UNCHANGED <<main, queues, target, missed, deleted>>

At(r, h) == phase # "exited" /\ handler[r] = h

Reply(r, h) == handler' = [handler EXCEPT ![r] = h] /\ UNCHANGED <<main, target, missed>>

\* What the database refuses once it is closed, and may refuse before.
DatabaseFails(r) ==
    /\ phase # "exited" /\ handler[r] \in Working \ {"wait"}
    /\ ~database \/ "io" \in Faults
    /\ Reply(r, "refused")
    /\ UNCHANGED <<queues, deleted>>

\* Create: the name is the key, a second document is refused.
handleCreateQueue(r) ==
    /\ At(r, "create") /\ database
    /\ IF queues[target[r]] = "none"
       THEN /\ queues' = [queues EXCEPT ![target[r]] = "api"]
            /\ deleted' = deleted \ {target[r]}
            /\ Reply(r, "answered")
       ELSE Reply(r, "refused") /\ UNCHANGED <<queues, deleted>>

\* GetByName.
handleUpdateQueue(r) ==
    /\ At(r, "update") /\ database
    /\ Reply(r, IF queues[target[r]] = "none" THEN "refused" ELSE "write")
    /\ UNCHANGED <<queues, deleted>>

\* Mutant of UpdateQueue: with upsert.
UpdateQueueUpsert(r) ==
    /\ At(r, "write") /\ database
    /\ queues' = [queues EXCEPT ![target[r]] = "api"]
    /\ Reply(r, "answered")
    /\ UNCHANGED deleted

\* ReplaceOne: of a queue that was deleted meanwhile nothing is written, and the
\* client is told that it was.
UpdateQueue(r) ==
    /\ At(r, "write") /\ database
    /\ queues' = [queues EXCEPT ![target[r]] = IF @ = "none" THEN @ ELSE "api"]
    /\ Reply(r, "answered")
    /\ UNCHANGED deleted

handleDeleteQueue(r) ==
    /\ At(r, "delete") /\ database
    /\ queues' = [queues EXCEPT ![target[r]] = "none"]
    /\ deleted' = deleted \cup {target[r]}
    /\ Reply(r, "answered")

\* A task that is waited for finishes while there are workers; after that only
\* the client ends the request.
WaitEnds(r) ==
    /\ At(r, "wait")
    /\ phase = "serving" \/ "leave" \in Faults
    /\ Reply(r, "answered")
    /\ UNCHANGED <<queues, deleted>>

-----------------------------------------------------------------------------
Next ==
    \/ LoadConfig \/ OpenStorage \/ OpenDatabase \/ ReplaceIndex \/ createIndexes
    \/ QueuesInitialized \/ Start \/ StartupFails \/ Stop
    \/ \E q \in Configured : InitializeQueue(q)
    \/ ShutdownManager \/ Deadline \/ ShutdownApi \/ ShutdownWorkers \/ CloseDatabase
    \/ \E r \in Request :
          \/ Accept(r) \/ DatabaseFails(r) \/ handleCreateQueue(r) \/ handleUpdateQueue(r)
          \/ UpdateQueue(r) \/ handleDeleteQueue(r) \/ WaitEnds(r)

Spec == Init /\ [][Next]_vars

-----------------------------------------------------------------------------
\* The database is open as long as a handler works, short of the deadline.
DatabaseOutlivesHandlers ==
    phase # "exited" => \A r \in Request : Active(r) => database \/ deadline

\* What is configured is there when the API opens.
ConfiguredQueuesExist ==
    phase \in {"built", "started", "listening", "serving"} =>
        \A q \in Configured : queues[q] # "none" \/ q \in missed \cup deleted

\* An update that read the queue before it was deleted does not bring it back.
DeletedQueuesStayDeleted == \A q \in deleted : queues[q] = "none"

\* No startup that went wrong leaves a later server without the index that
\* removes the sessions of workers that are gone.
SessionsExpire ==
    phase \in {"built", "started", "listening", "serving"} => ttl = "current"

\* A handler finds the server whole, from its queues to its database, whatever
\* the startup, the other requests and the shutdown do.
ServerIsWhole ==
    /\ DatabaseOutlivesHandlers /\ ConfiguredQueuesExist
    /\ DeletedQueuesStayDeleted /\ SessionsExpire
=============================================================================
