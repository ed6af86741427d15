------------------------------ MODULE WorkerPool ------------------------------
(***************************************************************************)
(* How workers come, are listed and go: the connections map and the        *)
(* session documents of worker.Manager (HandleRegister, RemoveConnection,  *)
(* WaitForWorkerReady), and the provisioner that starts worker processes   *)
(* for tasks nobody is free for (processTaskAssignment, provisioner/       *)
(* command.go Grow) with the contexts that end them.                       *)
(*                                                                         *)
(* A provisioned worker has its id from Grow and registers every connection *)
(* under it; an external one (provisioner type none) gets a new id for     *)
(* each. The end of a connection deletes the session document of its id,   *)
(* another connection under the id or not (listener.go removeConnection).  *)
(* What happens to tasks after the assignment is in WorkerManager.         *)
(***************************************************************************)
EXTENDS Naturals, FiniteSets

CONSTANTS
    Grown,     \* the workers the command provisioner may start
    External,  \* the workers that are started elsewhere
    MaxLink,   \* bound: the connections each worker makes
    Max,       \* Autoscale.Max of the command provisioner
    Slots,     \* the bucket workers, each in one Grow at a time
    Faults     \* see FaultKinds

(* drop: a connection is lost; start: a worker process cannot be started;   *)
(* exit: one ends by itself; late: a worker is not ready within the 60 s;   *)
(* register: the response fails; database: a call of the session documents  *)
(* fails and changes nothing; shutdown: the root context is cancelled, and  *)
(* the process then exits.                                                  *)
FaultKinds == {"drop", "start", "exit", "late", "register", "database", "shutdown"}

ASSUME WorkerPoolAssumption ==
    /\ Grown \cap External = {}
    /\ MaxLink \in [Grown \cup External -> Nat \ {0}]
    /\ Max \in Nat /\ Slots \in Nat \ {0}
    /\ Faults \subseteq FaultKinds

Worker == Grown \cup External
Link == UNION {1..MaxLink[w] : w \in Worker}

VARIABLES
    grow,      \* the Grow that started each worker: how far it is
    expired,   \* the context of that Grow is done: time, return, root
    instance,  \* the context of the instance is cancelled
    process,   \* the worker process: none, up, dead
    dialed,    \* the connections each worker has made
    linked,    \* the connection the worker holds, 0 for none
    serve,     \* the serve goroutine of each connection in the controller
    listed,    \* wm.connections: the connection under each id, 0 for none
    session,   \* the ids with a session document
    beaten,    \* those whose document was given a last_heartbeat
    root,      \* the root context is done
    gone       \* the controller process is gone: exit or panic

contexts == <<expired, instance, root>>
remote == <<process, dialed, linked>>
registry == <<serve, listed, session, beaten>>
vars == <<grow, contexts, remote, registry, gone>>

\* The worker id a connection registers under.
Id(w, l) == IF w \in External THEN <<w, l>> ELSE <<w, 0>>
Ids == {Id(w, l) : w \in Worker, l \in Link}

Init ==
    /\ grow = [w \in Grown |-> "idle"]
    /\ expired = [w \in Grown |-> FALSE]
    /\ instance = [w \in Grown |-> FALSE]
    /\ process = [w \in Worker |-> IF w \in External THEN "up" ELSE "none"]
    /\ dialed = [w \in Worker |-> 0]
    /\ linked = [w \in Worker |-> 0]
    /\ serve = [w \in Worker |-> [l \in Link |-> "none"]]
    /\ listed = [k \in Ids |-> 0]
    /\ session = {} /\ beaten = {}
    /\ root = FALSE /\ gone = FALSE

Growing == {w \in Grown : grow[w] \in {"waiting", "assigning"}}

\* Delete of a session document; its error is dropped everywhere.
Delete(k) ==
    \/ session' = session \ {k}
    \/ "database" \in Faults /\ UNCHANGED session

-----------------------------------------------------------------------------
(* Grow, called by a bucket worker without a suitable connection.          *)

\* CurrentWorkers is never counted up, so the latency does not matter either.
CurrentWorkers == 0
IsGrowable == CurrentWorkers < Max

\* The session document is inserted and the process started.
Grow(w) ==
    /\ ~gone /\ ~root
    /\ grow[w] = "idle" /\ IsGrowable /\ Cardinality(Growing) < Slots
    /\ grow' = [grow EXCEPT ![w] = "waiting"]
    /\ session' = session \cup {Id(w, 0)}
    /\ process' = [process EXCEPT ![w] = "up"]
    /\ UNCHANGED <<contexts, dialed, linked, serve, listed, beaten, gone>>

\* The session cannot be inserted, or the process not be started: then the
\* session is deleted again. The closure returns and cancels its context.
GrowFails(w) ==
    /\ ~gone /\ ~root
    /\ grow[w] = "idle" /\ IsGrowable /\ Cardinality(Growing) < Slots
    /\ grow' = [grow EXCEPT ![w] = "failed"]
    /\ expired' = [expired EXCEPT ![w] = TRUE]
    /\ \/ "database" \in Faults /\ UNCHANGED <<instance, session>>
       \/ /\ "start" \in Faults
          /\ instance' = [instance EXCEPT ![w] = TRUE]
          /\ \/ UNCHANGED session
             \/ "database" \in Faults /\ session' = session \cup {Id(w, 0)}
    /\ UNCHANGED <<root, remote, serve, listed, beaten, gone>>

\* WaitForWorkerReady finds the id in the map.
WaitForWorkerReady(w) ==
    /\ ~gone
    /\ grow[w] = "waiting" /\ listed[Id(w, 0)] # 0
    /\ grow' = [grow EXCEPT ![w] = "assigning"]
    /\ UNCHANGED <<contexts, remote, registry, gone>>

\* The 60 s are over.
Expire(w) ==
    /\ ~gone /\ "late" \in Faults
    /\ w \in Growing /\ ~expired[w]
    /\ expired' = [expired EXCEPT ![w] = TRUE]
    /\ UNCHANGED <<grow, instance, root, remote, registry, gone>>

\* The goroutine behind startedCh: the context was done before Grow returned.
CancelInstance(w) ==
    /\ ~gone
    /\ process[w] # "none" /\ expired[w] /\ ~instance[w]
    /\ instance' = [instance EXCEPT ![w] = TRUE]
    /\ UNCHANGED <<grow, expired, root, remote, registry, gone>>

\* Mutant of WaitFails: the instance is watched, the time is not.
WaitFailsOnExit(w) ==
    /\ ~gone
    /\ grow[w] = "waiting" /\ instance[w]
    /\ grow' = [grow EXCEPT ![w] = "failed"]
    /\ IF expired[w] THEN UNCHANGED session ELSE Delete(Id(w, 0))
    /\ expired' = [expired EXCEPT ![w] = TRUE]
    /\ UNCHANGED <<instance, root, remote, serve, listed, beaten, gone>>

\* The merged context is done. The session is deleted with the context of Grow,
\* which does nothing when it is that one which ended.
WaitFails(w) ==
    /\ ~gone
    /\ grow[w] = "waiting" /\ (expired[w] \/ instance[w])
    /\ grow' = [grow EXCEPT ![w] = "failed"]
    /\ IF expired[w] THEN UNCHANGED session ELSE Delete(Id(w, 0))
    /\ expired' = [expired EXCEPT ![w] = TRUE]
    /\ UNCHANGED <<instance, root, remote, serve, listed, beaten, gone>>

\* assignTaskToWorker, and the return from the closure that cancels the context.
Assign(w) ==
    /\ ~gone
    /\ grow[w] = "assigning"
    /\ \A l \in Link : serve[w][l] # "published"
    /\ grow' = [grow EXCEPT ![w] = "done"]
    /\ expired' = [expired EXCEPT ![w] = TRUE]
    /\ UNCHANGED <<instance, root, remote, registry, gone>>

\* The connection was found in the map before its session was stored.
AssignPanics(w) ==
    /\ ~gone
    /\ grow[w] = "assigning"
    /\ \E l \in Link : serve[w][l] = "published"
    /\ gone' = TRUE
    /\ UNCHANGED <<grow, contexts, remote, registry>>

-----------------------------------------------------------------------------
(* The worker process.                                                     *)

Die(w) == /\ process' = [process EXCEPT ![w] = "dead"]
          /\ linked' = [linked EXCEPT ![w] = 0]

\* exec.CommandContext kills the process when its context is done.
Kill(w) ==
    /\ ~gone
    /\ process[w] = "up" /\ expired[w]
    /\ Die(w)
    /\ UNCHANGED <<grow, contexts, dialed, registry, gone>>

\* instance.Shutdown, after a failure or when the root context is done: a worker
\* obeys the interrupt, or is killed if the instance is not cancelled yet.
ShutdownObeyed(w) ==
    /\ ~gone
    /\ process[w] = "up" /\ (grow[w] = "failed" \/ (root /\ ~instance[w]))
    /\ Die(w)
    /\ UNCHANGED <<grow, contexts, dialed, registry, gone>>

\* Wait returns: the instance is cancelled.
ProcessWaited(w) ==
    /\ ~gone
    /\ process[w] = "dead" /\ ~instance[w]
    /\ instance' = [instance EXCEPT ![w] = TRUE]
    /\ UNCHANGED <<grow, expired, root, remote, registry, gone>>

ProcessExits(w) ==
    /\ "exit" \in Faults /\ process[w] = "up"
    /\ Die(w)
    /\ UNCHANGED <<grow, contexts, dialed, registry, gone>>

\* Mutant of Dial: the worker holds on to the connection it lost.
DialStaysLinked(w) ==
    /\ process[w] = "up" /\ linked[w] = 0 /\ dialed[w] < MaxLink[w] /\ ~gone
    /\ dialed' = [dialed EXCEPT ![w] = @ + 1]
    /\ linked' = [linked EXCEPT ![w] = dialed[w]]
    /\ serve' = [serve EXCEPT ![w][dialed[w] + 1] = "dialing"]
    /\ UNCHANGED <<grow, contexts, process, listed, session, beaten, gone>>

\* _connection_manager: the next connection, under the id in the environment.
Dial(w) ==
    /\ process[w] = "up" /\ linked[w] = 0 /\ dialed[w] < MaxLink[w] /\ ~gone
    /\ dialed' = [dialed EXCEPT ![w] = @ + 1]
    /\ linked' = [linked EXCEPT ![w] = dialed[w] + 1]
    /\ serve' = [serve EXCEPT ![w][dialed[w] + 1] = "dialing"]
    /\ UNCHANGED <<grow, contexts, process, listed, session, beaten, gone>>

\* The socket was closed by the controller.
Ended == {"refused", "failed", "leaked", "closed"}

\* The worker sees its connection fail; the controller may not, for a while.
Drop(w) ==
    /\ linked[w] # 0
    /\ "drop" \in Faults \/ serve[w][linked[w]] \in Ended
    /\ linked' = [linked EXCEPT ![w] = 0]
    /\ UNCHANGED <<grow, contexts, process, dialed, registry, gone>>

-----------------------------------------------------------------------------
(* A connection in the controller.                                         *)

Step(w, l, s) == serve' = [serve EXCEPT ![w][l] = s]

\* HandleRegister: without an id, a session document is inserted under a new
\* one; with an id, its document has to be there.
RegisterCheck(w, l) ==
    /\ ~gone
    /\ serve[w][l] = "dialing"
    /\ \/ "database" \in Faults /\ Step(w, l, "failed") /\ UNCHANGED <<session, beaten>>
       \/ /\ w \in External /\ Step(w, l, "checked")
          /\ session' = session \cup {Id(w, l)} /\ beaten' = beaten \cup {Id(w, l)}
       \/ /\ w \in Grown
          /\ Step(w, l, IF Id(w, l) \in session THEN "found" ELSE "refused")
          /\ UNCHANGED <<session, beaten>>
    /\ UNCHANGED <<grow, contexts, remote, listed, gone>>

\* Mutant of RegisterUpdate: the document is written back if it is gone.
RegisterUpsert(w, l) ==
    /\ ~gone
    /\ serve[w][l] = "found"
    /\ Step(w, l, "checked") /\ beaten' = beaten \cup {Id(w, l)}
    /\ session' = session \cup {Id(w, l)}
    /\ UNCHANGED <<grow, contexts, remote, listed, gone>>

\* The document found is replaced, with a heartbeat; if it is gone by now,
\* nothing is, and no error either.
RegisterUpdate(w, l) ==
    /\ ~gone
    /\ serve[w][l] = "found"
    /\ \/ "database" \in Faults /\ Step(w, l, "failed") /\ UNCHANGED beaten
       \/ Step(w, l, "checked") /\ beaten' = beaten \cup (session \cap {Id(w, l)})
    /\ UNCHANGED <<grow, contexts, remote, listed, session, gone>>

\* Mutant of RegisterPublish: only known ids get an entry.
RegisterPublishKnown(w, l) ==
    /\ ~gone
    /\ serve[w][l] = "checked"
    /\ listed' = IF w \in Grown THEN [listed EXCEPT ![Id(w, l)] = l] ELSE listed
    /\ Step(w, l, "published")
    /\ UNCHANGED <<grow, contexts, remote, session, beaten, gone>>

\* The rest of it: the map, whatever it holds for the id.
RegisterPublish(w, l) ==
    /\ ~gone
    /\ serve[w][l] = "checked"
    /\ listed' = [listed EXCEPT ![Id(w, l)] = l]
    /\ Step(w, l, "published")
    /\ UNCHANGED <<grow, contexts, remote, session, beaten, gone>>

\* The connection gets its session and answers, or fails to and stays listed.
Registered(w, l) ==
    /\ ~gone
    /\ serve[w][l] = "published"
    /\ \/ Step(w, l, "serving")
       \/ ("register" \in Faults \/ linked[w] # l) /\ Step(w, l, "leaked")
    /\ UNCHANGED <<grow, contexts, remote, listed, session, beaten, gone>>

\* serve has come to its end: the socket failed, or the root context is done.
ServeEnded(w, l) == serve[w][l] = "serving" /\ (linked[w] # l \/ root)

\* Mutant of RemoveConnection: the entry of the id is forgotten.
RemoveNothing(w, l) ==
    /\ ~gone
    /\ ServeEnded(w, l)
    /\ Step(w, l, "removed")
    /\ UNCHANGED <<grow, contexts, remote, listed, session, beaten, gone>>

\* What the map holds for the id goes, this connection or not.
RemoveConnection(w, l) ==
    /\ ~gone
    /\ ServeEnded(w, l)
    /\ listed' = [listed EXCEPT ![Id(w, l)] = 0]
    /\ Step(w, l, "removed")
    /\ UNCHANGED <<grow, contexts, remote, session, beaten, gone>>

\* Then the session document of the id goes, and the socket.
DeleteSession(w, l) ==
    /\ ~gone
    /\ serve[w][l] = "removed"
    /\ Delete(Id(w, l))
    /\ Step(w, l, "closed")
    /\ UNCHANGED <<grow, contexts, remote, listed, beaten, gone>>

\* Mutant of SessionExpires: the index is on connected_at.
SessionExpiresByAge(w, l) ==
    /\ Id(w, l) \in session \cap beaten
    /\ session' = session \ {Id(w, l)}
    /\ UNCHANGED <<grow, contexts, remote, serve, listed, beaten, gone>>

\* The index on last_heartbeat removes what had none for three minutes.
SessionExpires(w, l) ==
    /\ Id(w, l) \in session \cap beaten
    /\ \A m \in Link : Id(w, m) = Id(w, l) =>
          serve[w][m] \notin {"checked", "published", "serving"}
    /\ session' = session \ {Id(w, l)}
    /\ UNCHANGED <<grow, contexts, remote, serve, listed, beaten, gone>>

-----------------------------------------------------------------------------
\* The root context ends every other one; then the process may exit.
RootDone ==
    /\ "shutdown" \in Faults /\ ~root /\ ~gone
    /\ root' = TRUE
    /\ expired' = [w \in Grown |-> expired[w] \/ w \in Growing]
    /\ UNCHANGED <<grow, instance, remote, registry, gone>>

Exit ==
    /\ root /\ ~gone
    /\ gone' = TRUE
    /\ UNCHANGED <<grow, contexts, remote, registry>>

GrowSteps(w) ==
    \/ WaitForWorkerReady(w) \/ WaitFails(w) \/ Assign(w) \/ AssignPanics(w)

Keeper(w) ==
    \/ CancelInstance(w) \/ Kill(w) \/ ShutdownObeyed(w) \/ ProcessWaited(w)

Connection(w, l) ==
    \/ RegisterCheck(w, l) \/ RegisterUpdate(w, l) \/ RegisterPublish(w, l)
    \/ Registered(w, l) \/ RemoveConnection(w, l) \/ DeleteSession(w, l)

Next ==
    \/ \E w \in Grown : Grow(w) \/ GrowFails(w) \/ Expire(w) \/ GrowSteps(w) \/ Keeper(w)
    \/ \E w \in Worker :
          \/ ProcessExits(w) \/ Dial(w) \/ Drop(w)
          \/ \E l \in Link : Connection(w, l) \/ SessionExpires(w, l)
    \/ RootDone \/ Exit

Spec == Init /\ [][Next]_vars

\* The goroutine of each Grow takes its steps, and its timer runs out.
FairSpec ==
    /\ Spec
    /\ \A w \in Grown : WF_vars(GrowSteps(w)) /\ WF_vars(Expire(w))

-----------------------------------------------------------------------------
\* A worker, its process, its connections and the Grow that made it are each at
\* a step of their code.
TypeOK ==
    /\ grow \in [Grown -> {"idle", "waiting", "assigning", "done", "failed"}]
    /\ expired \in [Grown -> BOOLEAN] /\ instance \in [Grown -> BOOLEAN]
    /\ process \in [Worker -> {"none", "up", "dead"}]
    /\ dialed \in [Worker -> {0} \cup Link] /\ linked \in [Worker -> {0} \cup Link]
    /\ serve \in [Worker -> [Link -> Ended \cup {"none", "dialing", "found", "checked",
                                               "published", "serving", "removed"}]]
    /\ listed \in [Ids -> {0} \cup Link]
    /\ session \subseteq Ids /\ beaten \subseteq Ids
    /\ root \in BOOLEAN /\ gone \in BOOLEAN
    /\ \A w \in Worker : linked[w] # 0 => (process[w] = "up" /\ linked[w] = dialed[w])

\* A worker the controller serves and does not list gets no tasks. That is only
\* ever a provisioned one that came back under its id while its former
\* connection was still there: the end of that one took the new one's entry.
HiddenBlamesFormerLink ==
    \A w \in Worker, l \in Link :
        serve[w][l] = "serving" /\ listed[Id(w, l)] # l =>
            w \in Grown /\ \E m \in Link \ {l} : serve[w][m] # "none"

\* What is listed is a connection that registered, and one that ended is listed
\* only if its registration response failed.
ListedIsServed ==
    \A w \in Worker, l \in Link :
        listed[Id(w, l)] = l => serve[w][l] \in {"published", "serving", "leaked"}

\* GET /workers answers from the session documents.
handleListWorkers == session

\* Why the document of a provisioned worker may be missing while connection l
\* needs it: its Grow failed, or another connection is over, at whose end the
\* document was deleted by the id, or after which it had no heartbeats.
Blamed(w, l) ==
    /\ w \in Grown
    /\ \/ grow[w] = "failed"
       \/ \E m \in Link \ {l} : serve[w][m] \in {"removed", "leaked", "closed"}

\* Who is connected is reported, and who has been started may register: but for
\* a Grow that gave up and for the end of another connection of that worker.
ConnectedIsReported ==
    \A w \in Worker, l \in Link :
        \/ serve[w][l] = "serving" /\ Id(w, l) \notin handleListWorkers
        \/ serve[w][l] = "refused"
        => Blamed(w, l)

\* The Grow or the registration that makes the document of an id was there.
Made(w, l) == IF w \in Grown THEN grow[w] # "idle" ELSE serve[w][l] \notin {"none", "dialing"}

\* A session document that was deleted (by a Grow that gave up, at the end of a
\* connection, by the index) stays deleted: a registration that had read it and
\* writes it afterwards does not bring it back, and no other one makes its id.
DeletedStaysDeleted ==
    [][\A w \in Worker, l \in Link :
          Made(w, l) /\ Id(w, l) \notin session => Id(w, l) \notin session']_vars

\* The bucket worker comes back from every Grow, ready or not.
GrowReturns == \A w \in Grown : w \in Growing ~> (w \notin Growing \/ gone)

\* "startup timeout" (command.go): the context Grow starts the process with is
\* there for a start that takes too long; a worker that is ready keeps running.
ReadyWorkerSurvives ==
    [][\A w \in Grown : grow[w] = "done" /\ process[w] = "up" => process'[w] = "up"]_vars
=============================================================================
