---------------------------- MODULE PythonWorker ----------------------------
(***************************************************************************)
(* The worker process of the Python SDK (worker.py): one event loop that   *)
(* runs the connection manager, the message handler, one handler of a task *)
(* and one sender of its progress, with a switch at every await. A write   *)
(* to the socket happens before the await that follows it, so a send is    *)
(* one step.                                                               *)
(***************************************************************************)
EXTENDS Naturals, Sequences

CONSTANTS
    Assignment,   \* the TaskAssign messages the controller may send; a task that
                  \* failed and is retried comes again as another one of the same id
    NoTask,
    MaxProgress,  \* progress messages of one handler
    MaxLinks,     \* a bound of the model: connections that are opened
    MaxReconnect, \* max_reconnect_attempts
    Faults        \* what may happen: "drop", "raise", "encode", "unpack", "stop"

ASSUME WorkerAssumption ==
    /\ NoTask \notin Assignment
    /\ MaxProgress \in Nat /\ MaxLinks \in Nat /\ MaxReconnect \in Nat
    /\ Faults \subseteq {"drop", "raise", "encode", "unpack", "stop"}

VARIABLES
    link,      \* the websocket: "broken" is an end the loop has not seen yet
    links,     \* connections opened so far
    attempts,  \* reconnect_count
    wire,      \* what was written to the websocket at hand
    idleTime,  \* the controller has set max_idle_time
    current,   \* current_task
    step,      \* where each assignment is in _process_task
    queue,     \* the progress messages that wait in its progress_queue
    made,      \* the progress messages the handler has made
    manager    \* _connection_manager and run: "ended" has no more connections

conn == <<link, links, attempts, wire, idleTime>>
work == <<current, step, queue, made>>
vars == <<conn, work, manager>>

\* A message about a task carries the id of the task; "of" is the assignment it
\* was made for.
Message ==
    [type : {"register", "heartbeat"}]
        \cup [type : {"progress", "complete", "failed"}, of : Assignment]

Step == {"none", "refused", "running", "joining", "raised", "reported", "released"}

\* A message is one of the worker's, and every assignment at one step of its
\* handler.
TypeOK ==
    /\ link \in {"closed", "open", "broken"}
    /\ links \in 0..MaxLinks /\ attempts \in 0..(MaxReconnect + 1)
    /\ wire \in Seq(Message)
    /\ idleTime \in BOOLEAN
    /\ current \in Assignment \cup {NoTask}
    /\ step \in [Assignment -> Step]
    /\ queue \in [Assignment -> 0..MaxProgress] /\ made \in [Assignment -> 0..MaxProgress]
    /\ manager \in {"running", "ended", "exited"}

Init ==
    /\ link = "closed" /\ links = 0 /\ attempts = 0 /\ wire = <<>> /\ idleTime = FALSE
    /\ current = NoTask
    /\ step = [t \in Assignment |-> "none"]
    /\ queue = [t \in Assignment |-> 0] /\ made = [t \in Assignment |-> 0]
    /\ manager = "running"

-----------------------------------------------------------------------------
(* The connection manager.                                                 *)

\* _send_message: what cannot be written is lost, and the callers only log it.
Send(msg) == wire' = IF link = "open" THEN Append(wire, msg) ELSE wire

\* Mutant of Connect: the registration waits for its turn in the loop.
ConnectLater ==
    /\ manager = "running" /\ link = "closed" /\ links < MaxLinks
    /\ link' = "open"
    /\ links' = links + 1
    /\ attempts' = 0
    /\ wire' = <<>>
    /\ UNCHANGED <<idleTime, work, manager>>

\* The registration is written before anything else runs.
Connect ==
    /\ manager = "running" /\ link = "closed" /\ links < MaxLinks
    /\ link' = "open"
    /\ links' = links + 1
    /\ attempts' = 0
    /\ wire' = <<[type |-> "register"]>>
    /\ UNCHANGED <<idleTime, work, manager>>

\* Mutant of Failed: the manager never gives up.
FailedForever ==
    /\ attempts' = attempts + 1
    /\ UNCHANGED manager

\* An exception counts against max_reconnect_attempts; then the manager returns
\* and run goes on without a connection.
Failed ==
    /\ attempts' = attempts + 1
    /\ manager' = IF attempts + 1 > MaxReconnect THEN "ended" ELSE manager

ConnectFails ==
    /\ "drop" \in Faults
    /\ manager = "running" /\ link = "closed"
    /\ Failed
    /\ UNCHANGED <<link, links, wire, idleTime, work>>

Heartbeat ==
    /\ link = "open"
    /\ [type |-> "heartbeat"] \notin {wire[i] : i \in DOMAIN wire}
    /\ Send([type |-> "heartbeat"])
    /\ UNCHANGED <<link, links, attempts, idleTime, work, manager>>

SocketEnds ==
    /\ "drop" \in Faults
    /\ link = "open"
    /\ link' = "broken"
    /\ UNCHANGED <<links, attempts, wire, idleTime, work, manager>>

\* The message handler ends: with a close frame it returns and the manager
\* connects at once, without one it raises.
Disconnect ==
    /\ link = "broken"
    /\ link' = "closed"
    /\ Failed \/ UNCHANGED <<attempts, manager>>
    /\ UNCHANGED <<links, wire, idleTime, work>>

\* stop cancels the connection; a handler that runs is not told.
Stop ==
    /\ "stop" \in Faults
    /\ manager = "running"
    /\ manager' = "ended"
    /\ link' = "closed"
    /\ UNCHANGED <<links, attempts, wire, idleTime, work>>

\* "0 < max_idle_time < idle_time and current_task is None": the process ends.
IdleExit ==
    /\ manager # "exited"
    /\ idleTime
    /\ current = NoTask
    /\ manager' = "exited"
    /\ link' = "closed"
    /\ UNCHANGED <<links, attempts, wire, idleTime, work>>

-----------------------------------------------------------------------------
(* The message handler.                                                    *)

Receiving == link = "open" /\ manager # "exited"

RegisterResponse ==
    /\ Receiving
    /\ ~idleTime
    /\ idleTime' = TRUE
    /\ UNCHANGED <<link, links, attempts, wire, work, manager>>

\* Only current_task is looked at: an assignment that comes while it is set is
\* dropped, and one of a task that was here before is taken like any other.
HandleTaskAssignment(a) ==
    /\ Receiving
    /\ current = NoTask
    /\ step[a] = "none"
    /\ current' = a
    /\ step' = [step EXCEPT ![a] = "running"]
    /\ UNCHANGED <<conn, queue, made, manager>>

\* An assignment that cannot be unpacked is reported as failed at once.
AssignmentFails(a) ==
    /\ "unpack" \in Faults
    /\ Receiving
    /\ current = NoTask
    /\ step[a] = "none"
    /\ step' = [step EXCEPT ![a] = "refused"]
    /\ Send([type |-> "failed", of |-> a])
    /\ UNCHANGED <<link, links, attempts, idleTime, current, queue, made, manager>>

-----------------------------------------------------------------------------
(* _process_task.                                                          *)

Alive == manager # "exited"

\* put_nowait.
SendProgress(a) ==
    /\ Alive
    /\ step[a] = "running"
    /\ made[a] < MaxProgress
    /\ made' = [made EXCEPT ![a] = @ + 1]
    /\ queue' = [queue EXCEPT ![a] = @ + 1]
    /\ UNCHANGED <<conn, current, step, manager>>

\* Mutant of ProgressWorker: a message that cannot be sent ends the worker.
ProgressWorkerRaises(a) ==
    /\ Alive
    /\ queue[a] > 0
    /\ link = "open"
    /\ queue' = [queue EXCEPT ![a] = @ - 1]
    /\ Send([type |-> "progress", of |-> a])
    /\ UNCHANGED <<link, links, attempts, idleTime, current, step, made, manager>>

\* progress_worker: task_done whether the message was sent or not, or did not
\* fit a protobuf struct. It runs beside _process_task, and after it when the
\* handler has raised, with a queue of its own for each assignment.
ProgressWorker(a) ==
    /\ Alive
    /\ queue[a] > 0
    /\ queue' = [queue EXCEPT ![a] = @ - 1]
    /\ \/ Send([type |-> "progress", of |-> a])
       \/ "encode" \in Faults /\ UNCHANGED wire
    /\ UNCHANGED <<link, links, attempts, idleTime, current, step, made, manager>>

HandlerReturns(a) ==
    /\ Alive
    /\ step[a] = "running"
    /\ step' = [step EXCEPT ![a] = "joining"]
    /\ UNCHANGED <<conn, current, queue, made, manager>>

HandlerRaises(a) ==
    /\ "raise" \in Faults
    /\ Alive
    /\ step[a] = "running"
    /\ step' = [step EXCEPT ![a] = "raised"]
    /\ UNCHANGED <<conn, current, queue, made, manager>>

\* Mutant of SendTaskComplete: no join before the report.
CompleteAtOnce(a) ==
    /\ Alive
    /\ step[a] = "joining"
    /\ step' = [step EXCEPT ![a] = "reported"]
    /\ Send([type |-> "complete", of |-> a])
    /\ UNCHANGED <<link, links, attempts, idleTime, current, queue, made, manager>>

\* After join. A result that does not fit a protobuf struct raises inside
\* _send_task_complete, which swallows it: nothing is reported.
SendTaskComplete(a) ==
    /\ Alive
    /\ step[a] = "joining"
    /\ queue[a] = 0
    /\ step' = [step EXCEPT ![a] = "reported"]
    /\ \/ Send([type |-> "complete", of |-> a])
       \/ "encode" \in Faults /\ UNCHANGED wire
    /\ UNCHANGED <<link, links, attempts, idleTime, current, queue, made, manager>>

\* Without join: progress that still waits is sent after the report. An error
\* text that protobuf refuses is swallowed like a result.
SendTaskFailed(a) ==
    /\ Alive
    /\ step[a] = "raised"
    /\ step' = [step EXCEPT ![a] = "reported"]
    /\ \/ Send([type |-> "failed", of |-> a])
       \/ "encode" \in Faults /\ UNCHANGED wire
    /\ UNCHANGED <<link, links, attempts, idleTime, current, queue, made, manager>>

\* "finally: self.current_task = None", once the report is through.
Release(a) ==
    /\ Alive
    /\ step[a] = "reported"
    /\ step' = [step EXCEPT ![a] = "released"]
    /\ current' = NoTask
    /\ UNCHANGED <<conn, queue, made, manager>>

-----------------------------------------------------------------------------
ConnectionManager == Connect \/ ConnectFails \/ Disconnect

\* What the event loop owes a task, on top of what its handler does.
EventLoop ==
    \E a \in Assignment :
        \/ ProgressWorker(a) \/ HandlerReturns(a)
        \/ SendTaskComplete(a) \/ SendTaskFailed(a) \/ Release(a)

Next ==
    \/ ConnectionManager \/ Heartbeat \/ SocketEnds \/ Stop \/ IdleExit \/ RegisterResponse
    \/ EventLoop
    \/ \E a \in Assignment :
          HandleTaskAssignment(a) \/ AssignmentFails(a) \/ SendProgress(a) \/ HandlerRaises(a)

Spec == Init /\ [][Next]_vars

FairSpec == Spec /\ WF_vars(EventLoop)

-----------------------------------------------------------------------------
\* Every connection starts with the registration, also when a task outlived the
\* connection before it, and nothing of an assignment follows its report, except
\* the progress of a handler that raised: join holds the result back. What
\* follows the failure report of a task is of the assignment that retries it, or
\* progress of the one that failed, which the two share an id with.
WireIsOrdered ==
    /\ wire # <<>> => wire[1].type = "register"
    /\ \A i, j \in DOMAIN wire :
           /\ wire[j].type # "register" \/ j = 1
           /\ i < j /\ wire[i].type \in {"complete", "failed"}
                    /\ wire[j].type \in {"progress", "complete", "failed"}
                    /\ wire[j].of = wire[i].of
                => wire[i].type = "failed" /\ wire[j].type = "progress"

\* An assignment is released in the end, with or without a connection: progress
\* that cannot be sent keeps nobody waiting.
WorkerReleasesTask == \A a \in Assignment : step[a] = "running" ~> (step[a] = "released")
=============================================================================
