----------------------------- MODULE TaskRecovery -----------------------------
(***************************************************************************)
(* Task documents across restarts of the controller, and the writers that  *)
(* replace them without looking: the dispatcher, the webhook goroutine,    *)
(* progress messages, the cancel handler, and at startup cleanupGarbage    *)
(* and assignPendingTasks (go/pkg/controller/worker/manager.go,            *)
(* handlers.go, internal/controller/mongodbrepo/repositories.go).          *)
(*                                                                         *)
(* A document is read into an object of its own each time, so one task may *)
(* have several objects in memory, told apart by who made them. What the   *)
(* dispatcher does with one object is detailed in WorkerManager; here an   *)
(* assignment is one step and workers are never short.                     *)
(***************************************************************************)
EXTENDS Naturals, FiniteSets

CONSTANTS
    Task,          \* task ids
    MaxRetry,      \* the retry budget of each task
    WebhookTasks,  \* the tasks that have a webhook URL
    MaxMishaps,    \* bound: crashes, database errors and lost webhooks in all
    Faults         \* of crash, db, webhook and late (progress after the report)

ASSUME TaskRecoveryAssumption ==
    /\ MaxRetry \in [Task -> Nat]
    /\ WebhookTasks \subseteq Task
    /\ MaxMishaps \in Nat
    /\ Faults \subseteq {"crash", "db", "webhook", "late"}

VARIABLES
    doc,        \* the task documents
    phase,      \* of the controller process: down, cleanup, serving
    toClean,    \* what the cursor of cleanupGarbage has still to visit
    toList,     \* what the cursor of assignPendingTasks has still to visit
    obj,        \* the objects in memory, by task and maker
    cached,     \* processingTasks: the object GetTaskById answers with
    enqueuing,  \* objects on their way to EnqueueTask
    queued,     \* objects in the bucket queues
    running,    \* objects whose task is with a worker
    finishers,  \* taskFinish goroutines that have not set the status yet
    posting,    \* taskFinish goroutines that have, and post the webhook
    cancelling, \* what each cancel handler has read and not written back
    mishaps,    \* how many of MaxMishaps happened
    erred       \* the database failed at least once

goroutines == <<enqueuing, queued, running, finishers, posting, cancelling>>
memory == <<obj, cached, goroutines>>
startup == <<phase, toClean, toList>>
vars == <<doc, startup, memory, mishaps, erred>>

-----------------------------------------------------------------------------
\* CreateTask, assignPendingTasks and cleanupGarbage each make an object.
Maker == {"api", "list", "clean"}
Ref == Task \X Maker

\* error code and result together: nil, a result, an error of the handler, and
\* the two that say CANCELLED.
Outcome == {"none", "ok", "failed", "restarted", "cancelled"}

Object == [status : {"pending", "processing", "completed", "finished"},
           retried : Nat, outcome : Outcome]

Absent == [status |-> "absent"]

NewTask == [status |-> "pending", retried |-> 0, outcome |-> "none"]

\* Mutant of Settled: one retry too many.
SettledOneMore(t, o) ==
    IF o.outcome # "ok" /\ o.retried <= MaxRetry[t]
    THEN [o EXCEPT !.status = "pending", !.retried = @ + 1]
    ELSE [o EXCEPT !.status = IF t \in WebhookTasks THEN "completed" ELSE "finished"]

\* taskComplete: retry within the budget, or done with or without a webhook.
Settled(t, o) ==
    IF o.outcome # "ok" /\ o.retried < MaxRetry[t]
    THEN [o EXCEPT !.status = "pending", !.retried = @ + 1]
    ELSE [o EXCEPT !.status = IF t \in WebhookTasks THEN "completed" ELSE "finished"]

Set(t, k, o) == obj' = [obj EXCEPT ![t][k] = o]

\* TaskRepository.Update: the whole document is replaced.
Update(t, o) == doc' = [doc EXCEPT ![t] = o]

Mishap(kind) ==
    /\ kind \in Faults
    /\ mishaps < MaxMishaps
    /\ mishaps' = mishaps + 1
    /\ erred' = (erred \/ kind = "db")

Calm == UNCHANGED <<mishaps, erred>>

NoObjects == [t \in Task |-> [k \in Maker |-> Absent]]

Init ==
    /\ doc = [t \in Task |-> Absent]
    /\ phase = "down"
    /\ toClean = {} /\ toList = {}
    /\ obj = NoObjects /\ cached = [t \in Task |-> "none"]
    /\ enqueuing = {} /\ queued = {} /\ running = {}
    /\ finishers = {} /\ posting = {}
    /\ cancelling = [t \in Task |-> Absent]
    /\ mishaps = 0
    /\ erred = FALSE

-----------------------------------------------------------------------------
(* Start and crash.                                                        *)

Start ==
    /\ phase = "down"
    /\ phase' = "cleanup"
    /\ toClean' = Task
    /\ UNCHANGED <<doc, toList, memory>> /\ Calm

\* Mutant of CleanTask: the filter has no upper bound.
CleanEveryTask(t) ==
    /\ phase = "cleanup" /\ t \in toClean
    /\ toClean' = toClean \ {t}
    /\ IF doc[t] # Absent /\ doc[t].status # "pending"
       THEN LET o == Settled(t, [doc[t] EXCEPT !.outcome = "restarted"])
            IN /\ Set(t, "clean", o) /\ Update(t, o)
               /\ finishers' = IF o.status = "finished" THEN finishers
                                                         ELSE finishers \cup {<<t, "clean">>}
       ELSE UNCHANGED <<doc, obj, finishers>>
    /\ UNCHANGED <<phase, toList, cached, enqueuing, queued, running, posting,
                   cancelling>> /\ Calm

\* Mutant of CleanTask: the interrupted tasks are left as they are.
CleanNothing(t) ==
    /\ phase = "cleanup" /\ t \in toClean
    /\ toClean' = toClean \ {t}
    /\ UNCHANGED <<doc, phase, toList, memory>> /\ Calm

\* cleanupGarbage settles what was processing with an error. The queues are not
\* consumed yet, so a task to retry goes to asyncTaskFinish like one that has
\* a webhook.
CleanTask(t) ==
    /\ phase = "cleanup" /\ t \in toClean
    /\ toClean' = toClean \ {t}
    /\ IF doc[t].status = "processing"
       THEN LET o == Settled(t, [doc[t] EXCEPT !.outcome = "restarted"])
            IN /\ Set(t, "clean", o) /\ Update(t, o)
               /\ finishers' = IF o.status = "finished" THEN finishers
                                                         ELSE finishers \cup {<<t, "clean">>}
       ELSE UNCHANGED <<doc, obj, finishers>>
    /\ UNCHANGED <<phase, toList, cached, enqueuing, queued, running, posting,
                   cancelling>> /\ Calm

\* Mutant of Serve: the pending tasks are not listed.
ServeNewOnly ==
    /\ phase = "cleanup" /\ toClean = {}
    /\ phase' = "serving"
    /\ UNCHANGED <<doc, toClean, toList, memory>> /\ Calm

\* queueConsuming is set, assignPendingTasks starts, the API opens.
Serve ==
    /\ phase = "cleanup" /\ toClean = {}
    /\ phase' = "serving" /\ toList' = Task
    /\ UNCHANGED <<doc, toClean, memory>> /\ Calm

\* Listing the sessions or the tasks fails: cleanupGarbage returns.
CleanupFails ==
    /\ phase = "cleanup" /\ Mishap("db")
    /\ phase' = "serving" /\ toList' = Task /\ toClean' = {}
    /\ UNCHANGED <<doc, memory>>

\* Mutant of ListPending: StatusGte without StatusLt.
ListUnbounded(t) ==
    /\ phase = "serving" /\ t \in toList
    /\ toList' = toList \ {t}
    /\ IF doc[t] # Absent
       THEN Set(t, "list", doc[t]) /\ enqueuing' = enqueuing \cup {<<t, "list">>}
       ELSE UNCHANGED <<obj, enqueuing>>
    /\ UNCHANGED <<doc, phase, toClean, cached, queued, running, finishers, posting,
                   cancelling>> /\ Calm

\* The cursor of assignPendingTasks reaches t, which the API may just have made.
ListPending(t) ==
    /\ phase = "serving" /\ t \in toList
    /\ toList' = toList \ {t}
    /\ IF doc[t].status = "pending"
       THEN Set(t, "list", doc[t]) /\ enqueuing' = enqueuing \cup {<<t, "list">>}
       ELSE UNCHANGED <<obj, enqueuing>>
    /\ UNCHANGED <<doc, phase, toClean, cached, queued, running, finishers, posting,
                   cancelling>> /\ Calm

ListFails ==
    /\ phase = "serving" /\ toList # {} /\ Mishap("db")
    /\ toList' = {}
    /\ UNCHANGED <<doc, phase, toClean, memory>>

Crash ==
    /\ phase # "down" /\ Mishap("crash")
    /\ phase' = "down" /\ toClean' = {} /\ toList' = {}
    /\ obj' = NoObjects /\ cached' = [t \in Task |-> "none"]
    /\ enqueuing' = {} /\ queued' = {} /\ running' = {}
    /\ finishers' = {} /\ posting' = {}
    /\ cancelling' = [t \in Task |-> Absent]
    /\ UNCHANGED doc

-----------------------------------------------------------------------------
(* The API.                                                                *)

CreateTask(t) ==
    /\ phase = "serving" /\ doc[t] = Absent
    /\ Update(t, NewTask) /\ Set(t, "api", NewTask)
    /\ enqueuing' = enqueuing \cup {<<t, "api">>}
    /\ UNCHANGED <<startup, cached, queued, running, finishers, posting, cancelling>>
    /\ Calm

\* handleDeleteTask reads the document, not the dispatcher's object.
CancelRead(t) ==
    /\ phase = "serving" /\ cancelling[t] = Absent
    /\ doc[t].status \in {"pending", "processing"}
    /\ cancelling' = [cancelling EXCEPT ![t] = doc[t]]
    /\ UNCHANGED <<doc, startup, obj, cached, enqueuing, queued, running, finishers,
                   posting>> /\ Calm

CancelWrite(t) ==
    /\ cancelling[t] # Absent
    /\ \/ /\ Calm
          /\ Update(t, [cancelling[t] EXCEPT !.status = "finished",
                                             !.outcome = "cancelled"])
       \/ Mishap("db") /\ UNCHANGED doc
    /\ cancelling' = [cancelling EXCEPT ![t] = Absent]
    /\ UNCHANGED <<startup, obj, cached, enqueuing, queued, running, finishers, posting>>

-----------------------------------------------------------------------------
(* The dispatcher, one object of task t made by k.                         *)

EnqueueTask(t, k) ==
    /\ <<t, k>> \in enqueuing
    /\ enqueuing' = enqueuing \ {<<t, k>>}
    /\ queued' = queued \cup {<<t, k>>}
    /\ UNCHANGED <<doc, startup, obj, cached, running, finishers, posting, cancelling>>
    /\ Calm

\* sendTaskAssignment. If UpdateTask fails the object says processing, is in
\* processingTasks, and goes back to the queue.
Assign(t, k) ==
    /\ phase = "serving" /\ <<t, k>> \in queued
    /\ LET o == [obj[t][k] EXCEPT !.status = "processing"]
       IN /\ Set(t, k, o)
          /\ \/ /\ Update(t, o) /\ Calm
                /\ queued' = queued \ {<<t, k>>}
                /\ running' = running \cup {<<t, k>>}
             \/ Mishap("db") /\ UNCHANGED <<doc, queued, running>>
    /\ cached' = [cached EXCEPT ![t] = k]
    /\ UNCHANGED <<startup, enqueuing, finishers, posting, cancelling>>

\* handleTaskProgress writes the cached object back. Each object has a worker of
\* its own, so that the worker owns the task means that its object is cached.
Progress(t, k) ==
    /\ cached[t] = k
    /\ <<t, k>> \in running \/ "late" \in Faults
    /\ Update(t, obj[t][k])
    /\ UNCHANGED <<startup, memory>> /\ Calm

\* handleTaskComplete, handleTaskFailed. A report for another object than the
\* cached one is refused. That the Update of taskComplete fails goes unnoticed.
Report(t, k, outcome) ==
    /\ <<t, k>> \in running
    /\ running' = running \ {<<t, k>>}
    /\ IF cached[t] = k
       THEN LET o == Settled(t, [obj[t][k] EXCEPT !.outcome = outcome])
            IN /\ Set(t, k, o)
               /\ \/ Update(t, o) /\ Calm
                  \/ UNCHANGED doc /\ Mishap("db")
               /\ queued' = IF o.status = "pending" THEN queued \cup {<<t, k>>} ELSE queued
               /\ finishers' = IF o.status = "completed" THEN finishers \cup {<<t, k>>}
                                                         ELSE finishers
       ELSE UNCHANGED <<doc, obj, queued, finishers>> /\ Calm
    /\ UNCHANGED <<startup, cached, enqueuing, posting, cancelling>>

TaskFinish(t, k) ==
    /\ <<t, k>> \in finishers
    /\ finishers' = finishers \ {<<t, k>>}
    /\ posting' = posting \cup {<<t, k>>}
    /\ Set(t, k, [obj[t][k] EXCEPT !.status = "finished"])
    /\ UNCHANGED <<doc, startup, cached, enqueuing, queued, running, cancelling>> /\ Calm

TaskFinished(t, k) ==
    /\ <<t, k>> \in posting
    /\ posting' = posting \ {<<t, k>>}
    /\ Update(t, obj[t][k])
    /\ UNCHANGED <<startup, obj, cached, enqueuing, queued, running, finishers, cancelling>>
    /\ Calm

\* The webhook or the Update fails: to the queue with the finished object.
TaskFinishFails(t, k) ==
    /\ <<t, k>> \in posting
    /\ \/ t \in WebhookTasks /\ Mishap("webhook")
       \/ Mishap("db")
    /\ posting' = posting \ {<<t, k>>}
    /\ enqueuing' = enqueuing \cup {<<t, k>>}
    /\ UNCHANGED <<doc, startup, obj, cached, queued, running, finishers, cancelling>>

-----------------------------------------------------------------------------
Startup == Start \/ (\E t \in Task : CleanTask(t) \/ ListPending(t)) \/ Serve

Goroutine(t, k) ==
    \/ EnqueueTask(t, k) \/ Assign(t, k)
    \/ \E outcome \in {"ok", "failed"} : Report(t, k, outcome)
    \/ TaskFinish(t, k) \/ TaskFinished(t, k) \/ TaskFinishFails(t, k)

Next ==
    \/ Startup \/ CleanupFails \/ ListFails \/ Crash
    \/ \E t \in Task : CreateTask(t) \/ CancelRead(t) \/ CancelWrite(t)
    \/ \E t \in Task, k \in Maker : Goroutine(t, k) \/ Progress(t, k)

Spec == Init /\ [][Next]_vars

\* The process is started again when it is gone, its goroutines take their steps
\* and workers report.
FairSpec ==
    /\ Spec
    /\ WF_vars(Startup)
    /\ \A t \in Task : WF_vars(CancelWrite(t))
    /\ \A t \in Task, k \in Maker : WF_vars(Goroutine(t, k))

-----------------------------------------------------------------------------
\* Types, and that no document or object goes beyond its retry budget, over
\* any number of restarts.
TypeOK ==
    /\ phase \in {"down", "cleanup", "serving"}
    /\ toClean \subseteq Task /\ toList \subseteq Task
    /\ \A t \in Task :
          \A o \in {doc[t], cancelling[t]} \cup {obj[t][k] : k \in Maker} :
             \/ o = Absent
             \/ o \in Object /\ o.retried <= MaxRetry[t]
    /\ cached \in [Task -> Maker \cup {"none"}]
    /\ \A s \in {enqueuing, queued, running, finishers, posting} : s \subseteq Ref
    /\ mishaps \in 0..MaxMishaps
    /\ erred \in BOOLEAN

\* The objects of t some goroutine, queue or worker still acts on.
Live(t) == {k \in Maker : <<t, k>> \in
              enqueuing \cup queued \cup running \cup finishers \cup posting}

\* Once the startup has been over the documents, one that says pending or
\* processing is in somebody's hands, unless the database failed: crashes,
\* cancels and the races of the startup never strand a task for good.
UnfinishedIsHeld ==
    \A t \in Task :
        /\ phase = "serving" /\ t \notin toList /\ ~erred
        /\ doc[t].status \in {"pending", "processing"}
        => Live(t) # {}

\* What is finished when the process is gone stays as it is: no restart runs a
\* finished or cancelled task once more or settles it again.
FinishedSurvivesRestart ==
    \A t \in Task, outcome \in Outcome :
        LET Done == doc[t].status = "finished" /\ doc[t].outcome = outcome
        IN [](phase = "down" /\ Done => []Done)

\* A stored result is only replaced by a cancel that read the document before,
\* because the startup made a second object of the task, or because a failed
\* webhook queued the task again.
ResultLossIsBlamed ==
    [][\A t \in Task :
         LET Result(d) == d.status \in {"completed", "finished"} /\ d.outcome = "ok"
         IN Result(doc[t]) /\ ~Result(doc[t])' =>
               \/ cancelling[t] # Absent
               \/ Cardinality({k \in Maker : obj[t][k] # Absent}) > 1
               \/ \E k \in Maker : <<t, k>> \in queued]_vars

\* In the end every task is finished, or its webhook is still owed (a restart
\* forgets it), unless the database failed.
EveryTaskSettles ==
    \A t \in Task :
        <>[](doc[t].status \in {"absent", "completed", "finished"} \/ erred)
=============================================================================
