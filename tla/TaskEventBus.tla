---------------------------- MODULE TaskEventBus ----------------------------
(***************************************************************************)
(* The event bus between the dispatcher and an HTTP client that waits for  *)
(* a task or streams its progress: go/pkg/controller/subscriber, with its  *)
(* users CreateTask, handleCreateTask, the OpenAI handlers, and            *)
(* handleTaskProgress and taskComplete of the worker manager.              *)
(*                                                                         *)
(* One task: the topics of different tasks share nothing but a lock. Its   *)
(* only listener is the client that created it. EmitProgress and Finish    *)
(* hold that lock; the goroutine of Progress reads the topic without it    *)
(* and waits on a condition variable whose Locker does nothing.            *)
(***************************************************************************)
EXTENDS Naturals, Sequences

CONSTANTS
    MaxRetry,    \* the retry budget of the task
    MaxProgress, \* bound: how many progress messages the task sends
    Faults       \* what may go wrong in this instance, see FaultKinds

(* leave: the client goes away, or the time it would wait is over;         *)
(* db:    the document of the task cannot be inserted.                     *)
FaultKinds == {"leave", "db"}

ASSUME TaskEventBusAssumption ==
    MaxRetry \in Nat /\ MaxProgress \in Nat /\ Faults \subseteq FaultKinds

VARIABLES
    kind,     \* what the client asks for: to wait, to stream, or nothing
    client,   \* how far the handler of the client got
    result,   \* the status of the task that was sent to a client that waited
    status,   \* the status in the task object, which everyone shares
    tries,    \* Retried
    settled,  \* taskComplete set the status and has not told the bus yet
    mapped,   \* the topic is in the map of the bus
    done,     \* topic.done; doneCh is closed with it
    progress, \* topic.progress
    growing,  \* append has set the new length and not yet stored the element
    stream,   \* the goroutine of Progress
    received, \* what the streaming client was sent
    crashed   \* a goroutine panicked: the controller process is gone

topic == <<mapped, done, progress, growing>>
task  == <<status, tries, settled>>
vars  == <<kind, client, result, task, topic, stream, received, crashed>>

-----------------------------------------------------------------------------
StreamStep == {"off", "check", "size", "send", "wait", "asleep", "closed"}

ClientStep == {"new", "listening", "submitted", "answered", "left", "failed"}

Status == {"new", "pending", "processing", "finished"}

\* The goroutine of Progress never reads past the slice, and the retries stay
\* within their budget.
TypeOK ==
    /\ kind \in {"wait", "stream", "none"}
    /\ client \in ClientStep
    /\ result \in Status
    /\ status \in Status
    /\ tries \in 0..MaxRetry
    /\ settled \in BOOLEAN /\ mapped \in BOOLEAN /\ done \in BOOLEAN
    /\ growing \in BOOLEAN /\ crashed \in BOOLEAN
    /\ progress \in Seq(Nat) /\ received \in Seq(Nat)
    /\ stream \in [pc : StreamStep, index : Nat, size : Nat]
    /\ stream.index <= stream.size /\ stream.size <= Len(progress)

Init ==
    /\ kind \in {"wait", "stream", "none"}
    /\ client = "new"
    /\ result = "new"
    /\ status = "new" /\ tries = 0 /\ settled = FALSE
    /\ mapped = FALSE /\ done = FALSE /\ progress = <<>> /\ growing = FALSE
    /\ stream = [pc |-> "off", index |-> 0, size |-> 0]
    /\ received = <<>>
    /\ crashed = FALSE

-----------------------------------------------------------------------------
(* The handler of the client.                                              *)

\* Mutant of Listener: the new topic is not put into the map.
ListenerUnmapped ==
    /\ client = "new"
    /\ kind # "none"
    /\ client' = "listening"
    /\ UNCHANGED <<kind, result, task, topic, stream, received, crashed>>

\* CreateTask asks for the listener first: getOrCreateTopic.
Listener ==
    /\ client = "new"
    /\ kind # "none"
    /\ client' = "listening"
    /\ mapped' = TRUE
    /\ UNCHANGED <<kind, result, task, done, progress, growing, stream, received,
                   crashed>>

\* Only then is the document inserted and the task enqueued.
Submit ==
    /\ client = IF kind = "none" THEN "new" ELSE "listening"
    /\ client' = "submitted"
    /\ status' = "pending"
    /\ stream' = IF kind = "stream" THEN [stream EXCEPT !.pc = "check"] ELSE stream
    /\ UNCHANGED <<kind, result, tries, settled, topic, received, crashed>>

\* The insert fails: CreateTask returns the error and leaves the topic behind.
SubmitFails ==
    /\ "db" \in Faults
    /\ client = IF kind = "none" THEN "new" ELSE "listening"
    /\ client' = "failed"
    /\ UNCHANGED <<kind, result, task, topic, stream, received, crashed>>

\* Wait returns the task object; the handler sends it as it is by then.
WaitReturns ==
    /\ kind = "wait"
    /\ client = "submitted"
    /\ done
    /\ client' = "answered"
    /\ result' = status
    /\ UNCHANGED <<kind, task, topic, stream, received, crashed>>

ClientLeaves ==
    /\ "leave" \in Faults
    /\ kind # "none"
    /\ client = "submitted"
    /\ client' = "left"
    /\ UNCHANGED <<kind, result, task, topic, stream, received, crashed>>

-----------------------------------------------------------------------------
(* The goroutine of Progress: "for ctx.Err() == nil && !t.done".           *)

At(pc) == stream.pc = pc

CheckDone ==
    /\ At("check")
    /\ IF client = "left" \/ done
       THEN /\ stream' = [stream EXCEPT !.pc = "closed"]
            /\ client' = IF client = "left" THEN client ELSE "answered"
       ELSE stream' = [stream EXCEPT !.pc = "size"] /\ UNCHANGED client
    /\ UNCHANGED <<kind, result, task, topic, received, crashed>>

ReadSize ==
    /\ At("size")
    /\ stream' = [stream EXCEPT !.pc = "send", !.size = Len(progress)]
    /\ UNCHANGED <<kind, client, result, task, topic, received, crashed>>

\* The element that append has not stored yet.
Torn == growing /\ stream.index + 1 = Len(progress)

\* Mutant of SendProgress: every round starts with the first message.
SendFromStart ==
    /\ At("send")
    /\ stream.index < stream.size
    /\ client # "left"
    /\ ~Torn
    /\ received' = Append(received, progress[stream.index + 1])
    /\ stream' = IF stream.index + 1 = stream.size
                 THEN [stream EXCEPT !.index = 0, !.pc = "wait"]
                 ELSE [stream EXCEPT !.index = @ + 1]
    /\ UNCHANGED <<kind, client, result, task, topic, crashed>>

\* The send on the unbuffered channel needs the client: when it has left, the
\* goroutine stays here.
SendProgress ==
    /\ At("send")
    /\ stream.index < stream.size
    /\ client # "left"
    /\ ~Torn
    /\ received' = Append(received, progress[stream.index + 1])
    /\ stream' = [stream EXCEPT !.index = @ + 1]
    /\ UNCHANGED <<kind, client, result, task, topic, crashed>>

\* A nil message: the handler dereferences it.
SendTorn ==
    /\ At("send")
    /\ stream.index < stream.size
    /\ client # "left"
    /\ Torn
    /\ crashed' = TRUE
    /\ UNCHANGED <<kind, client, result, task, topic, stream, received>>

AllSent ==
    /\ At("send")
    /\ stream.index = stream.size
    /\ stream' = [stream EXCEPT !.pc = "wait"]
    /\ UNCHANGED <<kind, client, result, task, topic, received, crashed>>

\* From here on a broadcast is noticed; one that came before is not.
FallAsleep ==
    /\ At("wait")
    /\ stream' = [stream EXCEPT !.pc = "asleep"]
    /\ UNCHANGED <<kind, client, result, task, topic, received, crashed>>

Broadcast == stream' = IF At("asleep") THEN [stream EXCEPT !.pc = "check"] ELSE stream

-----------------------------------------------------------------------------
(* The dispatcher.                                                         *)

Dispatch ==
    /\ status = "pending"
    /\ ~settled
    /\ status' = "processing"
    /\ UNCHANGED <<kind, client, result, tries, settled, topic, stream, received,
                   crashed>>

\* EmitProgress, first half: the append under the lock. Without a topic the
\* message is dropped. Another goroutine may be completing the task.
EmitProgress ==
    /\ status = "processing" \/ settled
    /\ mapped /\ ~growing
    /\ Len(progress) < MaxProgress
    /\ progress' = Append(progress, Len(progress) + 1)
    /\ growing' = TRUE
    /\ UNCHANGED <<kind, client, result, task, mapped, done, stream, received,
                   crashed>>

\* The second half: the element is there, and the waiters are told.
EmitBroadcast ==
    /\ growing
    /\ growing' = FALSE
    /\ Broadcast
    /\ UNCHANGED <<kind, client, result, task, mapped, done, progress, received,
                   crashed>>

\* Mutant of Settle: one retry too many.
SettleOneMore ==
    /\ status = "processing"
    /\ ~settled
    /\ \/ tries <= MaxRetry /\ status' = "pending" /\ tries' = tries + 1
       \/ status' = "finished" /\ UNCHANGED tries
    /\ settled' = TRUE
    /\ UNCHANGED <<kind, client, result, topic, stream, received, crashed>>

\* taskComplete sets the status: a failure within the budget is retried.
Settle ==
    /\ status = "processing"
    /\ ~settled
    /\ \/ tries < MaxRetry /\ status' = "pending" /\ tries' = tries + 1
       \/ status' = "finished" /\ UNCHANGED tries
    /\ settled' = TRUE
    /\ UNCHANGED <<kind, client, result, topic, stream, received, crashed>>

\* Mutant of Finish: the waiters are told before the status is set.
FinishFirst ==
    /\ status = "processing" \/ settled
    /\ ~growing
    /\ settled' = FALSE
    /\ IF mapped THEN done' = TRUE /\ mapped' = FALSE /\ Broadcast
                 ELSE UNCHANGED <<done, mapped, stream>>
    /\ UNCHANGED <<kind, client, result, status, tries, progress, growing,
                   received, crashed>>

\* Mutant of Finish: the condition variable is forgotten.
FinishQuietly ==
    /\ settled /\ ~growing
    /\ settled' = FALSE
    /\ IF mapped THEN done' = TRUE /\ mapped' = FALSE ELSE UNCHANGED <<done, mapped>>
    /\ UNCHANGED <<kind, client, result, status, tries, progress, growing, stream,
                   received, crashed>>

\* Mutant of Finish: the topic stays in the map.
FinishKeeps ==
    /\ settled /\ ~growing
    /\ settled' = FALSE
    /\ IF mapped THEN done' = TRUE /\ Broadcast ELSE UNCHANGED <<done, stream>>
    /\ UNCHANGED <<kind, client, result, status, tries, mapped, progress, growing,
                   received, crashed>>

\* Finish, for whatever status taskComplete decided on. The enqueue for a retry
\* comes after it.
Finish ==
    /\ settled /\ ~growing
    /\ settled' = FALSE
    /\ IF mapped THEN done' = TRUE /\ mapped' = FALSE /\ Broadcast
                 ELSE UNCHANGED <<done, mapped, stream>>
    /\ UNCHANGED <<kind, client, result, status, tries, progress, growing,
                   received, crashed>>

-----------------------------------------------------------------------------
Handler == Listener \/ Submit \/ SubmitFails \/ WaitReturns

Streamer ==
    \/ CheckDone \/ ReadSize \/ SendProgress \/ SendTorn \/ AllSent \/ FallAsleep

Dispatcher == Dispatch \/ EmitProgress \/ EmitBroadcast \/ Settle \/ Finish

Next == ~crashed /\ (Handler \/ ClientLeaves \/ Streamer \/ Dispatcher)

Spec == Init /\ [][Next]_vars

\* Every goroutine that can take a step takes one, and an attempt ends at last.
Fairness ==
    /\ WF_vars(~crashed /\ Handler)
    /\ WF_vars(~crashed /\ Streamer)
    /\ WF_vars(~crashed /\ Dispatcher)

FairSpec == Spec /\ Fairness

-----------------------------------------------------------------------------
\* A streaming client is sent the progress of the task without gaps, doubles or
\* changes of order, whenever the stream ends.
StreamIsPrefix == received = SubSeq(progress, 1, Len(received))

\* "Wait for finish" (subscriber.go): the task that Wait returns is finished.
WaitMeansFinished ==
    kind = "wait" /\ client = "answered" => result = "finished"

\* What Wait returns was settled once at least: it is finished, or was sent
\* into a retry.
WaitMeansSettled ==
    kind = "wait" /\ client = "answered" => result = "finished" \/ tries > 0

\* A client that waits is answered: no Finish comes before its topic is there.
WaiterIsAnswered ==
    (kind = "wait" /\ client = "submitted")
        ~> (client \in {"answered", "left"} \/ crashed)

\* A stream that sleeps on a topic that is not done is woken up.
SleeperIsWoken ==
    (At("asleep") /\ ~done) ~> (~At("asleep") \/ crashed)

\* No topic outlives its task, whether the client is still there or not; only
\* one whose task could not be stored stays behind.
TopicIsReleased == mapped ~> (~mapped \/ crashed \/ client = "failed")
=============================================================================
