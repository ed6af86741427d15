--------------------- MODULE WorkerManagerServiceProofs ----------------------
(***************************************************************************)
(* The dispatcher implements TaskService, for every number of tasks,       *)
(* connections and buckets, as long as no send is slow and no webhook is   *)
(* lost. Of the steps of the dispatcher, few are steps of the service:     *)
(*   CreateTask submits, SendOk starts, TaskComplete retries or finishes,  *)
(*   TaskFinish finishes, and what happens to connections and worker       *)
(*   processes may lose tasks. All others leave the phase of every task.   *)
(***************************************************************************)
EXTENDS WorkerManagerCustodyProofs

\* The phases are as Hands and Waiting have them, by hands of Held.
Waits(t) == \E k \in Kind, x \in Owner : Held(t, k, x) /\ Spare(t, k, x)

Alive(t) == \E k \in Kind, x \in Owner : Held(t, k, x)

PhaseOf(t) ==
    IF ~db[t].present THEN "unknown"
    ELSE IF Waits(t) THEN "waiting"
    ELSE IF Alive(t) THEN "executing"
    ELSE IF mem[t].status = "finished" THEN "done" ELSE "lost"

-----------------------------------------------------------------------------
LEMMA HeldIsHand ==
    ASSUME TypeOK, NEW t \in Task, NEW k \in Kind, NEW x \in Owner, Held(t, k, x)
    PROVE  Hands(t) # {}
<1> DEFINE InQueues ==
      UNION {{<<"queue", b, i>> : i \in {j \in DOMAIN queue[b] : queue[b][j] = t}} : b \in Bucket}
<1> DEFINE InInboxes ==
      UNION {{<<"inbox", c, i>> : i \in {j \in DOMAIN inbox[c] : inbox[c][j] = t}} : c \in Conn}
<1> DEFINE InOutboxes ==
      UNION {{<<"outbox", c, i>> : i \in {j \in DOMAIN outbox[c] : outbox[c][j].task = t}}
                : c \in Conn}
<1>1. /\ InQueues \subseteq Hands(t) /\ InInboxes \subseteq Hands(t)
      /\ InOutboxes \subseteq Hands(t)
      /\ {<<"arriving", 0, 0>> : z \in arriving \cap {t}} \subseteq Hands(t)
      /\ {<<"bucket", b, 0>> : b \in {d \in Bucket : bucket[d].task = t}} \subseteq Hands(t)
      /\ {<<"worker", c, 0>> : c \in {d \in Conn \ reported : running[d] = t}} \subseteq Hands(t)
      /\ {<<"handler", c, 0>> : c \in {d \in Conn : handler[d].task = t}} \subseteq Hands(t)
      /\ {<<"finisher", 0, i>> : i \in 1..finishers[t]} \subseteq Hands(t)
  BY DEF Hands
<1>2. CASE k = "queue"
  <2>1. PICK i \in DOMAIN queue[x] : x \in Bucket /\ queue[x][i] = t
    BY <1>2 DEF Held, In
  <2>2. <<"queue", x, i>> \in InQueues
    BY <2>1
  <2> QED  BY <1>1, <2>2
<1>3. CASE k = "inbox"
  <2>1. PICK i \in DOMAIN inbox[x] : x \in Conn /\ inbox[x][i] = t
    BY <1>3 DEF Held, In
  <2>2. <<"inbox", x, i>> \in InInboxes
    BY <2>1
  <2> QED  BY <1>1, <2>2
<1>4. CASE k = "outbox"
  <2>1. PICK i \in DOMAIN outbox[x] : x \in Conn /\ outbox[x][i].task = t
    BY <1>4 DEF Held, Reported
  <2>2. <<"outbox", x, i>> \in InOutboxes
    BY <2>1
  <2> QED  BY <1>1, <2>2
<1>5. CASE k = "arriving"
  <2>1. <<"arriving", 0, 0>> \in {<<"arriving", 0, 0>> : z \in arriving \cap {t}}
    BY <1>5 DEF Held
  <2> QED  BY <1>1, <2>1
<1>6. CASE k = "bucket"
  <2>1. <<"bucket", x, 0>> \in {<<"bucket", b, 0>> : b \in {d \in Bucket : bucket[d].task = t}}
    BY <1>6 DEF Held
  <2> QED  BY <1>1, <2>1
<1>7. CASE k = "worker"
  <2>1. <<"worker", x, 0>> \in
            {<<"worker", c, 0>> : c \in {d \in Conn \ reported : running[d] = t}}
    BY <1>7 DEF Held
  <2> QED  BY <1>1, <2>1
<1>8. CASE k = "handler"
  <2>1. <<"handler", x, 0>> \in {<<"handler", c, 0>> : c \in {d \in Conn : handler[d].task = t}}
    BY <1>8 DEF Held
  <2> QED  BY <1>1, <2>1
<1>9. CASE k = "finisher"
  <2>1. finishers[t] > 0 /\ finishers[t] \in Nat
    BY <1>9 DEF Held, TypeOK, CountsOK
  <2>2. 1 \in 1..finishers[t]
    BY <2>1
  <2>3. <<"finisher", 0, 1>> \in {<<"finisher", 0, i>> : i \in 1..finishers[t]}
    BY <2>2
  <2> QED  BY <1>1, <2>3
<1> QED  BY <1>2, <1>3, <1>4, <1>5, <1>6, <1>7, <1>8, <1>9, Owners

LEMMA WaitingWaits ==
    ASSUME TypeOK, NEW t \in Task
    PROVE  Waiting(t) <=> Waits(t)
<1> USE Owners
<1>1. Waiting(t) => Waits(t)
  <2>1. t \in arriving => Held(t, "arriving", NoConn) /\ Spare(t, "arriving", NoConn)
    BY DEF Held, Spare
  <2>2. \A b \in Bucket : \A i \in DOMAIN queue[b] :
            queue[b][i] = t => Held(t, "queue", b) /\ Spare(t, "queue", b)
    BY DEF Held, Spare, In
  <2>3. \A c \in Conn : handler[c].pc = "enqueue" /\ handler[c].task = t =>
            Held(t, "handler", c) /\ Spare(t, "handler", c)
    BY DEF Held, Spare
  <2>4. \A b \in Bucket : bucket[b].task = t => Held(t, "bucket", b) /\ Spare(t, "bucket", b)
    BY DEF Held, Spare
  <2> QED  BY <2>1, <2>2, <2>3, <2>4 DEF Waiting, Queued, Retrying, Waits
<1>2. ASSUME NEW k \in Kind, NEW x \in Owner, Held(t, k, x), Spare(t, k, x)
      PROVE  Waiting(t)
  BY <1>2 DEF Held, Spare, In, Waiting, Queued, Retrying
<1> QED  BY <1>1, <1>2 DEF Waits

LEMMA PhaseIs == TypeOK => phase = [t \in Task |-> PhaseOf(t)]
<1> SUFFICES ASSUME TypeOK  PROVE phase = [t \in Task |-> PhaseOf(t)]
  OBVIOUS
<1>1. ASSUME NEW t \in Task  PROVE phase[t] = PhaseOf(t)
  <2>1. Waiting(t) <=> Waits(t)
    BY WaitingWaits
  <2>2. Hands(t) # {} <=> Alive(t)
    <3>1. Alive(t) => Hands(t) # {}
      BY HeldIsHand DEF Alive
    <3>2. ASSUME NEW h \in Hands(t)  PROVE Alive(t)
      BY HandsAreHeld DEF Alive
    <3> QED  BY <3>1, <3>2
  <2> QED  BY <2>1, <2>2 DEF phase, PhaseOf
<1> QED  BY <1>1 DEF phase

\* A task in a hand waits there or executes there, and nowhere else.
LEMMA PhaseHeld ==
    Custody => \A u \in Task, k \in Kind, x \in Owner :
        Held(u, k, x) => PhaseOf(u) = IF Spare(u, k, x) THEN "waiting" ELSE "executing"
<1> SUFFICES ASSUME Custody, NEW u \in Task, NEW k \in Kind, NEW x \in Owner, Held(u, k, x)
             PROVE  PhaseOf(u) = IF Spare(u, k, x) THEN "waiting" ELSE "executing"
  OBVIOUS
<1>1. /\ db[u].present
      /\ \A l \in Kind, y \in Owner : Held(u, l, y) => l = k /\ y = x
  BY HeldOnce
<1>2. Alive(u) /\ (Waits(u) <=> Spare(u, k, x))
  BY <1>1 DEF Alive, Waits
<1> QED  BY <1>1, <1>2 DEF PhaseOf

\* Both, in the next state.
LEMMA PhaseNext ==
    /\ TypeOK' => phase' = [t \in Task |-> PhaseOf(t)']
    /\ Custody' => \A u \in Task, k \in Kind, x \in Owner :
          Held(u, k, x)' =>
              PhaseOf(u)' = IF Spare(u, k, x)' THEN "waiting" ELSE "executing"
<1>1. (TypeOK => phase = [t \in Task |-> PhaseOf(t)])'
  BY PhaseIs, PTL
<1>2. (Custody => \A u \in Task, k \in Kind, x \in Owner :
          Held(u, k, x) => PhaseOf(u) = IF Spare(u, k, x) THEN "waiting" ELSE "executing")'
  BY PhaseHeld, PTL
<1> QED  BY <1>1, <1>2

-----------------------------------------------------------------------------
(* The steps of one task.                                                  *)

OthersStay(u) == \A t \in Task \ {u}, k \in Kind, x \in Owner : Held(t, k, x)' <=> Held(t, k, x)

LEMMA OthersStill ==
    ASSUME NEW u, OthersStay(u),
           \A t \in Task \ {u} : db'[t] = db[t] /\ mem'[t].status = mem[t].status,
           \A c \in Conn : handler[c].task \in Task \ {u} => handler'[c] = handler[c],
           NEW t \in Task \ {u}
    PROVE  PhaseOf(t)' = PhaseOf(t)
<1>1. \A k \in Kind, x \in Owner : Held(t, k, x) => (Spare(t, k, x)' <=> Spare(t, k, x))
  BY DEF Held, Spare
<1>2. (Waits(t)' <=> Waits(t)) /\ (Alive(t)' <=> Alive(t))
  BY <1>1 DEF Waits, Alive, OthersStay
<1> QED  BY <1>2 DEF PhaseOf

LEMMA SameButOne ==
    ASSUME NEW u
    PROVE  /\ Stay => OthersStay(u)
           /\ Dropped(u) => OthersStay(u)
           /\ \A l \in Kind, y \in Owner : MovesTo(u, l, y) => OthersStay(u)
BY DEF Stay, Same, Dropped, MovesTo, OthersStay

\* What may happen to the phase of the one task a step is about.
Allowed(u, p, q) ==
    \/ p = q /\ UNCHANGED attempts
    \/ p = "unknown" /\ q = "waiting" /\ UNCHANGED attempts
    \/ p = "executing" /\ q = "waiting" /\ attempts[u] <= MaxRetry[u] /\ UNCHANGED attempts
    \/ p = "executing" /\ q = "done" /\ UNCHANGED attempts
    \/ /\ p = "waiting" /\ q \in {"executing", "lost"} /\ attempts[u] <= MaxRetry[u]
       /\ attempts' = [attempts EXCEPT ![u] = @ + 1]

LEMMA OneTaskStep ==
    ASSUME TypeOK, TypeOK', NEW u \in Task, Allowed(u, PhaseOf(u), PhaseOf(u)'),
           \A t \in Task \ {u} : PhaseOf(t)' = PhaseOf(t)
    PROVE  [Service!Next]_<<phase, attempts>>
<1>1. /\ phase = [t \in Task |-> PhaseOf(t)] /\ phase' = [t \in Task |-> PhaseOf(t)']
  BY PhaseIs, PhaseNext
<1> DEFINE p == PhaseOf(u)
<1> DEFINE q == PhaseOf(u)'
<1>2. /\ phase[u] = p
      /\ phase' = [phase EXCEPT ![u] = q]
  BY <1>1
<1>3. CASE p = q /\ UNCHANGED attempts
  <2>1. phase' = phase
    BY <1>1, <1>2, <1>3
  <2> QED  BY <1>3, <2>1
<1> HIDE DEF p, q
<1>4. CASE p = "unknown" /\ q = "waiting" /\ UNCHANGED attempts
  <2>1. Service!Submit(u)
    BY <1>2, <1>4 DEF Service!Submit
  <2> QED  BY <2>1 DEF Service!Next
<1>5. CASE p = "executing" /\ q = "waiting" /\ attempts[u] <= MaxRetry[u] /\ UNCHANGED attempts
  <2>1. Service!Retry(u)
    BY <1>2, <1>5 DEF Service!Retry
  <2> QED  BY <2>1 DEF Service!Next
<1>6. CASE p = "executing" /\ q = "done" /\ UNCHANGED attempts
  <2>1. Service!Finish(u)
    BY <1>2, <1>6 DEF Service!Finish
  <2> QED  BY <2>1 DEF Service!Next
<1>7. CASE /\ p = "waiting" /\ q \in {"executing", "lost"} /\ attempts[u] <= MaxRetry[u]
           /\ attempts' = [attempts EXCEPT ![u] = @ + 1]
  <2>1. Service!Start(u)
    BY <1>2, <1>7 DEF Service!Start
  <2> QED  BY <2>1 DEF Service!Next
<1> QED  BY <1>3, <1>4, <1>5, <1>6, <1>7 DEF Allowed, p, q

\* A step that moves a task from hand to hand, writing to no worker.
LEMMA MoveStep ==
    ASSUME Custody, Custody', NEW u \in Task, NEW k \in Kind, NEW x \in Owner, Held(u, k, x),
           NEW l \in Kind, NEW y \in Owner, Held(u, l, y)', OthersStay(u),
           \A t \in Task \ {u} : db'[t] = db[t] /\ mem'[t].status = mem[t].status,
           \A c \in Conn : handler[c].task \in Task \ {u} => handler'[c] = handler[c],
           Spare(u, k, x) <=> Spare(u, l, y)', UNCHANGED attempts
    PROVE  [Service!Next]_<<phase, attempts>>
<1>1. PhaseOf(u) = PhaseOf(u)'
  BY PhaseHeld, PhaseNext
<1>2. Allowed(u, PhaseOf(u), PhaseOf(u)')
  BY <1>1 DEF Allowed
<1> QED  BY <1>2, OthersStill, OneTaskStep DEF Custody

-----------------------------------------------------------------------------
(* The steps of the dispatcher.                                            *)

LEMMA ApiServes ==
    ASSUME Custody, Custody', TicketsHeld, NEW u \in Task, Api(u)
    PROVE  [Service!Next]_<<phase, attempts>>
<1> USE Owners
<1>1. UNCHANGED <<attempts, handler>>
  BY DEF Api, CreateTask, ArrivingEnqueue, CancelRead, CancelWrite, conns
<1>2. TypeOK /\ TypeOK'
  BY DEF Custody
<1>3. CASE CreateTask(u)
  <2>1. MovesTo(u, "arriving", NoConn)
    BY <1>3, CreateMoves
  <2>2. Held(u, "arriving", NoConn)' /\ OthersStay(u)
    BY <2>1, SameButOne DEF MovesTo
  <2>3. PhaseOf(u)' = "waiting"
    BY <2>2, PhaseNext DEF Spare
  <2>4. /\ PhaseOf(u) = "unknown" /\ mem' = mem
        /\ \A t \in Task \ {u} : db'[t] = db[t]
    BY <1>2, <1>3 DEF CreateTask, PhaseOf, TypeOK, ObjectsOK
  <2>5. Allowed(u, PhaseOf(u), PhaseOf(u)')
    BY <1>1, <2>3, <2>4 DEF Allowed
  <2> QED  BY <1>1, <1>2, <2>2, <2>4, <2>5, OthersStill, OneTaskStep
<1>4. CASE ArrivingEnqueue(u)
  <2>1. PICK d \in Bucket : Held(u, "arriving", NoConn) /\ MovesTo(u, "queue", d)
    BY <1>4, EnqueueMoves
  <2>2. Held(u, "queue", d)' /\ OthersStay(u)
    BY <2>1, SameButOne DEF MovesTo
  <2>3. UNCHANGED <<mem, db>> /\ Spare(u, "arriving", NoConn) /\ Spare(u, "queue", d)'
    BY <1>4 DEF ArrivingEnqueue, objects, Spare
  <2> QED  BY <1>1, <2>1, <2>2, <2>3, MoveStep
<1>5. CASE CancelRead(u) \/ CancelWrite(u)
  <2>1. UNCHANGED <<mem, arriving, queue, bucket, inbox, running, reported, outbox,
                    finishers>>
    BY <1>5 DEF CancelRead, CancelWrite, dispatcher, remote
  <2>2. \A t \in Task : db'[t].present <=> db[t].present
    <3>1. CASE CancelRead(u)
      BY <3>1 DEF CancelRead
    <3>2. ASSUME NEW w \in Conn \cup {NoConn}, <<u, w>> \in cancelling, CancelWrite(u)
          PROVE  \A t \in Task : db'[t].present <=> db[t].present
      BY <1>2, <3>2 DEF CancelWrite, TicketsHeld, TypeOK, ObjectsOK
    <3> QED  BY <1>5, <3>1, <3>2 DEF CancelWrite
  <2>3. Stay
    BY <1>1, <2>1, SameHands DEF Stay
  <2>4. \A t \in Task : (Waits(t)' <=> Waits(t)) /\ (Alive(t)' <=> Alive(t))
    BY <1>1, <2>3 DEF Stay, Same, Waits, Alive, Spare
  <2>5. \A t \in Task : PhaseOf(t)' = PhaseOf(t)
    BY <2>1, <2>2, <2>4 DEF PhaseOf
  <2>6. Allowed(u, PhaseOf(u), PhaseOf(u)')
    BY <1>1, <2>5 DEF Allowed
  <2> QED  BY <1>2, <2>5, <2>6, OneTaskStep
<1> QED  BY <1>3, <1>4, <1>5 DEF Api

LEMMA FinisherServes ==
    ASSUME Custody, Custody', "webhook" \notin Faults, NEW u \in Task, Finisher(u)
    PROVE  [Service!Next]_<<phase, attempts>>
<1> USE Owners
<1>1. TypeOK /\ TypeOK' /\ TaskFinish(u)
  BY DEF Custody, Finisher, TaskFinishFails
<1>2. UNCHANGED <<attempts, handler>>
  BY <1>1 DEF TaskFinish, conns
<1>3. Held(u, "finisher", NoConn) /\ Dropped(u) /\ OthersStay(u)
  BY <1>1, FinishMoves, SameButOne
<1>4. PhaseOf(u) = "executing"
  BY <1>3, PhaseHeld DEF Spare
<1>5. /\ db'[u] = Stored([mem[u] EXCEPT !.status = "finished"])
      /\ mem'[u].status = "finished"
      /\ \A t \in Task \ {u} : db'[t] = db[t] /\ mem'[t] = mem[t]
  BY <1>1 DEF TaskFinish, Write, TypeOK, ObjectsOK, TaskObject
<1>6. PhaseOf(u)' = "done"
  <2>1. ~Waits(u)' /\ ~Alive(u)'
    BY <1>3 DEF Dropped, Waits, Alive
  <2> QED  BY <1>5, <2>1 DEF PhaseOf, Stored
<1>7. Allowed(u, PhaseOf(u), PhaseOf(u)')
  BY <1>2, <1>4, <1>6 DEF Allowed
<1> QED  BY <1>1, <1>2, <1>3, <1>5, <1>7, OthersStill, OneTaskStep

LEMMA BucketServes ==
    ASSUME Custody, Custody', Budget, "slow" \notin Faults, NEW b \in Bucket, BucketWorker(b)
    PROVE  [Service!Next]_<<phase, attempts>>
<1> USE Owners
<1>1. TypeOK /\ TypeOK'
  BY DEF Custody
<1>2. UNCHANGED handler
  BY DEF BucketWorker, PopTask, findNoConn, findPanics, findSuitableConn, AssignTask,
        AssignRefused, ConvertFails, RecordAssignment, SendOk, SendFails, SendTimesOut, SendPanics,
        RevertAssignment, ClearAfterFailure, RequeueTask, conns
<1>3. CASE PopTask(b)
  <2>1. PICK u \in Task : Held(u, "queue", b) /\ MovesTo(u, "bucket", b)
    BY <1>3, PopMoves
  <2>2. Held(u, "bucket", b)' /\ OthersStay(u)
    BY <2>1, SameButOne DEF MovesTo
  <2>3. UNCHANGED <<mem, db, attempts>> /\ Spare(u, "queue", b) /\ Spare(u, "bucket", b)'
    BY <1>3 DEF PopTask, objects, Spare
  <2> QED  BY <1>2, <2>1, <2>2, <2>3, MoveStep
<1>4. ASSUME ~PopTask(b)
      PROVE  bucket[b].task \in Task /\ Held(bucket[b].task, "bucket", b)
  <2>1. bucket[b].pc # "pop"
    BY <1>4
    DEF BucketWorker, findNoConn, findPanics, findSuitableConn, AssignTask,
        AssignRefused, ConvertFails, RecordAssignment, SendOk, SendFails, SendTimesOut, SendPanics,
        RevertAssignment, ClearAfterFailure, RequeueTask, BucketAt
  <2> QED  BY <1>1, <2>1, BucketHolds
<1>5. CASE SendOk(b)
  <2>1. PICK u \in Task : u = bucket[b].task /\ Held(u, "bucket", b)
    BY <1>4, <1>5 DEF SendOk, PopTask, BucketAt
  <2>2. PICK c \in Conn : MovesTo(u, "inbox", c) \/ Dropped(u)
    BY <1>5, <2>1, SendMoves
  <2>3. /\ attempts' = [attempts EXCEPT ![u] = @ + 1] /\ UNCHANGED <<mem, db>>
    BY <1>5, <2>1 DEF SendOk, objects
  <2>4. OthersStay(u) /\ PhaseOf(u) = "waiting"
    BY <2>1, <2>2, SameButOne, PhaseHeld DEF Spare
  <2>5. PhaseOf(u)' \in {"executing", "lost"}
    <3>1. CASE MovesTo(u, "inbox", c)
      <4>1. Held(u, "inbox", c)' /\ ~Spare(u, "inbox", c)'
        BY <3>1 DEF MovesTo, Spare
      <4> QED  BY <4>1, PhaseNext
    <3>2. CASE Dropped(u)
      <4>1. ~Waits(u)' /\ ~Alive(u)'
        BY <3>2 DEF Dropped, Waits, Alive
      <4>2. db'[u].present /\ mem'[u].status = "processing"
        BY <1>5, <2>1, <2>3, HeldOnce DEF HandOK, SendOk, BucketAt
      <4> QED  BY <4>1, <4>2 DEF PhaseOf
    <3> QED  BY <2>2, <3>1, <3>2
  <2>6. attempts[u] <= MaxRetry[u]
    <3>1. attempts[u] <= mem[u].retried /\ mem[u].retried <= MaxRetry[u]
      BY <2>1 DEF Budget, AttemptBudget, Spare
    <3>2. attempts[u] \in Nat /\ mem[u].retried \in Nat /\ MaxRetry[u] \in Nat
      BY <1>1, WorkerManagerAssumption DEF TypeOK, CountsOK, ObjectsOK, TaskObject
    <3> QED  BY <3>1, <3>2
  <2>7. Allowed(u, PhaseOf(u), PhaseOf(u)')
    BY <2>3, <2>4, <2>5, <2>6 DEF Allowed
  <2> QED  BY <1>1, <1>2, <2>3, <2>4, <2>7, OthersStill, OneTaskStep
<1>6. CASE RequeueTask(b)
  <2>1. PICK u \in Task, d \in Bucket : /\ Held(u, "bucket", b) /\ MovesTo(u, "queue", d)
    BY <1>6, RequeueMoves
  <2>2. Held(u, "queue", d)' /\ OthersStay(u)
    BY <2>1, SameButOne DEF MovesTo
  <2>3. UNCHANGED <<mem, db, attempts>> /\ Spare(u, "bucket", b) /\ Spare(u, "queue", d)'
    BY <1>6 DEF RequeueTask, objects, Spare
  <2> QED  BY <1>2, <2>1, <2>2, <2>3, MoveStep
<1>7. ASSUME ~PopTask(b), ~SendOk(b), ~RequeueTask(b)
      PROVE  [Service!Next]_<<phase, attempts>>
  <2>1. PICK u \in Task : u = bucket[b].task /\ Held(u, "bucket", b)
    BY <1>4, <1>7
  <2>2. InPlace(b)
    <3>1. UNCHANGED <<arriving, queue, inbox, running, reported, outbox, handler, finishers>>
      BY <1>7
      DEF BucketWorker, findNoConn, findPanics, findSuitableConn, AssignTask,
          AssignRefused, ConvertFails, RecordAssignment, SendFails, SendTimesOut, SendPanics,
          RevertAssignment, ClearAfterFailure, dispatcher, conns, remote
    <3>2. \/ bucket' = bucket \/ \E pc \in BucketStep : Goto(b, pc)
          \/ \E c \in Conn : findSuitableConn(b, c)
      BY <1>7
      DEF BucketWorker, findNoConn, findPanics, AssignTask, AssignRefused, ConvertFails,
          RecordAssignment, SendFails, SendTimesOut, SendPanics, RevertAssignment, ClearAfterFailure,
          BucketStep, dispatcher
    <3>3. /\ \A d \in Bucket \ {b} : bucket'[d] = bucket[d]
          /\ bucket'[b].task = bucket[b].task
      BY <1>1, <3>2 DEF findSuitableConn, Goto, TypeOK, DispatcherOK
    <3> QED  BY <3>1, <3>3 DEF InPlace
  <2>3. OthersStay(u) /\ Held(u, "bucket", b)'
    BY <2>1, <2>2, InPlaceStays, SameButOne DEF Stay, Same
  <2>4. Spare(u, "bucket", b) /\ Spare(u, "bucket", b)'
    BY DEF Spare
  <2>5. UNCHANGED attempts
    BY <1>7
    DEF BucketWorker, findNoConn, findPanics, findSuitableConn, AssignTask,
        AssignRefused, ConvertFails, RecordAssignment, SendFails, SendTimesOut, SendPanics,
        RevertAssignment, ClearAfterFailure
  <2>6. \A t \in Task \ {u} : db'[t] = db[t] /\ mem'[t] = mem[t]
    <3>1. CASE RecordAssignment(b) \/ RevertAssignment(b)
      BY <1>1, <2>1, <3>1
      DEF RecordAssignment, RevertAssignment, Write, TypeOK, ObjectsOK
    <3>2. CASE ~RecordAssignment(b) /\ ~RevertAssignment(b)
      BY <1>7, <3>2
      DEF BucketWorker, findNoConn, findPanics, findSuitableConn, AssignTask,
          AssignRefused, ConvertFails, SendFails, SendTimesOut, SendPanics,
          ClearAfterFailure, objects
    <3> QED  BY <3>1, <3>2
  <2> QED  BY <1>2, <2>1, <2>3, <2>4, <2>5, <2>6, MoveStep
<1> QED  BY <1>3, <1>5, <1>6, <1>7

LEMMA HandlerServes ==
    ASSUME Custody, Custody', Budget, Budget', NEW c \in Conn,
           HandleReport(c) \/ TaskComplete(c) \/ TaskCompleteEnqueue(c)
    PROVE  [Service!Next]_<<phase, attempts>>
<1> USE Owners
<1>1. TypeOK /\ TypeOK'
  BY DEF Custody
<1>2. UNCHANGED attempts /\ handler \in [Conn -> [pc : HandlerStep, task : Task \cup {NoTask}]]
  BY <1>1 DEF HandleReport, TaskComplete, TaskCompleteEnqueue, TypeOK, ConnsOK
<1>3. CASE HandleReport(c)
  <2>1. PICK u \in Task : /\ u = Head(outbox[c]).task /\ Held(u, "outbox", c)
                          /\ MovesTo(u, "handler", c)
    BY <1>3, HandleMoves
  <2>2. /\ handler' = [handler EXCEPT ![c] = [pc |-> "settle", task |-> u]]
        /\ handler[c].pc = "idle" /\ UNCHANGED db
        /\ \A t \in Task \ {u} : mem'[t] = mem[t]
    BY <1>1, <1>3, <2>1 DEF HandleReport, TypeOK, ObjectsOK
  <2>3. Held(u, "handler", c)' /\ OthersStay(u)
    BY <2>1, SameButOne DEF MovesTo
  <2>4. ~Spare(u, "outbox", c) /\ ~Spare(u, "handler", c)'
    BY <1>2, <2>2 DEF Spare
  <2>5. handler[c].task = NoTask
    BY <2>2 DEF Custody, IdleHandsEmpty
  <2>6. \A d \in Conn : handler[d].task \in Task \ {u} => handler'[d] = handler[d]
    BY <1>2, <2>2, <2>5, WorkerManagerAssumption
  <2> QED  BY <1>2, <2>1, <2>2, <2>3, <2>4, <2>6, MoveStep
<1>4. CASE TaskCompleteEnqueue(c)
  <2>1. PICK u \in Task, d \in Bucket : /\ u = handler[c].task /\ Held(u, "handler", c)
                                        /\ MovesTo(u, "queue", d)
    BY <1>4, CompleteEnqueueMoves
  <2>2. Held(u, "queue", d)' /\ OthersStay(u)
    BY <2>1, SameButOne DEF MovesTo
  <2>3. UNCHANGED <<mem, db>> /\ Spare(u, "handler", c) /\ Spare(u, "queue", d)'
    BY <1>4 DEF TaskCompleteEnqueue, objects, Spare
  <2>4. \A e \in Conn : handler[e].task \in Task \ {u} => handler'[e] = handler[e]
    BY <1>2, <1>4, <2>1 DEF TaskCompleteEnqueue
  <2> QED  BY <1>2, <2>1, <2>2, <2>3, <2>4, MoveStep
<1>5. CASE TaskComplete(c)
  <2>1. PICK u \in Task : u = handler[c].task /\ Held(u, "handler", c)
    BY <1>5, CompleteMoves
  <2>2. /\ Write(u, Settled(u)) /\ handler[c].pc = "settle"
        /\ handler' = [handler EXCEPT ![c] =
                IF Settled(u).status = "pending" THEN [pc |-> "enqueue", task |-> u]
                                                 ELSE [pc |-> "idle", task |-> NoTask]]
    BY <1>5, <2>1 DEF TaskComplete
  <2>3. PhaseOf(u) = "executing"
    BY <2>1, <2>2, PhaseHeld DEF Spare
  <2>4. \A e \in Conn : handler[e].task \in Task \ {u} => handler'[e] = handler[e]
    BY <1>2, <2>1, <2>2
  <2>5. /\ mem'[u] = Settled(u) /\ db'[u] = Stored(Settled(u))
        /\ \A t \in Task \ {u} : mem'[t] = mem[t] /\ db'[t] = db[t]
    BY <1>1, <2>2 DEF Write, TypeOK, ObjectsOK
  <2>6. CASE Settled(u).status = "pending"
    <3>1. Stay
      BY <1>5, <2>1, <2>6, CompleteMoves
    <3>2. Held(u, "handler", c)' /\ OthersStay(u)
      BY <2>1, <3>1, SameButOne DEF Stay, Same
    <3>3. Spare(u, "handler", c)'
      BY <1>2, <2>2, <2>6 DEF Spare
    <3>4. PhaseOf(u)' = "waiting"
      BY <3>2, <3>3, PhaseNext
    <3>5. attempts[u] <= MaxRetry[u]
      <4>1. attempts'[u] <= mem'[u].retried /\ mem'[u].retried <= MaxRetry[u]
        BY <3>2, <3>3 DEF Budget, AttemptBudget
      <4>2. attempts[u] \in Nat /\ mem'[u].retried \in Nat /\ MaxRetry[u] \in Nat
        BY <1>1, WorkerManagerAssumption DEF TypeOK, CountsOK, ObjectsOK, TaskObject
      <4> QED  BY <1>2, <4>1, <4>2
    <3>6. Allowed(u, PhaseOf(u), PhaseOf(u)')
      BY <1>2, <2>3, <3>4, <3>5 DEF Allowed
    <3> QED  BY <1>1, <2>4, <2>5, <3>2, <3>6, OthersStill, OneTaskStep
  <2>7. CASE Settled(u).status = "completed"
    <3>1. MovesTo(u, "finisher", NoConn)
      BY <1>5, <2>1, <2>7, CompleteMoves
    <3>2. Held(u, "finisher", NoConn)' /\ OthersStay(u) /\ ~Spare(u, "finisher", NoConn)'
      BY <3>1, SameButOne DEF MovesTo, Spare
    <3>3. PhaseOf(u)' = "executing"
      BY <3>2, PhaseNext
    <3>4. Allowed(u, PhaseOf(u), PhaseOf(u)')
      BY <1>2, <2>3, <3>3 DEF Allowed
    <3> QED  BY <1>1, <2>4, <2>5, <3>2, <3>4, OthersStill, OneTaskStep
  <2>8. CASE Settled(u).status \notin {"pending", "completed"}
    <3>1. Dropped(u)
      BY <1>5, <2>1, <2>8, CompleteMoves
    <3>2. OthersStay(u)
      BY <3>1, SameButOne
    <3>3. Settled(u).status = "finished"
      BY <1>1, <2>8 DEF Settled, getTaskCompleteStatus, TypeOK, ObjectsOK, TaskObject
    <3>4. PhaseOf(u)' = "done"
      <4>1. ~Waits(u)' /\ ~Alive(u)'
        BY <3>1 DEF Dropped, Waits, Alive
      <4> QED  BY <2>5, <3>3, <4>1 DEF PhaseOf, Stored
    <3>5. Allowed(u, PhaseOf(u), PhaseOf(u)')
      BY <1>2, <2>3, <3>4 DEF Allowed
    <3> QED  BY <1>1, <2>4, <2>5, <3>2, <3>5, OthersStill, OneTaskStep
  <2> QED  BY <2>6, <2>7, <2>8
<1> QED  BY <1>3, <1>4, <1>5

-----------------------------------------------------------------------------
(* What happens out there may lose tasks that execute, and nothing else.   *)

LEMMA OutThereServes ==
    ASSUME Custody, Custody',
           UNCHANGED <<mem, db, arriving, queue, bucket, handler, finishers, attempts>>,
           \A t \in Task : Alive(t)' => Alive(t)
    PROVE  [Service!Next]_<<phase, attempts>>
<1>1. /\ phase = [t \in Task |-> PhaseOf(t)] /\ phase' = [t \in Task |-> PhaseOf(t)']
  BY PhaseIs, PhaseNext DEF Custody
<1> DEFINE S == {t \in Task : PhaseOf(t) = "executing" /\ PhaseOf(t)' = "lost"}
<1>2. ASSUME NEW t \in Task  PROVE PhaseOf(t)' = IF t \in S THEN "lost" ELSE PhaseOf(t)
  <2>1. Waits(t)' <=> Waits(t)
    BY DEF Waits, Held, Spare, In
  <2>2. Waits(t)' => Alive(t)'
    BY DEF Waits, Alive
  <2>3. Alive(t) /\ ~Waits(t) => mem[t].status # "finished"
    <3> SUFFICES ASSUME NEW k \in Kind, NEW x \in Owner, Held(t, k, x), ~Spare(t, k, x)
                 PROVE  mem[t].status # "finished"
      BY DEF Alive, Waits
    <3>1. HandOK(t, k, x) /\ k \notin {"arriving", "queue", "bucket"}
      BY HeldOnce DEF Spare
    <3> QED  BY <3>1, Owners DEF HandOK
  <2> QED  BY <2>1, <2>2, <2>3 DEF PhaseOf
<1>3. \A t \in S : phase[t] = "executing"
  BY <1>1
<1>4. phase' = [t \in Task |-> IF t \in S THEN "lost" ELSE phase[t]]
  BY <1>1, <1>2
<1>5. S \in SUBSET Task
  OBVIOUS
<1> HIDE DEF S
<1>6. Service!Lose(S)
  BY <1>3, <1>4 DEF Service!Lose
<1> QED  BY <1>5, <1>6 DEF Service!Next

LEMMA ConnectionServes ==
    ASSUME Custody, Custody', NEW c \in Conn,
           Register(c) \/ Unregister(c) \/ RemoteWorker(c) \/ RejectReport(c)
    PROVE  [Service!Next]_<<phase, attempts>>
<1> USE Owners
<1>1. Exclusive /\ NoTask \notin Task
  BY WorkerManagerAssumption DEF Custody
<1>2. ~LateWrite(c)
  BY DEF LateWrite, Custody, IdleHandsEmpty
<1>3. UNCHANGED <<mem, db, arriving, queue, bucket, handler, finishers, attempts>>
  BY <1>2
  DEF Register, HandleRegister, Reconnect, StoreSession, RegisterResponseOk,
      RegisterResponseFails, Unregister, RemoveConnection, CloseChannel, RemoteWorker,
      WorkerReceive, WorkerSwallows, WorkerIdle, WorkerReport, RejectReport, objects,
      dispatcher, conns
<1>4. ASSUME NEW u, NEW l \in Kind, NEW y \in Owner, AtMost(u, l, y), u \in Task => Alive(u)
      PROVE  [Service!Next]_<<phase, attempts>>
  <2>1. \A t \in Task : Alive(t)' => Alive(t)
    BY <1>4 DEF AtMost, Alive
  <2> QED  BY <1>3, <2>1, OutThereServes
<1>5. CASE \/ HandleRegister(c) \/ StoreSession(c) \/ RegisterResponseOk(c)
           \/ RegisterResponseFails(c) \/ Unregister(c) \/ WorkerIdle(c)
  <2>1. AtMost(NoTask, "worker", c)
    BY <1>1, <1>5, ConnectionMoves, WorkerIdleStays, Bounded
  <2> QED  BY <1>1, <1>4, <2>1
<1>6. ASSUME NEW d \in Conn, Reconnect(c, d)  PROVE [Service!Next]_<<phase, attempts>>
  <2>1. PICK u : (u \in Task => Held(u, "worker", d)) /\ AtMost(u, "worker", c)
    BY <1>6, ReconnectMoves
  <2> QED  BY <1>4, <2>1 DEF Alive
<1>7. CASE WorkerReceive(c)
  <2>1. PICK u \in Task : Held(u, "inbox", c) /\ AtMost(u, "worker", c)
    BY <1>1, <1>7, ReceiveMoves, Bounded
  <2> QED  BY <1>4, <2>1 DEF Alive
<1>8. ASSUME NEW failed \in BOOLEAN, WorkerReport(c, failed)
      PROVE  [Service!Next]_<<phase, attempts>>
  <2>1. PICK u \in Task : Held(u, "worker", c) /\ AtMost(u, "outbox", c)
    BY <1>1, <1>8, ReportMoves, Bounded
  <2> QED  BY <1>4, <2>1 DEF Alive
<1>9. CASE RejectReport(c)
  <2>1. PICK u \in Task : Held(u, "outbox", c) /\ AtMost(u, "outbox", c)
    BY <1>1, <1>9, HandleMoves, Bounded
  <2> QED  BY <1>4, <2>1 DEF Alive
<1>10. CASE WorkerSwallows(c)
  <2>1. PICK u \in Task : Held(u, "worker", c) /\ AtMost(u, "worker", c)
    BY <1>1, <1>10, SwallowMoves, Bounded
  <2> QED  BY <1>4, <2>1 DEF Alive
<1> QED  BY <1>2, <1>5, <1>6, <1>7, <1>8, <1>9, <1>10 DEF Register, RemoteWorker

-----------------------------------------------------------------------------
LEMMA ServiceInit == Init => Service!Init
<1> SUFFICES ASSUME Init  PROVE Service!Init
  OBVIOUS
<1>1. TypeOK /\ Custody
  BY CustodyInit DEF Custody
<1>2. ASSUME NEW t \in Task  PROVE PhaseOf(t) \in {"unknown", "waiting"}
  <2>1. CASE t \in InitialTasks
    <3>1. Held(t, "arriving", NoConn) /\ Spare(t, "arriving", NoConn)
      BY <2>1 DEF Init, Held, Spare
    <3> QED  BY <1>1, <3>1, PhaseHeld, Owners
  <2>2. CASE t \notin InitialTasks
    BY <2>2 DEF Init, PhaseOf
  <2> QED  BY <2>1, <2>2
<1>3. phase \in [Task -> {"unknown", "waiting"}]
  BY <1>1, <1>2, PhaseIs
<1>4. attempts = [t \in Task |-> 0]
  BY DEF Init
<1> QED  BY <1>3, <1>4 DEF Service!Init

LEMMA ServiceStep ==
    ASSUME "slow" \notin Faults, "webhook" \notin Faults, Custody, Budget, TicketsHeld,
           [Next]_vars
    PROVE  [Service!Next]_<<phase, attempts>>
<1>1. Custody' /\ Budget'
  BY CustodyStep, BudgetStep
<1>2. CASE UNCHANGED vars
  <2>1. Stay
    BY <1>2, SameHands, Owners DEF vars, dispatcher, conns, remote, Stay
  <2>2. UNCHANGED <<mem, db, arriving, queue, bucket, handler, finishers, attempts>>
    BY <1>2 DEF vars, objects, dispatcher, conns
  <2>3. \A t \in Task : Alive(t)' => Alive(t)
    BY <2>1 DEF Stay, Same, Alive
  <2> QED  BY <1>1, <2>2, <2>3, OutThereServes
<1>3. ASSUME NEW c \in Conn, Register(c) \/ Handle(c) \/ Unregister(c) \/ RemoteWorker(c)
      PROVE  [Service!Next]_<<phase, attempts>>
  BY <1>1, <1>3, ConnectionServes, HandlerServes DEF Handle
<1> QED  BY <1>1, <1>2, <1>3, ApiServes, FinisherServes, BucketServes DEF Next

\* Seen from outside, without slow sends and lost webhooks, and however often tasks
\* are cancelled, the dispatcher is the task service: a task is started only while
\* it waits and within its retries, is executed once at a time, is lost only while
\* it executes, and is done for good when it is done.
THEOREM DispatcherServes ==
    ASSUME "slow" \notin Faults, "webhook" \notin Faults
    PROVE  Spec => ImplementsTaskService
<1>1. Init => Custody /\ Budget /\ Service!Init
  BY CustodyInit, BudgetInit, ServiceInit
<1>2. Custody /\ Budget /\ [Next]_vars => Custody' /\ Budget'
  BY CustodyStep, BudgetStep
<1>3. Custody /\ Budget /\ TicketsHeld /\ [Next]_vars => [Service!Next]_<<phase, attempts>>
  BY ServiceStep
<1> QED
  BY <1>1, <1>2, <1>3, TicketsAlways, PTL DEF Spec, ImplementsTaskService, Service!Spec
=============================================================================
