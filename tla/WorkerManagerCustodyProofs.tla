--------------------- MODULE WorkerManagerCustodyProofs ----------------------
(***************************************************************************)
(* Theorems about who holds a task, for every number of tasks, connections *)
(* and buckets, as long as no send is slow: a task is in one hand at most, *)
(* sessions and task objects agree, what is finished stays so, and no      *)
(* attempt is made beyond the budget.                                      *)
(***************************************************************************)
EXTENDS WorkerManagerProofs, FiniteSetTheorems

-----------------------------------------------------------------------------
(* A hand is a kind of place and its owner: SingleCustody counts positions  *)
(* in queues, which move with every push and pop; hands do not.            *)

Kind == {"arriving", "queue", "bucket", "inbox", "worker", "outbox", "handler",
         "finisher"}

Owner == Bucket \cup Conn \cup {NoConn}

In(s, t) == \E i \in DOMAIN s : s[i] = t

Once(s) == \A i, j \in DOMAIN s : s[i] = s[j] => i = j

Reported(s, t) == \E i \in DOMAIN s : s[i].task = t

ReportedOnce(s) == \A i, j \in DOMAIN s : s[i].task = s[j].task => i = j

Held(t, k, x) ==
    \/ k = "arriving" /\ x = NoConn /\ t \in arriving
    \/ k = "queue"    /\ x \in Bucket /\ In(queue[x], t)
    \/ k = "bucket"   /\ x \in Bucket /\ bucket[x].task = t
    \/ k = "inbox"    /\ x \in Conn /\ In(inbox[x], t)
    \/ k = "worker"   /\ x \in Conn /\ x \notin reported /\ running[x] = t
    \/ k = "outbox"   /\ x \in Conn /\ Reported(outbox[x], t)
    \/ k = "handler"  /\ x \in Conn /\ handler[x].task = t
    \/ k = "finisher" /\ x = NoConn /\ finishers[t] > 0

-----------------------------------------------------------------------------
(* The inductive invariant.                                                *)

Exclusive ==
    \A t \in Task, k, l \in Kind, x, y \in Owner :
        Held(t, k, x) /\ Held(t, l, y) => k = l /\ x = y

NoCopies ==
    /\ \A b \in Bucket : Once(queue[b])
    /\ \A c \in Conn : Once(inbox[c]) /\ ReportedOnce(outbox[c])
    /\ \A t \in Task : finishers[t] <= 1

\* Who waits for work holds none, and no message outlives its SendPayload.
IdleHandsEmpty ==
    /\ \A b \in Bucket : bucket[b].pc = "pop" => bucket[b].task = NoTask
    /\ \A c \in Conn : handler[c].pc = "idle" => handler[c].task = NoTask
    /\ \A c \in Conn : late[c] = NoTask

\* What the object and the document say of a task, by the hand that holds it. Only
\* a cancel makes the document of such a task say finished.
HandOK(t, k, x) ==
    /\ db[t].present /\ (db[t].status = "finished" => db[t].cancelled)
    /\ k \in {"arriving", "queue"} => mem[t].status \in {"pending", "finished"}
    /\ k = "bucket" =>
          IF bucket[x].pc \in {"send", "revert"}
          THEN mem[t].status = "processing" /\ mem[t].worker = bucket[x].conn
          ELSE mem[t].status \in {"pending", "finished"}
    /\ k \in {"inbox", "worker", "outbox"} => mem[t].status = "processing"
    /\ k = "handler" =>
          IF handler[x].pc = "settle"
          THEN mem[t].status = "processing" /\ mem[t].worker = x /\ session[x] # t
          ELSE mem[t].status = "pending"
    /\ k = "finisher" => mem[t].status = "completed"

HandsOK == \A t \in Task, k \in Kind, x \in Owner : Held(t, k, x) => HandOK(t, k, x)

\* GetTaskById finds the object of a task that is processed, and its worker.
ProcessingCached ==
    \A t \in Task : mem[t].status = "processing" => t \in cached /\ mem[t].worker \in Conn

\* The object of a task that was not created yet is as NewTask has it.
Unborn == \A t \in Task : ~db[t].present => mem[t].status = "pending"

Custody ==
    /\ TypeOK /\ Exclusive /\ NoCopies /\ IdleHandsEmpty /\ HandsOK
    /\ ProcessingCached /\ Unborn /\ SessionAgreement

\* A hand from which the task may be started (again).
Spare(t, k, x) ==
    k \in {"arriving", "queue", "bucket"} \/ (k = "handler" /\ handler[x].pc = "enqueue")

\* While a task waits to be started, every attempt it had was a failure that was
\* counted as a retry.
Budget ==
    /\ AttemptBudget
    /\ \A t \in Task : ~db[t].present => attempts[t] = 0
    /\ \A t \in Task, k \in Kind, x \in Owner :
          Held(t, k, x) /\ Spare(t, k, x) => attempts[t] <= mem[t].retried

-----------------------------------------------------------------------------
(* Sequences of distinct tasks under a push and a pop.                      *)

LEMMA AppendOnce ==
    ASSUME NEW S, NEW s \in Seq(S), NEW u \in S
    PROVE  /\ \A t : In(Append(s, u), t) <=> In(s, t) \/ t = u
           /\ Once(s) /\ ~In(s, u) => Once(Append(s, u))
<1>1. /\ DOMAIN Append(s, u) = 1..(Len(s) + 1) /\ DOMAIN s = 1..Len(s)
      /\ \A i \in 1..Len(s) : Append(s, u)[i] = s[i]
      /\ Append(s, u)[Len(s) + 1] = u
  OBVIOUS
<1>2. \A t : In(Append(s, u), t) <=> In(s, t) \/ t = u
  <2> SUFFICES ASSUME NEW t  PROVE In(Append(s, u), t) <=> In(s, t) \/ t = u
    OBVIOUS
  <2>1. In(s, t) => In(Append(s, u), t)
    BY <1>1 DEF In
  <2>2. t = u => In(Append(s, u), t)
    BY <1>1 DEF In
  <2>3. In(Append(s, u), t) => In(s, t) \/ t = u
    BY <1>1 DEF In
  <2> QED  BY <2>1, <2>2, <2>3
<1>3. Once(s) /\ ~In(s, u) => Once(Append(s, u))
  BY <1>1 DEF In, Once
<1> QED  BY <1>2, <1>3

LEMMA TailOnce ==
    ASSUME NEW S, NEW s \in Seq(S), s # <<>>, Once(s)
    PROVE  /\ In(s, Head(s)) /\ Once(Tail(s))
           /\ \A t : In(Tail(s), t) <=> In(s, t) /\ t # Head(s)
<1>1. /\ Len(s) \in Nat \ {0} /\ DOMAIN s = 1..Len(s) /\ Head(s) = s[1]
      /\ DOMAIN Tail(s) = 1..(Len(s) - 1)
      /\ \A i \in 1..(Len(s) - 1) : Tail(s)[i] = s[i + 1]
  OBVIOUS
<1>2. In(s, Head(s))
  BY <1>1 DEF In
<1>3. Once(Tail(s))
  BY <1>1 DEF Once
<1>4. ASSUME NEW t  PROVE In(Tail(s), t) <=> In(s, t) /\ t # Head(s)
  <2>1. In(Tail(s), t) => In(s, t) /\ t # Head(s)
    BY <1>1 DEF In, Once
  <2>2. ASSUME NEW i \in DOMAIN s, s[i] = t, t # Head(s)  PROVE In(Tail(s), t)
    <3>1. i - 1 \in 1..(Len(s) - 1) /\ Tail(s)[i - 1] = t
      BY <1>1, <2>2
    <3> QED  BY <1>1, <3>1 DEF In
  <2> QED  BY <2>1, <2>2 DEF In
<1> QED  BY <1>2, <1>3, <1>4

LEMMA AppendReported ==
    ASSUME NEW s \in Seq(Report), NEW r \in Report
    PROVE  /\ \A t : Reported(Append(s, r), t) <=> Reported(s, t) \/ t = r.task
           /\ ReportedOnce(s) /\ ~Reported(s, r.task) => ReportedOnce(Append(s, r))
<1>1. /\ DOMAIN Append(s, r) = 1..(Len(s) + 1) /\ DOMAIN s = 1..Len(s)
      /\ \A i \in 1..Len(s) : Append(s, r)[i] = s[i]
      /\ Append(s, r)[Len(s) + 1] = r
  OBVIOUS
<1>2. \A t : Reported(Append(s, r), t) <=> Reported(s, t) \/ t = r.task
  <2> SUFFICES ASSUME NEW t
               PROVE  Reported(Append(s, r), t) <=> Reported(s, t) \/ t = r.task
    OBVIOUS
  <2>1. Reported(s, t) => Reported(Append(s, r), t)
    BY <1>1 DEF Reported
  <2>2. t = r.task => Reported(Append(s, r), t)
    BY <1>1 DEF Reported
  <2>3. Reported(Append(s, r), t) => Reported(s, t) \/ t = r.task
    BY <1>1 DEF Reported
  <2> QED  BY <2>1, <2>2, <2>3
<1>3. ReportedOnce(s) /\ ~Reported(s, r.task) => ReportedOnce(Append(s, r))
  BY <1>1 DEF Reported, ReportedOnce
<1> QED  BY <1>2, <1>3

LEMMA TailReported ==
    ASSUME NEW s \in Seq(Report), s # <<>>, ReportedOnce(s)
    PROVE  /\ Head(s) \in Report /\ Reported(s, Head(s).task) /\ ReportedOnce(Tail(s))
           /\ \A t : Reported(Tail(s), t) <=> Reported(s, t) /\ t # Head(s).task
<1>1. /\ Len(s) \in Nat \ {0} /\ DOMAIN s = 1..Len(s) /\ Head(s) = s[1]
      /\ DOMAIN Tail(s) = 1..(Len(s) - 1)
      /\ \A i \in 1..(Len(s) - 1) : Tail(s)[i] = s[i + 1]
  OBVIOUS
<1>2. Head(s) \in Report /\ Reported(s, Head(s).task)
  BY <1>1 DEF Reported
<1>3. ReportedOnce(Tail(s))
  BY <1>1 DEF ReportedOnce
<1>4. ASSUME NEW t  PROVE Reported(Tail(s), t) <=> Reported(s, t) /\ t # Head(s).task
  <2>1. Reported(Tail(s), t) => Reported(s, t) /\ t # Head(s).task
    BY <1>1 DEF Reported, ReportedOnce
  <2>2. ASSUME NEW i \in DOMAIN s, s[i].task = t, t # Head(s).task
        PROVE  Reported(Tail(s), t)
    <3>1. i - 1 \in 1..(Len(s) - 1) /\ Tail(s)[i - 1] = s[i]
      BY <1>1, <2>2
    <3> QED  BY <1>1, <2>2, <3>1 DEF Reported
  <2> QED  BY <2>1, <2>2 DEF Reported
<1> QED  BY <1>2, <1>3, <1>4

-----------------------------------------------------------------------------
(* What a step does to the hands of one kind, and to all hands.             *)

Same(k) == \A t \in Task, x \in Owner : Held(t, k, x)' <=> Held(t, k, x)

Gains(k, u, y) ==
    \A t \in Task, x \in Owner : Held(t, k, x)' <=> Held(t, k, x) \/ (t = u /\ x = y)

Loses(k, u, y) ==
    \A t \in Task, x \in Owner : Held(t, k, x)' <=> Held(t, k, x) /\ ~(t = u /\ x = y)

\* No hand opens or closes.
Stay == \A k \in Kind : Same(k)

\* u goes from its hand to that one, or is let go by all; nothing else happens.
MovesTo(u, l, y) ==
    \A t \in Task, k \in Kind, x \in Owner :
        Held(t, k, x)' <=> IF t = u THEN k = l /\ x = y ELSE Held(t, k, x)

Dropped(u) ==
    \A t \in Task, k \in Kind, x \in Owner : Held(t, k, x)' <=> t # u /\ Held(t, k, x)

\* The weakest of them: only u may turn up where it was not, and only there.
AtMost(u, l, y) ==
    \A t \in Task, k \in Kind, x \in Owner :
        Held(t, k, x)' => IF t = u THEN k = l /\ x = y ELSE Held(t, k, x)

LEMMA Move ==
    ASSUME Exclusive, NEW u \in Task, NEW k \in Kind, NEW l \in Kind, k # l,
           NEW x \in Owner, NEW y \in Owner, Held(u, k, x),
           Loses(k, u, x), Gains(l, u, y), \A m \in Kind \ {k, l} : Same(m)
    PROVE  MovesTo(u, l, y)
<1> SUFFICES ASSUME NEW t \in Task, NEW m \in Kind, NEW z \in Owner
             PROVE  Held(t, m, z)' <=> IF t = u THEN m = l /\ z = y ELSE Held(t, m, z)
  BY DEF MovesTo
<1>1. \A n \in Kind, w \in Owner : Held(u, n, w) => n = k /\ w = x
  BY DEF Exclusive
<1>2. CASE m = k
  BY <1>1, <1>2 DEF Loses
<1>3. CASE m = l
  BY <1>1, <1>3 DEF Gains
<1>4. CASE m \notin {k, l}
  BY <1>1, <1>4 DEF Same
<1> QED  BY <1>2, <1>3, <1>4

LEMMA Drop ==
    ASSUME Exclusive, NEW u \in Task, NEW k \in Kind, NEW x \in Owner, Held(u, k, x),
           Loses(k, u, x), \A m \in Kind \ {k} : Same(m)
    PROVE  Dropped(u)
<1> SUFFICES ASSUME NEW t \in Task, NEW m \in Kind, NEW z \in Owner
             PROVE  Held(t, m, z)' <=> t # u /\ Held(t, m, z)
  BY DEF Dropped
<1>1. \A n \in Kind, w \in Owner : Held(u, n, w) => n = k /\ w = x
  BY DEF Exclusive
<1>2. CASE m = k
  BY <1>1, <1>2 DEF Loses
<1>3. CASE m # k
  BY <1>1, <1>3 DEF Same
<1> QED  BY <1>2, <1>3

LEMMA Bounded ==
    ASSUME Exclusive, NEW u, NEW l \in Kind, NEW y \in Owner
    PROVE  /\ MovesTo(u, l, y) => AtMost(u, l, y)
           /\ Dropped(u) => AtMost(u, l, y)
           /\ Stay /\ (u \in Task => Held(u, l, y)) => AtMost(u, l, y)
<1>1. MovesTo(u, l, y) => AtMost(u, l, y)
  BY DEF MovesTo, AtMost
<1>2. Dropped(u) => AtMost(u, l, y)
  BY DEF Dropped, AtMost
<1>3. Stay /\ (u \in Task => Held(u, l, y)) => AtMost(u, l, y)
  BY DEF Stay, Same, AtMost, Exclusive
<1> QED  BY <1>1, <1>2, <1>3

LEMMA ExclusiveKept ==
    ASSUME Exclusive, NEW u, NEW l, NEW y, AtMost(u, l, y)
    PROVE  Exclusive'
BY DEF Exclusive, AtMost

-----------------------------------------------------------------------------
(* The structures, one by one.                                             *)

LEMMA SameHands ==
    /\ UNCHANGED arriving => Same("arriving")
    /\ UNCHANGED queue => Same("queue")
    /\ UNCHANGED bucket => Same("bucket")
    /\ UNCHANGED inbox => Same("inbox")
    /\ UNCHANGED <<running, reported>> => Same("worker")
    /\ UNCHANGED outbox => Same("outbox")
    /\ UNCHANGED handler => Same("handler")
    /\ UNCHANGED finishers => Same("finisher")
<1>1. UNCHANGED arriving => Same("arriving")
  BY DEF Same, Held
<1>2. UNCHANGED queue => Same("queue")
  BY DEF Same, Held
<1>3. UNCHANGED bucket => Same("bucket")
  BY DEF Same, Held
<1>4. UNCHANGED inbox => Same("inbox")
  BY DEF Same, Held
<1>5. UNCHANGED <<running, reported>> => Same("worker")
  BY DEF Same, Held
<1>6. UNCHANGED outbox => Same("outbox")
  BY DEF Same, Held
<1>7. UNCHANGED handler => Same("handler")
  BY DEF Same, Held
<1>8. UNCHANGED finishers => Same("finisher")
  BY DEF Same, Held
<1> QED  BY <1>1, <1>2, <1>3, <1>4, <1>5, <1>6, <1>7, <1>8

LEMMA PushHand ==
    ASSUME TypeOK, NoCopies, NEW u \in Task, EnqueueTask(u),
           ~Held(u, "queue", TaskBucket(u))
    PROVE  /\ TaskBucket(u) \in Bucket
           /\ Gains("queue", u, TaskBucket(u))
           /\ \A b \in Bucket : Once(queue'[b])
<1> DEFINE d == TaskBucket(u)
<1>1. d \in Bucket
  BY WorkerManagerAssumption DEF TaskBucket
<1>2. queue \in [Bucket -> Seq(Task)] /\ queue' = [queue EXCEPT ![d] = Append(@, u)]
  BY DEF TypeOK, DispatcherOK, EnqueueTask
<1>3. ~In(queue[d], u)
  BY <1>1 DEF Held
<1> HIDE DEF d
<1>4. /\ queue'[d] = Append(queue[d], u) /\ queue[d] \in Seq(Task)
      /\ \A b \in Bucket \ {d} : queue'[b] = queue[b]
  BY <1>1, <1>2
<1>5. /\ Once(queue'[d])
      /\ \A t : In(queue'[d], t) <=> In(queue[d], t) \/ t = u
  <2>1. Once(queue[d])
    BY <1>1 DEF NoCopies
  <2>2. /\ Once(Append(queue[d], u))
        /\ \A t : In(Append(queue[d], u), t) <=> In(queue[d], t) \/ t = u
    BY <1>3, <1>4, <2>1, AppendOnce
  <2> QED  BY <1>4, <2>2
<1>6. \A b \in Bucket : Once(queue'[b])
  BY <1>4, <1>5 DEF NoCopies
<1>7. Gains("queue", u, d)
  <2> SUFFICES ASSUME NEW t \in Task, NEW x \in Owner
               PROVE  Held(t, "queue", x)' <=> Held(t, "queue", x) \/ (t = u /\ x = d)
    BY DEF Gains
  <2>1. /\ Held(t, "queue", x)' <=> x \in Bucket /\ In(queue'[x], t)
        /\ Held(t, "queue", x) <=> x \in Bucket /\ In(queue[x], t)
    BY DEF Held, In
  <2> QED  BY <1>1, <1>4, <1>5, <2>1
<1> QED  BY <1>1, <1>6, <1>7 DEF d

LEMMA PopHand ==
    ASSUME TypeOK, NoCopies, NEW b \in Bucket, queue[b] # <<>>,
           queue' = [queue EXCEPT ![b] = Tail(@)]
    PROVE  /\ Head(queue[b]) \in Task
           /\ Held(Head(queue[b]), "queue", b)
           /\ Loses("queue", Head(queue[b]), b)
           /\ \A d \in Bucket : Once(queue'[d])
<1>1. /\ queue'[b] = Tail(queue[b]) /\ queue[b] \in Seq(Task) /\ Once(queue[b])
      /\ \A d \in Bucket \ {b} : queue'[d] = queue[d]
  BY DEF TypeOK, DispatcherOK, NoCopies
<1> DEFINE u == Head(queue[b])
<1>2. u \in Task
  BY <1>1
<1>3. /\ In(queue[b], u) /\ Once(queue'[b])
      /\ \A t : In(queue'[b], t) <=> In(queue[b], t) /\ t # u
  <2>1. /\ In(queue[b], u) /\ Once(Tail(queue[b]))
        /\ \A t : In(Tail(queue[b]), t) <=> In(queue[b], t) /\ t # u
    BY <1>1, TailOnce
  <2> QED  BY <1>1, <2>1
<1> HIDE DEF u
<1>4. \A d \in Bucket : Once(queue'[d])
  BY <1>1, <1>3 DEF NoCopies
<1>5. Held(u, "queue", b)
  BY <1>3 DEF Held
<1>6. Loses("queue", u, b)
  <2> SUFFICES ASSUME NEW t \in Task, NEW x \in Owner
               PROVE  Held(t, "queue", x)' <=> Held(t, "queue", x) /\ ~(t = u /\ x = b)
    BY DEF Loses
  <2>1. /\ Held(t, "queue", x)' <=> x \in Bucket /\ In(queue'[x], t)
        /\ Held(t, "queue", x) <=> x \in Bucket /\ In(queue[x], t)
    BY DEF Held, In
  <2> QED  BY <1>1, <1>3, <2>1
<1> QED  BY <1>2, <1>4, <1>5, <1>6 DEF u

LEMMA BucketHand ==
    ASSUME NEW b \in Bucket, \A d \in Bucket \ {b} : bucket'[d] = bucket[d]
    PROVE  /\ bucket'[b].task = bucket[b].task => Same("bucket")
           /\ bucket[b].task = NoTask => Gains("bucket", bucket'[b].task, b)
           /\ bucket'[b].task = NoTask => Loses("bucket", bucket[b].task, b)
<1> USE WorkerManagerAssumption
<1>1. bucket'[b].task = bucket[b].task => Same("bucket")
  BY DEF Same, Held
<1>2. bucket[b].task = NoTask => Gains("bucket", bucket'[b].task, b)
  BY DEF Gains, Held
<1>3. bucket'[b].task = NoTask => Loses("bucket", bucket[b].task, b)
  BY DEF Loses, Held
<1> QED  BY <1>1, <1>2, <1>3

LEMMA HandlerHand ==
    ASSUME NEW c \in Conn, \A d \in Conn \ {c} : handler'[d] = handler[d]
    PROVE  /\ handler'[c].task = handler[c].task => Same("handler")
           /\ handler[c].task = NoTask => Gains("handler", handler'[c].task, c)
           /\ handler'[c].task = NoTask => Loses("handler", handler[c].task, c)
<1> USE WorkerManagerAssumption
<1>1. handler'[c].task = handler[c].task => Same("handler")
  BY DEF Same, Held
<1>2. handler[c].task = NoTask => Gains("handler", handler'[c].task, c)
  BY DEF Gains, Held
<1>3. handler'[c].task = NoTask => Loses("handler", handler[c].task, c)
  BY DEF Loses, Held
<1> QED  BY <1>1, <1>2, <1>3

\* A worker process that sent its report is no hand any more.
LEMMA WorkerHand ==
    ASSUME NEW c \in Conn, \A d \in Conn \ {c} : running'[d] = running[d],
           \A d \in Conn \ {c} : d \in reported' <=> d \in reported
    PROVE  /\ running[c] = NoTask /\ c \notin reported'
                 => Gains("worker", running'[c], c)
           /\ c \notin reported /\ (running'[c] = NoTask \/ c \in reported')
                 => Loses("worker", running[c], c)
           /\ c \in reported /\ (running'[c] = NoTask \/ c \in reported')
                 => Same("worker")
           /\ running'[c] = running[c] /\ (c \in reported' <=> c \in reported)
                 => Same("worker")
<1> USE WorkerManagerAssumption
<1>1. running[c] = NoTask /\ c \notin reported' => Gains("worker", running'[c], c)
  BY DEF Gains, Held
<1>2. c \notin reported /\ (running'[c] = NoTask \/ c \in reported')
         => Loses("worker", running[c], c)
  BY DEF Loses, Held
<1>3. c \in reported /\ (running'[c] = NoTask \/ c \in reported') => Same("worker")
  BY DEF Same, Held
<1>4. running'[c] = running[c] /\ (c \in reported' <=> c \in reported) => Same("worker")
  BY DEF Same, Held
<1> QED  BY <1>1, <1>2, <1>3, <1>4

LEMMA InboxPush ==
    ASSUME TypeOK, NoCopies, NEW u \in Task, NEW c \in Conn, ~Held(u, "inbox", c),
           inbox' = [inbox EXCEPT ![c] = Append(@, u)]
    PROVE  Gains("inbox", u, c) /\ \A d \in Conn : Once(inbox'[d])
<1>1. /\ inbox'[c] = Append(inbox[c], u) /\ inbox[c] \in Seq(Task) /\ Once(inbox[c])
      /\ \A d \in Conn \ {c} : inbox'[d] = inbox[d]
  BY DEF TypeOK, RemoteOK, NoCopies
<1>2. ~In(inbox[c], u)
  BY DEF Held
<1>3. /\ Once(inbox'[c])
      /\ \A t : In(inbox'[c], t) <=> In(inbox[c], t) \/ t = u
  <2>1. /\ Once(Append(inbox[c], u))
        /\ \A t : In(Append(inbox[c], u), t) <=> In(inbox[c], t) \/ t = u
    BY <1>1, <1>2, AppendOnce
  <2> QED  BY <1>1, <2>1
<1>4. \A d \in Conn : Once(inbox'[d])
  BY <1>1, <1>3 DEF NoCopies
<1>5. Gains("inbox", u, c)
  <2> SUFFICES ASSUME NEW t \in Task, NEW x \in Owner
               PROVE  Held(t, "inbox", x)' <=> Held(t, "inbox", x) \/ (t = u /\ x = c)
    BY DEF Gains
  <2>1. /\ Held(t, "inbox", x)' <=> x \in Conn /\ In(inbox'[x], t)
        /\ Held(t, "inbox", x) <=> x \in Conn /\ In(inbox[x], t)
    BY DEF Held, In
  <2> QED  BY <1>1, <1>3, <2>1
<1> QED  BY <1>4, <1>5

LEMMA InboxPop ==
    ASSUME TypeOK, NoCopies, NEW c \in Conn, inbox[c] # <<>>,
           inbox' = [inbox EXCEPT ![c] = Tail(@)]
    PROVE  /\ Head(inbox[c]) \in Task
           /\ Held(Head(inbox[c]), "inbox", c)
           /\ Loses("inbox", Head(inbox[c]), c)
           /\ \A d \in Conn : Once(inbox'[d])
<1>1. /\ inbox'[c] = Tail(inbox[c]) /\ inbox[c] \in Seq(Task) /\ Once(inbox[c])
      /\ \A d \in Conn \ {c} : inbox'[d] = inbox[d]
  BY DEF TypeOK, RemoteOK, NoCopies
<1> DEFINE u == Head(inbox[c])
<1>2. Head(inbox[c]) \in Task
  BY <1>1
<1>3. /\ In(inbox[c], u) /\ Once(inbox'[c])
      /\ \A t : In(inbox'[c], t) <=> In(inbox[c], t) /\ t # u
  <2>1. /\ In(inbox[c], u) /\ Once(Tail(inbox[c]))
        /\ \A t : In(Tail(inbox[c]), t) <=> In(inbox[c], t) /\ t # u
    BY <1>1, TailOnce
  <2> QED  BY <1>1, <2>1
<1> HIDE DEF u
<1>4. \A d \in Conn : Once(inbox'[d])
  BY <1>1, <1>3 DEF NoCopies
<1>5. Held(u, "inbox", c)
  BY <1>3 DEF Held
<1>6. Loses("inbox", u, c)
  <2> SUFFICES ASSUME NEW t \in Task, NEW x \in Owner
               PROVE  Held(t, "inbox", x)' <=> Held(t, "inbox", x) /\ ~(t = u /\ x = c)
    BY DEF Loses
  <2>1. /\ Held(t, "inbox", x)' <=> x \in Conn /\ In(inbox'[x], t)
        /\ Held(t, "inbox", x) <=> x \in Conn /\ In(inbox[x], t)
    BY DEF Held, In
  <2> QED  BY <1>1, <1>3, <2>1
<1> QED  BY <1>2, <1>4, <1>5, <1>6 DEF u

LEMMA InboxClear ==
    ASSUME TypeOK, NoCopies, NEW c \in Conn,
           inbox' = inbox \/ inbox' = [inbox EXCEPT ![c] = <<>>]
    PROVE  /\ \A t \in Task, x \in Owner : Held(t, "inbox", x)' => Held(t, "inbox", x)
           /\ \A d \in Conn : Once(inbox'[d])
<1>1. /\ inbox'[c] \in {inbox[c], <<>>}
      /\ \A d \in Conn \ {c} : inbox'[d] = inbox[d]
  BY DEF TypeOK, RemoteOK
<1>2. \A t : ~In(<<>>, t)
  BY DEF In
<1>3. Once(<<>>)
  BY DEF Once
<1>4. \A d \in Conn : Once(inbox'[d])
  BY <1>1, <1>3 DEF NoCopies
<1>5. ASSUME NEW t \in Task, NEW x \in Owner, Held(t, "inbox", x)'
      PROVE  Held(t, "inbox", x)
  <2>1. x \in Conn /\ In(inbox'[x], t)
    BY <1>5 DEF Held, In
  <2>2. In(inbox[x], t)
    BY <1>1, <1>2, <2>1
  <2> QED  BY <2>1, <2>2 DEF Held
<1> QED  BY <1>4, <1>5

LEMMA OutboxPush ==
    ASSUME TypeOK, NoCopies, NEW u \in Report, NEW c \in Conn, ~Held(u.task, "outbox", c),
           outbox' = [outbox EXCEPT ![c] = Append(@, u)]
    PROVE  Gains("outbox", u.task, c) /\ \A d \in Conn : ReportedOnce(outbox'[d])
<1>1. /\ outbox'[c] = Append(outbox[c], u) /\ outbox[c] \in Seq(Report) /\ ReportedOnce(outbox[c])
      /\ \A d \in Conn \ {c} : outbox'[d] = outbox[d]
  BY DEF TypeOK, RemoteOK, NoCopies
<1>2. ~Reported(outbox[c], u.task)
  BY DEF Held
<1>3. /\ ReportedOnce(outbox'[c])
      /\ \A t : Reported(outbox'[c], t) <=> Reported(outbox[c], t) \/ t = u.task
  <2>1. /\ ReportedOnce(Append(outbox[c], u))
        /\ \A t : Reported(Append(outbox[c], u), t) <=> Reported(outbox[c], t) \/ t = u.task
    BY <1>1, <1>2, AppendReported
  <2> QED  BY <1>1, <2>1
<1>4. \A d \in Conn : ReportedOnce(outbox'[d])
  BY <1>1, <1>3 DEF NoCopies
<1>5. Gains("outbox", u.task, c)
  <2> SUFFICES ASSUME NEW t \in Task, NEW x \in Owner
               PROVE  Held(t, "outbox", x)' <=> Held(t, "outbox", x) \/ (t = u.task /\ x = c)
    BY DEF Gains
  <2>1. /\ Held(t, "outbox", x)' <=> x \in Conn /\ Reported(outbox'[x], t)
        /\ Held(t, "outbox", x) <=> x \in Conn /\ Reported(outbox[x], t)
    BY DEF Held, Reported
  <2> QED  BY <1>1, <1>3, <2>1
<1> QED  BY <1>4, <1>5

LEMMA OutboxPop ==
    ASSUME TypeOK, NoCopies, NEW c \in Conn, outbox[c] # <<>>,
           outbox' = [outbox EXCEPT ![c] = Tail(@)]
    PROVE  /\ Head(outbox[c]) \in Report
           /\ Held(Head(outbox[c]).task, "outbox", c)
           /\ Loses("outbox", Head(outbox[c]).task, c)
           /\ \A d \in Conn : ReportedOnce(outbox'[d])
<1>1. /\ outbox'[c] = Tail(outbox[c]) /\ outbox[c] \in Seq(Report) /\ ReportedOnce(outbox[c])
      /\ \A d \in Conn \ {c} : outbox'[d] = outbox[d]
  BY DEF TypeOK, RemoteOK, NoCopies
<1> DEFINE u == Head(outbox[c]).task
<1>2. Head(outbox[c]) \in Report
  BY <1>1
<1>3. /\ Reported(outbox[c], u) /\ ReportedOnce(outbox'[c])
      /\ \A t : Reported(outbox'[c], t) <=> Reported(outbox[c], t) /\ t # u
  <2>1. /\ Reported(outbox[c], u) /\ ReportedOnce(Tail(outbox[c]))
        /\ \A t : Reported(Tail(outbox[c]), t) <=> Reported(outbox[c], t) /\ t # u
    BY <1>1, TailReported
  <2> QED  BY <1>1, <2>1
<1> HIDE DEF u
<1>4. \A d \in Conn : ReportedOnce(outbox'[d])
  BY <1>1, <1>3 DEF NoCopies
<1>5. Held(u, "outbox", c)
  BY <1>3 DEF Held
<1>6. Loses("outbox", u, c)
  <2> SUFFICES ASSUME NEW t \in Task, NEW x \in Owner
               PROVE  Held(t, "outbox", x)' <=> Held(t, "outbox", x) /\ ~(t = u /\ x = c)
    BY DEF Loses
  <2>1. /\ Held(t, "outbox", x)' <=> x \in Conn /\ Reported(outbox'[x], t)
        /\ Held(t, "outbox", x) <=> x \in Conn /\ Reported(outbox[x], t)
    BY DEF Held, Reported
  <2> QED  BY <1>1, <1>3, <2>1
<1> QED  BY <1>2, <1>4, <1>5, <1>6 DEF u

LEMMA OutboxClear ==
    ASSUME TypeOK, NoCopies, NEW c \in Conn,
           outbox' = outbox \/ outbox' = [outbox EXCEPT ![c] = <<>>]
    PROVE  /\ \A t \in Task, x \in Owner : Held(t, "outbox", x)' => Held(t, "outbox", x)
           /\ \A d \in Conn : ReportedOnce(outbox'[d])
<1>1. /\ outbox'[c] \in {outbox[c], <<>>}
      /\ \A d \in Conn \ {c} : outbox'[d] = outbox[d]
  BY DEF TypeOK, RemoteOK
<1>2. \A t : ~Reported(<<>>, t)
  BY DEF Reported
<1>3. ReportedOnce(<<>>)
  BY DEF ReportedOnce
<1>4. \A d \in Conn : ReportedOnce(outbox'[d])
  BY <1>1, <1>3 DEF NoCopies
<1>5. ASSUME NEW t \in Task, NEW x \in Owner, Held(t, "outbox", x)'
      PROVE  Held(t, "outbox", x)
  <2>1. x \in Conn /\ Reported(outbox'[x], t)
    BY <1>5 DEF Held, Reported
  <2>2. Reported(outbox[x], t)
    BY <1>1, <1>2, <2>1
  <2> QED  BY <2>1, <2>2 DEF Held
<1> QED  BY <1>4, <1>5

LEMMA FinisherHand ==
    ASSUME TypeOK, NoCopies, NEW u \in Task
    PROVE  /\ ~Held(u, "finisher", NoConn) /\ finishers' = [finishers EXCEPT ![u] = @ + 1]
                 => Gains("finisher", u, NoConn) /\ \A t \in Task : finishers'[t] <= 1
           /\ finishers[u] > 0 /\ finishers' = [finishers EXCEPT ![u] = @ - 1]
                 => /\ Held(u, "finisher", NoConn) /\ Loses("finisher", u, NoConn)
                    /\ \A t \in Task : finishers'[t] <= 1
<1>1. finishers \in [Task -> Nat] /\ \A t \in Task : finishers[t] <= 1
  BY DEF TypeOK, CountsOK, NoCopies
<1>2. ASSUME ~Held(u, "finisher", NoConn), finishers' = [finishers EXCEPT ![u] = @ + 1]
      PROVE  Gains("finisher", u, NoConn) /\ \A t \in Task : finishers'[t] <= 1
  <2>1. finishers[u] = 0 /\ finishers'[u] = 1 /\ \A t \in Task \ {u} : finishers'[t] = finishers[t]
    BY <1>1, <1>2 DEF Held
  <2> QED  BY <1>1, <2>1 DEF Gains, Held
<1>3. ASSUME finishers[u] > 0, finishers' = [finishers EXCEPT ![u] = @ - 1]
      PROVE  /\ Held(u, "finisher", NoConn) /\ Loses("finisher", u, NoConn)
             /\ \A t \in Task : finishers'[t] <= 1
  <2>1. finishers[u] = 1 /\ finishers'[u] = 0 /\ \A t \in Task \ {u} : finishers'[t] = finishers[t]
    BY <1>1, <1>3
  <2> QED  BY <1>1, <2>1 DEF Loses, Held
<1> QED  BY <1>2, <1>3

LEMMA ArrivingHand ==
    ASSUME NEW u \in Task
    PROVE  /\ arriving' = arriving \cup {u} => Gains("arriving", u, NoConn)
           /\ u \in arriving /\ arriving' = arriving \ {u}
                 => Held(u, "arriving", NoConn) /\ Loses("arriving", u, NoConn)
<1>1. arriving' = arriving \cup {u} => Gains("arriving", u, NoConn)
  BY DEF Gains, Held
<1>2. u \in arriving /\ arriving' = arriving \ {u}
         => Held(u, "arriving", NoConn) /\ Loses("arriving", u, NoConn)
  BY DEF Loses, Held
<1> QED  BY <1>1, <1>2

-----------------------------------------------------------------------------
(* How each action moves a task, and that it copies none.                   *)

\* A task that no hand held is taken up.
LEMMA Arrive ==
    ASSUME NEW u \in Task, NEW l \in Kind, NEW y \in Owner,
           \A k \in Kind, x \in Owner : ~Held(u, k, x),
           Gains(l, u, y), \A m \in Kind \ {l} : Same(m)
    PROVE  MovesTo(u, l, y)
BY DEF MovesTo, Gains, Same

LEMMA Owners ==
    /\ NoConn \in Owner /\ Bucket \subseteq Owner /\ Conn \subseteq Owner
    /\ Kind = {"arriving", "queue", "bucket", "inbox", "worker", "outbox", "handler",
               "finisher"}
BY DEF Owner, Kind

LEMMA CreateMoves ==
    ASSUME Custody, NEW u \in Task, CreateTask(u)
    PROVE  MovesTo(u, "arriving", NoConn) /\ NoCopies'
<1> USE Owners
<1>1. \A k \in Kind, x \in Owner : ~Held(u, k, x)
  BY DEF Custody, HandsOK, HandOK, CreateTask
<1>2. Gains("arriving", u, NoConn) /\ \A m \in Kind \ {"arriving"} : Same(m)
  BY SameHands, ArrivingHand DEF CreateTask, conns, remote
<1>3. MovesTo(u, "arriving", NoConn)
  BY <1>1, <1>2, Arrive
<1>4. NoCopies'
  BY DEF CreateTask, remote, Custody, NoCopies
<1> QED  BY <1>3, <1>4

LEMMA EnqueueMoves ==
    ASSUME Custody, NEW u \in Task, ArrivingEnqueue(u)
    PROVE  /\ TaskBucket(u) \in Bucket /\ Held(u, "arriving", NoConn)
           /\ MovesTo(u, "queue", TaskBucket(u)) /\ NoCopies'
<1> USE Owners DEF Custody
<1>1. Held(u, "arriving", NoConn) /\ Loses("arriving", u, NoConn)
  BY ArrivingHand DEF ArrivingEnqueue
<1>2. TaskBucket(u) \in Bucket
  BY WorkerManagerAssumption DEF TaskBucket
<1>3. ~Held(u, "queue", TaskBucket(u))
  BY <1>1, <1>2 DEF Exclusive
<1>4. Gains("queue", u, TaskBucket(u)) /\ \A b \in Bucket : Once(queue'[b])
  BY <1>3, PushHand DEF ArrivingEnqueue
<1>5. \A m \in Kind \ {"arriving", "queue"} : Same(m)
  BY SameHands DEF ArrivingEnqueue, conns, remote
<1>6. MovesTo(u, "queue", TaskBucket(u))
  BY <1>1, <1>2, <1>4, <1>5, Move
<1>7. NoCopies'
  BY <1>4 DEF ArrivingEnqueue, remote, NoCopies
<1> QED  BY <1>1, <1>2, <1>6, <1>7

LEMMA FinishMoves ==
    ASSUME Custody, NEW u \in Task
    PROVE  /\ TaskFinish(u) =>
                 Held(u, "finisher", NoConn) /\ Dropped(u) /\ NoCopies'
           /\ TaskFinishFails(u) =>
                 /\ TaskBucket(u) \in Bucket /\ Held(u, "finisher", NoConn)
                 /\ MovesTo(u, "queue", TaskBucket(u)) /\ NoCopies'
<1> USE Owners DEF Custody
<1>1. ASSUME TaskFinish(u)
      PROVE  Held(u, "finisher", NoConn) /\ Dropped(u) /\ NoCopies'
  <2>1. /\ Held(u, "finisher", NoConn) /\ Loses("finisher", u, NoConn)
        /\ \A t \in Task : finishers'[t] <= 1
    BY <1>1, FinisherHand DEF TaskFinish
  <2>2. \A m \in Kind \ {"finisher"} : Same(m)
    BY <1>1, SameHands DEF TaskFinish, dispatcher, conns, remote
  <2>3. Dropped(u)
    BY <2>1, <2>2, Drop
  <2>4. NoCopies'
    BY <1>1, <2>1 DEF TaskFinish, dispatcher, remote, NoCopies
  <2> QED  BY <2>1, <2>3, <2>4
<1>2. ASSUME TaskFinishFails(u)
      PROVE  /\ TaskBucket(u) \in Bucket /\ Held(u, "finisher", NoConn)
             /\ MovesTo(u, "queue", TaskBucket(u)) /\ NoCopies'
  <2>1. /\ Held(u, "finisher", NoConn) /\ Loses("finisher", u, NoConn)
        /\ \A t \in Task : finishers'[t] <= 1
    BY <1>2, FinisherHand DEF TaskFinishFails
  <2>2. TaskBucket(u) \in Bucket
    BY WorkerManagerAssumption DEF TaskBucket
  <2>3. ~Held(u, "queue", TaskBucket(u))
    BY <2>1, <2>2 DEF Exclusive
  <2>4. Gains("queue", u, TaskBucket(u)) /\ \A b \in Bucket : Once(queue'[b])
    BY <1>2, <2>3, PushHand DEF TaskFinishFails
  <2>5. \A m \in Kind \ {"finisher", "queue"} : Same(m)
    BY <1>2, SameHands DEF TaskFinishFails, conns, remote
  <2>6. MovesTo(u, "queue", TaskBucket(u))
    BY <2>1, <2>2, <2>4, <2>5, Move
  <2>7. NoCopies'
    BY <1>2, <2>1, <2>4 DEF TaskFinishFails, remote, NoCopies
  <2> QED  BY <2>1, <2>2, <2>6, <2>7
<1> QED  BY <1>1, <1>2

\* A bucket worker that moves on keeps its task in its hand.
InPlace(b) ==
    /\ \A d \in Bucket \ {b} : bucket'[d] = bucket[d]
    /\ bucket'[b].task = bucket[b].task
    /\ UNCHANGED <<arriving, queue, inbox, running, reported, outbox, handler, finishers>>

LEMMA InPlaceStays ==
    ASSUME Custody, NEW b \in Bucket, InPlace(b)
    PROVE  Stay /\ NoCopies'
<1>1. Stay
  BY SameHands, BucketHand, Owners DEF InPlace, Stay
<1>2. NoCopies'
  BY DEF InPlace, Custody, NoCopies
<1> QED  BY <1>1, <1>2

LEMMA PopMoves ==
    ASSUME Custody, NEW b \in Bucket, PopTask(b)
    PROVE  LET u == Head(queue[b]) IN
           /\ u \in Task /\ Held(u, "queue", b) /\ MovesTo(u, "bucket", b) /\ NoCopies'
<1> USE Owners DEF Custody
<1> DEFINE u == Head(queue[b])
<1>1. /\ u \in Task /\ Held(u, "queue", b) /\ Loses("queue", u, b)
      /\ \A d \in Bucket : Once(queue'[d])
  BY PopHand DEF PopTask
<1>2. /\ bucket[b].task = NoTask /\ bucket'[b].task = u
      /\ \A d \in Bucket \ {b} : bucket'[d] = bucket[d]
  BY DEF PopTask, BucketAt, IdleHandsEmpty, TypeOK, DispatcherOK
<1> HIDE DEF u
<1>3. Gains("bucket", u, b)
  BY <1>2, BucketHand
<1>4. \A m \in Kind \ {"queue", "bucket"} : Same(m)
  BY SameHands DEF PopTask, conns, remote
<1>5. MovesTo(u, "bucket", b)
  BY <1>1, <1>3, <1>4, Move
<1>6. NoCopies'
  BY <1>1 DEF PopTask, remote, NoCopies
<1> QED  BY <1>1, <1>5, <1>6 DEF u

\* A bucket worker past its pop is the hand of its task.
LEMMA BucketHolds ==
    ASSUME TypeOK, NEW b \in Bucket, bucket[b].pc # "pop"
    PROVE  bucket[b].task \in Task /\ Held(bucket[b].task, "bucket", b)
BY Holding DEF Held

LEMMA RequeueMoves ==
    ASSUME Custody, NEW b \in Bucket, RequeueTask(b)
    PROVE  LET u == bucket[b].task IN
           /\ u \in Task /\ TaskBucket(u) \in Bucket /\ Held(u, "bucket", b)
           /\ MovesTo(u, "queue", TaskBucket(u)) /\ NoCopies'
<1> USE Owners DEF Custody
<1> DEFINE u == bucket[b].task
<1>1. u \in Task /\ Held(u, "bucket", b)
  BY BucketHolds DEF RequeueTask, BucketAt
<1>2. Loses("bucket", u, b)
  <2>1. bucket'[b].task = NoTask /\ \A d \in Bucket \ {b} : bucket'[d] = bucket[d]
    BY DEF RequeueTask, Idle, TypeOK, DispatcherOK
  <2> QED  BY <2>1, BucketHand
<1>3. EnqueueTask(u)
  BY DEF RequeueTask
<1> HIDE DEF u
<1>4. TaskBucket(u) \in Bucket
  BY <1>1, WorkerManagerAssumption DEF TaskBucket
<1>5. ~Held(u, "queue", TaskBucket(u))
  BY <1>1, <1>4 DEF Exclusive
<1>6. Gains("queue", u, TaskBucket(u)) /\ \A d \in Bucket : Once(queue'[d])
  BY <1>1, <1>3, <1>5, PushHand
<1>7. \A m \in Kind \ {"bucket", "queue"} : Same(m)
  BY SameHands DEF RequeueTask, conns, remote
<1>8. MovesTo(u, "queue", TaskBucket(u))
  BY <1>1, <1>2, <1>4, <1>6, <1>7, Move
<1>9. NoCopies'
  BY <1>6 DEF RequeueTask, remote, NoCopies
<1> QED  BY <1>1, <1>4, <1>8, <1>9 DEF u

LEMMA SendMoves ==
    ASSUME Custody, NEW b \in Bucket, SendOk(b)
    PROVE  LET u == bucket[b].task
               c == bucket[b].conn
           IN /\ u \in Task /\ c \in Conn /\ Held(u, "bucket", b)
              /\ MovesTo(u, "inbox", c) \/ Dropped(u)
              /\ NoCopies'
<1> USE Owners DEF Custody
<1> DEFINE u == bucket[b].task
           c == bucket[b].conn
<1>1. u \in Task /\ Held(u, "bucket", b) /\ c \in Conn
  BY BucketHolds, Holding DEF SendOk, BucketAt
<1>2. Loses("bucket", u, b)
  <2>1. bucket'[b].task = NoTask /\ \A d \in Bucket \ {b} : bucket'[d] = bucket[d]
    BY DEF SendOk, Idle, TypeOK, DispatcherOK
  <2> QED  BY <2>1, BucketHand
<1>3. inbox' = [inbox EXCEPT ![c] = Append(@, u)] \/ inbox' = inbox
  BY DEF SendOk
<1> HIDE DEF u, c
<1>4. \A m \in Kind \ {"bucket", "inbox"} : Same(m)
  BY SameHands DEF SendOk, conns
<1>5. ASSUME inbox' = [inbox EXCEPT ![c] = Append(@, u)]
      PROVE  MovesTo(u, "inbox", c) /\ NoCopies'
  <2>1. ~Held(u, "inbox", c)
    BY <1>1 DEF Exclusive
  <2>2. Gains("inbox", u, c) /\ \A d \in Conn : Once(inbox'[d])
    BY <1>1, <1>5, <2>1, InboxPush
  <2>3. MovesTo(u, "inbox", c)
    BY <1>1, <1>2, <1>4, <2>2, Move
  <2> QED  BY <2>2, <2>3 DEF SendOk, NoCopies
<1>6. ASSUME inbox' = inbox  PROVE Dropped(u) /\ NoCopies'
  <2>1. \A m \in Kind \ {"bucket"} : Same(m)
    BY <1>4, <1>6, SameHands
  <2>2. Dropped(u)
    BY <1>1, <1>2, <2>1, Drop
  <2> QED  BY <1>6, <2>2 DEF SendOk, NoCopies
<1> QED  BY <1>1, <1>3, <1>5, <1>6 DEF u, c

LEMMA ReceiveMoves ==
    ASSUME Custody, NEW c \in Conn, WorkerReceive(c)
    PROVE  LET u == Head(inbox[c]) IN
           /\ u \in Task /\ Held(u, "inbox", c)
           /\ MovesTo(u, "worker", c) \/ Dropped(u)
           /\ NoCopies'
<1> USE Owners DEF Custody
<1> DEFINE u == Head(inbox[c])
<1>1. /\ u \in Task /\ Held(u, "inbox", c) /\ Loses("inbox", u, c)
      /\ \A d \in Conn : Once(inbox'[d])
  BY InboxPop DEF WorkerReceive
<1>2. /\ \A d \in Conn \ {c} : running'[d] = running[d]
      /\ running'[c] = IF running[c] = NoTask THEN u ELSE running[c]
      /\ reported' = reported
  BY DEF WorkerReceive, TypeOK, RemoteOK
<1> HIDE DEF u
<1>3. \A m \in Kind \ {"inbox", "worker"} : Same(m)
  BY SameHands DEF WorkerReceive, dispatcher, conns
<1>4. NoCopies'
  BY <1>1 DEF WorkerReceive, dispatcher, NoCopies
<1>5. CASE running[c] = NoTask /\ c \notin reported
  <2>1. Gains("worker", u, c)
    BY <1>2, <1>5, WorkerHand
  <2>2. MovesTo(u, "worker", c)
    BY <1>1, <1>3, <2>1, Move
  <2> QED  BY <1>1, <1>4, <2>2 DEF u
<1>6. CASE running[c] # NoTask \/ c \in reported
  <2>1. Same("worker")
    BY <1>2, <1>6, WorkerHand
  <2>2. \A m \in Kind \ {"inbox"} : Same(m)
    BY <1>3, <2>1
  <2>3. Dropped(u)
    BY <1>1, <2>2, Drop
  <2> QED  BY <1>1, <1>4, <2>3 DEF u
<1> QED  BY <1>5, <1>6

LEMMA ReportMoves ==
    ASSUME Custody, NEW c \in Conn, NEW failed \in BOOLEAN, WorkerReport(c, failed)
    PROVE  LET u == running[c] IN
           /\ u \in Task /\ Held(u, "worker", c)
           /\ IF life[c] \in Gone THEN Dropped(u) ELSE MovesTo(u, "outbox", c)
           /\ NoCopies'
<1> USE Owners DEF Custody
<1> DEFINE u == running[c]
           r == [task |-> u, failed |-> failed]
<1>1. u \in Task /\ Held(u, "worker", c)
  BY DEF WorkerReport, TypeOK, RemoteOK, Held
<1>2. Loses("worker", u, c)
  <2>1. /\ \A d \in Conn \ {c} : running'[d] = running[d]
        /\ \A d \in Conn \ {c} : d \in reported' <=> d \in reported
        /\ c \notin reported /\ (running'[c] = NoTask \/ c \in reported')
    BY DEF WorkerReport, TypeOK, RemoteOK
  <2> QED  BY <2>1, WorkerHand
<1>3. outbox' = IF life[c] \in Gone THEN outbox
                ELSE [outbox EXCEPT ![c] = Append(@, r)]
  BY DEF WorkerReport
<1>4. r \in Report /\ r.task = u
  BY <1>1 DEF Report
<1> HIDE DEF u, r
<1>5. \A m \in Kind \ {"worker", "outbox"} : Same(m)
  BY SameHands DEF WorkerReport, dispatcher, conns
<1>6. CASE life[c] \in Gone
  <2>1. \A m \in Kind \ {"worker"} : Same(m)
    BY <1>3, <1>5, <1>6, SameHands
  <2>2. Dropped(u)
    BY <1>1, <1>2, <2>1, Drop
  <2>3. NoCopies'
    BY <1>3, <1>6 DEF WorkerReport, dispatcher, NoCopies
  <2> QED  BY <1>1, <1>6, <2>2, <2>3 DEF u
<1>7. CASE life[c] \notin Gone
  <2>1. ~Held(r.task, "outbox", c)
    BY <1>1, <1>4 DEF Exclusive
  <2>2. Gains("outbox", u, c) /\ \A d \in Conn : ReportedOnce(outbox'[d])
    BY <1>3, <1>4, <1>7, <2>1, OutboxPush
  <2>3. MovesTo(u, "outbox", c)
    BY <1>1, <1>2, <1>5, <2>2, Move
  <2>4. NoCopies'
    BY <2>2 DEF WorkerReport, dispatcher, NoCopies
  <2> QED  BY <1>1, <1>7, <2>3, <2>4 DEF u
<1> QED  BY <1>6, <1>7

\* A report that cannot be encoded takes the attempt with it.
LEMMA SwallowMoves ==
    ASSUME Custody, NEW c \in Conn, WorkerSwallows(c)
    PROVE  LET u == running[c] IN
           u \in Task /\ Held(u, "worker", c) /\ Dropped(u) /\ NoCopies'
<1> USE Owners DEF Custody
<1> DEFINE u == running[c]
<1>1. u \in Task /\ Held(u, "worker", c)
  BY DEF WorkerSwallows, TypeOK, RemoteOK, Held
<1>2. Loses("worker", u, c)
  <2>1. /\ \A d \in Conn \ {c} : running'[d] = running[d]
        /\ reported' = reported /\ c \notin reported /\ running'[c] = NoTask
    BY DEF WorkerSwallows, TypeOK, RemoteOK
  <2> QED  BY <2>1, WorkerHand
<1> HIDE DEF u
<1>3. \A m \in Kind \ {"worker"} : Same(m)
  BY SameHands DEF WorkerSwallows, dispatcher, conns
<1>4. Dropped(u)
  BY <1>1, <1>2, <1>3, Drop
<1>5. NoCopies'
  BY DEF WorkerSwallows, dispatcher, NoCopies
<1> QED  BY <1>1, <1>4, <1>5 DEF u

\* current_task is cleared after the report was sent: the hand closed with it.
LEMMA WorkerIdleStays ==
    ASSUME Custody, NEW c \in Conn, WorkerIdle(c)
    PROVE  Stay /\ NoCopies'
<1> USE Owners DEF Custody
<1>1. /\ \A d \in Conn \ {c} : running'[d] = running[d]
      /\ \A d \in Conn \ {c} : d \in reported' <=> d \in reported
      /\ c \in reported /\ running'[c] = NoTask
  BY DEF WorkerIdle, TypeOK, RemoteOK
<1>2. Same("worker")
  BY <1>1, WorkerHand
<1>3. Stay
  BY <1>2, SameHands DEF WorkerIdle, dispatcher, conns, Stay
<1>4. NoCopies'
  BY DEF WorkerIdle, dispatcher, NoCopies
<1> QED  BY <1>3, <1>4

LEMMA HandleMoves ==
    ASSUME Custody, NEW c \in Conn
    PROVE  LET u == Head(outbox[c]).task IN
           /\ HandleReport(c) =>
                 /\ u \in Task /\ Held(u, "outbox", c)
                 /\ MovesTo(u, "handler", c) /\ NoCopies'
           /\ RejectReport(c) =>
                 u \in Task /\ Held(u, "outbox", c) /\ Dropped(u) /\ NoCopies'
<1> USE Owners DEF Custody
<1> DEFINE u == Head(outbox[c]).task
<1>1. ASSUME HandleReport(c) \/ RejectReport(c)
      PROVE  /\ u \in Task /\ Held(u, "outbox", c) /\ Loses("outbox", u, c)
             /\ \A d \in Conn : ReportedOnce(outbox'[d])
  BY <1>1, OutboxPop DEF HandleReport, RejectReport, Report
<1>2. ASSUME HandleReport(c)
      PROVE  MovesTo(u, "handler", c) /\ NoCopies'
  <2>1. /\ handler[c].task = NoTask /\ handler'[c].task = u
        /\ \A d \in Conn \ {c} : handler'[d] = handler[d]
    BY <1>2 DEF HandleReport, IdleHandsEmpty, TypeOK, ConnsOK
  <2> HIDE DEF u
  <2>2. Gains("handler", u, c)
    BY <2>1, HandlerHand
  <2>3. \A m \in Kind \ {"outbox", "handler"} : Same(m)
    BY <1>2, SameHands DEF HandleReport, dispatcher
  <2>4. MovesTo(u, "handler", c)
    BY <1>1, <1>2, <2>2, <2>3, Move
  <2>5. NoCopies'
    BY <1>1, <1>2 DEF HandleReport, dispatcher, NoCopies
  <2> QED  BY <2>4, <2>5
<1>3. ASSUME RejectReport(c)
      PROVE  Dropped(u) /\ NoCopies'
  <2> HIDE DEF u
  <2>1. \A m \in Kind \ {"outbox"} : Same(m)
    BY <1>3, SameHands DEF RejectReport, dispatcher, conns
  <2>2. Dropped(u)
    BY <1>1, <1>3, <2>1, Drop
  <2>3. NoCopies'
    BY <1>1, <1>3 DEF RejectReport, dispatcher, conns, NoCopies
  <2> QED  BY <2>2, <2>3
<1> QED  BY <1>1, <1>2, <1>3

\* A handler at work is the hand of its task.
LEMMA HandlerHolds ==
    ASSUME TypeOK, NEW c \in Conn, handler[c].pc # "idle"
    PROVE  handler[c].task \in Task /\ Held(handler[c].task, "handler", c)
BY DEF TypeOK, ConnsOK, Held

LEMMA CompleteMoves ==
    ASSUME Custody, NEW c \in Conn, TaskComplete(c)
    PROVE  LET u == handler[c].task
               s == Settled(u).status
           IN /\ u \in Task /\ Held(u, "handler", c)
              /\ s = "pending" => Stay
              /\ s = "completed" => MovesTo(u, "finisher", NoConn)
              /\ s \notin {"pending", "completed"} => Dropped(u)
              /\ NoCopies'
<1> USE Owners DEF Custody
<1> DEFINE u == handler[c].task
           s == Settled(u).status
<1>1. u \in Task /\ Held(u, "handler", c)
  BY HandlerHolds DEF TaskComplete
<1>2. /\ \A d \in Conn \ {c} : handler'[d] = handler[d]
      /\ handler'[c].task = IF s = "pending" THEN u ELSE NoTask
      /\ finishers' = [finishers EXCEPT ![u] = IF s = "completed" THEN @ + 1 ELSE @]
  BY DEF TaskComplete, TypeOK, ConnsOK
<1>3. \A m \in Kind \ {"handler", "finisher"} : Same(m)
  BY SameHands DEF TaskComplete, dispatcher, remote
<1>4. handler'[c].task = NoTask => Loses("handler", u, c)
  BY <1>2, HandlerHand
<1>5. s = "pending" => Same("handler")
  BY <1>2, HandlerHand
<1>6. UNCHANGED <<queue, inbox, outbox>>
  BY DEF TaskComplete, dispatcher, remote
<1> HIDE DEF u, s
<1>7. s # "completed" => UNCHANGED finishers
  BY <1>1, <1>2 DEF TypeOK, CountsOK
<1>8. CASE s = "completed"
  <2>1. ~Held(u, "finisher", NoConn)
    BY <1>1 DEF Exclusive
  <2>2. finishers' = [finishers EXCEPT ![u] = @ + 1]
    BY <1>2, <1>8
  <2>3. Gains("finisher", u, NoConn) /\ \A t \in Task : finishers'[t] <= 1
    BY <1>1, <2>1, <2>2, FinisherHand
  <2>4. MovesTo(u, "finisher", NoConn)
    BY <1>1, <1>2, <1>3, <1>4, <1>8, <2>3, Move
  <2>5. NoCopies'
    BY <1>6, <2>3 DEF NoCopies
  <2> QED  BY <1>1, <1>8, <2>4, <2>5 DEF u, s
<1>9. CASE s # "completed"
  <2>1. Same("finisher") /\ NoCopies'
    BY <1>6, <1>7, <1>9, SameHands DEF NoCopies
  <2>2. s = "pending" => Stay
    BY <1>3, <1>5, <2>1 DEF Stay
  <2>3. ASSUME s # "pending"  PROVE Dropped(u)
    <3>1. \A m \in Kind \ {"handler"} : Same(m)
      BY <1>3, <2>1
    <3> QED  BY <1>1, <1>2, <1>4, <2>3, <3>1, Drop
  <2> QED  BY <1>1, <1>9, <2>1, <2>2, <2>3 DEF u, s
<1> QED  BY <1>8, <1>9

LEMMA CompleteEnqueueMoves ==
    ASSUME Custody, NEW c \in Conn, TaskCompleteEnqueue(c)
    PROVE  LET u == handler[c].task IN
           /\ u \in Task /\ TaskBucket(u) \in Bucket /\ Held(u, "handler", c)
           /\ MovesTo(u, "queue", TaskBucket(u)) /\ NoCopies'
<1> USE Owners DEF Custody
<1> DEFINE u == handler[c].task
<1>1. u \in Task /\ Held(u, "handler", c) /\ EnqueueTask(u)
  BY HandlerHolds DEF TaskCompleteEnqueue
<1>2. Loses("handler", u, c)
  <2>1. handler'[c].task = NoTask /\ \A d \in Conn \ {c} : handler'[d] = handler[d]
    BY DEF TaskCompleteEnqueue, TypeOK, ConnsOK
  <2> QED  BY <2>1, HandlerHand
<1> HIDE DEF u
<1>3. TaskBucket(u) \in Bucket
  BY <1>1, WorkerManagerAssumption DEF TaskBucket
<1>4. ~Held(u, "queue", TaskBucket(u))
  BY <1>1, <1>3 DEF Exclusive
<1>5. Gains("queue", u, TaskBucket(u)) /\ \A d \in Bucket : Once(queue'[d])
  BY <1>1, <1>4, PushHand
<1>6. \A m \in Kind \ {"handler", "queue"} : Same(m)
  BY SameHands DEF TaskCompleteEnqueue, remote
<1>7. MovesTo(u, "queue", TaskBucket(u))
  BY <1>1, <1>2, <1>3, <1>5, <1>6, Move
<1>8. NoCopies'
  BY <1>5 DEF TaskCompleteEnqueue, remote, NoCopies
<1> QED  BY <1>1, <1>3, <1>7, <1>8 DEF u

\* A connection comes or goes: what was on its way may be lost, no more.
LEMMA ConnectionMoves ==
    ASSUME Custody, NEW c \in Conn,
           \/ HandleRegister(c) \/ StoreSession(c) \/ RegisterResponseOk(c)
           \/ RegisterResponseFails(c) \/ Unregister(c)
    PROVE  AtMost(NoTask, "worker", c) /\ NoCopies'
<1> USE Owners DEF Custody
<1>1. /\ inbox' = inbox \/ inbox' = [inbox EXCEPT ![c] = <<>>]
      /\ outbox' = outbox \/ outbox' = [outbox EXCEPT ![c] = <<>>]
      /\ UNCHANGED <<dispatcher, handler, running, reported, finishers>>
  BY DEF HandleRegister, StoreSession, RegisterResponseOk, RegisterResponseFails, Unregister,
         RemoveConnection, CloseChannel, remote
<1>2. /\ \A t \in Task, x \in Owner : Held(t, "inbox", x)' => Held(t, "inbox", x)
      /\ \A t \in Task, x \in Owner : Held(t, "outbox", x)' => Held(t, "outbox", x)
      /\ \A d \in Conn : Once(inbox'[d]) /\ ReportedOnce(outbox'[d])
  BY <1>1, InboxClear, OutboxClear
<1>3. \A m \in Kind \ {"inbox", "outbox"} : Same(m)
  BY <1>1, SameHands DEF dispatcher
<1>4. AtMost(NoTask, "worker", c)
  <2> SUFFICES ASSUME NEW t \in Task, NEW k \in Kind, NEW x \in Owner, Held(t, k, x)'
               PROVE  Held(t, k, x)
    BY WorkerManagerAssumption DEF AtMost
  <2>1. CASE k \in {"inbox", "outbox"}
    BY <1>2, <2>1
  <2>2. CASE k \notin {"inbox", "outbox"}
    BY <1>3, <2>2 DEF Same
  <2> QED  BY <2>1, <2>2
<1>5. NoCopies'
  BY <1>1, <1>2 DEF dispatcher, NoCopies
<1> QED  BY <1>4, <1>5

\* The task a worker process brings along, unless it has reported it.
Brought(d) == IF d \in reported THEN NoTask ELSE running[d]

LEMMA ReconnectMoves ==
    ASSUME Custody, NEW c \in Conn, NEW d \in Conn, Reconnect(c, d)
    PROVE  /\ Brought(d) \in Task => Held(Brought(d), "worker", d)
           /\ AtMost(Brought(d), "worker", c) /\ NoCopies'
<1> USE Owners DEF Custody
<1> DEFINE u == Brought(d)
<1>1. u \in Task => Held(u, "worker", d)
  BY WorkerManagerAssumption DEF Brought, Held
<1>2. /\ \A t \in Task, x \in Owner : Held(t, "inbox", x)' => Held(t, "inbox", x)
      /\ \A e \in Conn : Once(inbox'[e])
  BY InboxClear DEF Reconnect
<1>3. NoCopies'
  BY <1>2 DEF Reconnect, dispatcher, NoCopies
<1>4. \A m \in Kind \ {"inbox", "worker"} : Same(m)
  BY SameHands DEF Reconnect, dispatcher
<1>5. AtMost(u, "worker", c)
  <2> SUFFICES ASSUME NEW t \in Task, NEW k \in Kind, NEW x \in Owner, Held(t, k, x)'
               PROVE  IF t = u THEN k = "worker" /\ x = c ELSE Held(t, k, x)
    BY DEF AtMost
  <2>1. CASE k # "worker"
    <3>1. Held(t, k, x)
      BY <1>2, <1>4, <2>1 DEF Same
    <3> QED  BY <1>1, <2>1, <3>1 DEF Exclusive
  <2>2. CASE k = "worker"
    <3>1. x \in Conn /\ x \notin reported' /\ running'[x] = t
      BY <2>2 DEF Held
    <3>2. /\ c # d /\ running'[c] = running[d] /\ running'[d] = NoTask
          /\ \A e \in Conn \ {c, d} : running'[e] = running[e]
          /\ \A e \in Conn \ {c, d} : e \in reported' <=> e \in reported
          /\ d \in reported => c \in reported'
      BY DEF Reconnect, TypeOK, RemoteOK, Gone
    <3>3. CASE x = c
      BY <2>2, <3>1, <3>2, <3>3 DEF Brought
    <3>4. CASE x # c
      <4>1. x # d
        BY <3>1, <3>2, WorkerManagerAssumption
      <4>2. Held(t, "worker", x)
        BY <3>1, <3>2, <3>4, <4>1 DEF Held
      <4> QED  BY <1>1, <2>2, <4>1, <4>2 DEF Exclusive
    <3> QED  BY <3>3, <3>4
  <2> QED  BY <2>1, <2>2
<1> HIDE DEF u
<1> QED  BY <1>1, <1>3, <1>5 DEF u

-----------------------------------------------------------------------------
(* What a step may leave of HandsOK and SessionAgreement to show.           *)

Claims == {"record", "send", "revert", "clear"}

\* Only what is said of the task that moves can change.
LEMMA HandsKept ==
    ASSUME HandsOK, NEW u, NEW l \in Kind, NEW y \in Owner, AtMost(u, l, y),
           u \in Task /\ Held(u, l, y)' => HandOK(u, l, y)',
           \A t \in Task \ {u} : mem'[t] = mem[t] /\ db'[t] = db[t],
           \A b \in Bucket : bucket[b].task \in Task \ {u} => bucket'[b] = bucket[b],
           \A c \in Conn : handler[c].task \in Task \ {u} =>
               handler'[c] = handler[c] /\ session'[c] \in {session[c], u, NoTask}
    PROVE  HandsOK'
<1> SUFFICES ASSUME NEW t \in Task, NEW k \in Kind, NEW x \in Owner, Held(t, k, x)'
             PROVE  HandOK(t, k, x)'
  BY DEF HandsOK
<1>1. CASE t = u
  BY <1>1 DEF AtMost
<1>2. CASE t # u
  <2>1. Held(t, k, x) /\ HandOK(t, k, x)
    BY <1>2 DEF AtMost, HandsOK
  <2>2. mem'[t] = mem[t] /\ db'[t] = db[t]
    BY <1>2
  <2>3. k = "bucket" => bucket'[x] = bucket[x]
    BY <1>2, <2>1 DEF Held
  <2>4. k = "handler" => handler'[x] = handler[x] /\ session'[x] \in {session[x], u, NoTask}
    BY <1>2, <2>1 DEF Held
  <2> QED
    BY <1>2, <2>1, <2>2, <2>3, <2>4, WorkerManagerAssumption DEF HandOK
<1> QED  BY <1>1, <1>2

\* Nothing that a task's record or a session says has changed.
LEMMA AgreementKept ==
    ASSUME TypeOK, SessionAgreement, UNCHANGED <<session>>,
           \A t \in Task : mem'[t].status = mem[t].status /\ mem'[t].worker = mem[t].worker,
           \A b \in Bucket : bucket[b].pc \in Claims \/ bucket'[b].pc \in Claims =>
               /\ bucket[b].pc \in Claims /\ bucket'[b].pc \in Claims
               /\ bucket'[b].task = bucket[b].task /\ bucket'[b].conn = bucket[b].conn,
           \A c \in Conn : handler[c].pc = "settle" \/ handler'[c].pc = "settle" =>
               handler'[c] = handler[c],
           ProcessingCached
    PROVE  SessionAgreement'
<1>1. ASSUME NEW c \in Conn, session'[c] # NoTask
      PROVE  \/ mem'[session'[c]].status = "processing" /\ mem'[session'[c]].worker = c
             \/ \E b \in Bucket : /\ bucket'[b].pc \in Claims
                                  /\ bucket'[b].conn = c /\ bucket'[b].task = session'[c]
  <2>1. session'[c] = session[c] /\ session[c] \in Task
    BY <1>1 DEF TypeOK, ConnsOK
  <2>2. \/ mem[session[c]].status = "processing" /\ mem[session[c]].worker = c
        \/ \E b \in Bucket : /\ bucket[b].pc \in Claims
                             /\ bucket[b].conn = c /\ bucket[b].task = session[c]
    BY <1>1, <2>1 DEF SessionAgreement, Claims
  <2> QED  BY <2>1, <2>2
<1>2. ASSUME NEW b \in Bucket, bucket'[b].pc \in Claims
      PROVE  session'[bucket'[b].conn] = bucket'[b].task
  BY <1>2 DEF SessionAgreement, Claims
<1>3. ASSUME NEW t \in Task, mem'[t].status = "processing"
      PROVE  \/ session'[mem'[t].worker] = t
             \/ handler'[mem'[t].worker] = [pc |-> "settle", task |-> t]
  <2>1. mem[t].status = "processing" /\ mem'[t].worker = mem[t].worker /\ mem[t].worker \in Conn
    BY <1>3 DEF ProcessingCached
  <2>2. session[mem[t].worker] = t \/ handler[mem[t].worker] = [pc |-> "settle", task |-> t]
    BY <2>1 DEF SessionAgreement
  <2> QED  BY <2>1, <2>2
<1> QED  BY <1>1, <1>2, <1>3 DEF SessionAgreement, Claims

\* What the records of a task say of its place in the cache and of its birth.
LEMMA RecordsKept ==
    ASSUME ProcessingCached, Unborn, NEW u,
           \A t \in Task \ {u} : mem'[t] = mem[t] /\ db'[t] = db[t],
           \A t \in Task \ {u} : t \in cached => t \in cached',
           u \in Task =>
               /\ db'[u].present
               /\ mem'[u].status = "processing" => u \in cached' /\ mem'[u].worker \in Conn
    PROVE  ProcessingCached' /\ Unborn'
BY DEF ProcessingCached, Unborn

\* A task in a hand has been created, and is in no other hand.
LEMMA HeldOnce ==
    ASSUME Custody, NEW u \in Task, NEW k \in Kind, NEW x \in Owner, Held(u, k, x)
    PROVE  /\ HandOK(u, k, x) /\ db[u].present /\ (db[u].status = "finished" => db[u].cancelled)
           /\ \A l \in Kind, y \in Owner : Held(u, l, y) => l = k /\ y = x
BY DEF Custody, Exclusive, HandsOK, HandOK

-----------------------------------------------------------------------------
(* Custody is inductive, action by action.                                 *)

LEMMA CustodyInit == Init => Custody
<1> SUFFICES ASSUME Init  PROVE Custody
  OBVIOUS
<1> USE WorkerManagerAssumption
<1>1. TypeOK
  BY TypeInit
<1>2. \A t \in Task : mem[t].status = "pending"
  BY DEF Init, NewTask
<1>3. \A t \in Task, k \in Kind, x \in Owner :
         Held(t, k, x) => k = "arriving" /\ x = NoConn /\ t \in InitialTasks
  <2> SUFFICES ASSUME NEW t \in Task, NEW k \in Kind, NEW x \in Owner, Held(t, k, x)
               PROVE  k = "arriving" /\ x = NoConn /\ t \in InitialTasks
    OBVIOUS
  <2>1. \A b \in Bucket : ~In(queue[b], t)
    BY DEF Init, In
  <2>2. \A c \in Conn : ~In(inbox[c], t) /\ ~Reported(outbox[c], t)
    BY DEF Init, In, Reported
  <2>3. \A b \in Bucket : bucket[b].task = NoTask
    BY DEF Init
  <2>4. \A c \in Conn : handler[c].task = NoTask /\ running[c] = NoTask
    BY DEF Init
  <2>5. ~(finishers[t] > 0) /\ arriving = InitialTasks
    BY DEF Init
  <2> QED  BY <2>1, <2>2, <2>3, <2>4, <2>5 DEF Held
<1>4. Exclusive
  BY <1>3 DEF Exclusive
<1>5. NoCopies
  BY DEF Init, NoCopies, Once, ReportedOnce
<1>6. IdleHandsEmpty
  BY DEF Init, IdleHandsEmpty
<1>7. HandsOK
  <2> SUFFICES ASSUME NEW t \in InitialTasks  PROVE HandOK(t, "arriving", NoConn)
    BY <1>3 DEF HandsOK
  <2>1. db[t].present = TRUE /\ db[t].status = "pending"
    BY DEF Init
  <2> QED  BY <1>2, <2>1 DEF HandOK
<1>8. ProcessingCached /\ Unborn
  BY <1>2 DEF ProcessingCached, Unborn
<1>9. SessionAgreement
  <2>1. /\ \A c \in Conn : session[c] = NoTask
        /\ \A b \in Bucket : bucket[b].pc = "pop"
    BY DEF Init
  <2> QED  BY <1>2, <2>1 DEF SessionAgreement
<1> QED  BY <1>1, <1>4, <1>5, <1>6, <1>7, <1>8, <1>9 DEF Custody

\* A cancel reads a document, or replaces one: the dispatcher is not concerned.
LEMMA CustodyCancel ==
    ASSUME Custody, TypeOK', NEW u \in Task, CancelRead(u) \/ CancelWrite(u)
    PROVE  Custody'
<1>1. UNCHANGED <<mem, cached, dispatcher, conns, remote, finishers>>
  BY DEF CancelRead, CancelWrite
<1>2. \A t \in Task : db'[t] = db[t] \/ (db'[t].present /\ db'[t].cancelled)
  <2>1. CASE CancelRead(u)
    BY <2>1 DEF CancelRead
  <2>2. CASE CancelWrite(u)
    <3>1. PICK w : db' = [db EXCEPT ![u] = [present |-> TRUE, status |-> "finished",
                                            worker |-> w, cancelled |-> TRUE]]
      BY <2>2 DEF CancelWrite
    <3>2. db'[u].present /\ db'[u].cancelled /\ \A t \in Task \ {u} : db'[t] = db[t]
      BY <3>1 DEF Custody, TypeOK, ObjectsOK
    <3> QED  BY <3>2
  <2> QED  BY <2>1, <2>2
<1>3. Stay /\ Exclusive /\ NoCopies'
  BY <1>1, SameHands, Owners DEF dispatcher, conns, remote, Stay, Custody, NoCopies
<1>4. HandsOK' /\ Exclusive'
  <2>1. ASSUME NEW t \in Task, NEW k \in Kind, NEW x \in Owner
        PROVE  /\ Held(t, k, x)' <=> Held(t, k, x)
               /\ HandOK(t, k, x) => HandOK(t, k, x)'
    BY <1>1, <1>2, <1>3 DEF Stay, Same, HandOK, dispatcher, conns
  <2> QED  BY <1>3, <2>1 DEF Custody, HandsOK, Exclusive
<1>5. ProcessingCached' /\ Unborn' /\ IdleHandsEmpty'
  BY <1>1, <1>2
  DEF Custody, dispatcher, conns, remote, ProcessingCached, Unborn, IdleHandsEmpty
<1>6. SessionAgreement'
  BY <1>1 DEF Custody, dispatcher, conns, SessionAgreement
<1> QED  BY <1>3, <1>4, <1>5, <1>6 DEF Custody

LEMMA CustodyApi ==
    ASSUME Custody, TypeOK', NEW u \in Task, Api(u)
    PROVE  Custody'
<1> USE Owners
<1>1. TypeOK /\ Exclusive /\ IdleHandsEmpty /\ HandsOK /\ ProcessingCached /\ Unborn
      /\ SessionAgreement
  BY DEF Custody
<1>2. CASE CreateTask(u)
  <2>1. AtMost(u, "arriving", NoConn) /\ NoCopies'
    BY <1>1, <1>2, CreateMoves, Bounded
  <2>2. mem[u].status = "pending" /\ mem' = mem
    BY <1>1, <1>2 DEF CreateTask, Unborn
  <2>3. db'[u].present /\ db'[u].status = mem[u].status /\ \A t \in Task \ {u} : db'[t] = db[t]
    BY <1>1, <1>2 DEF CreateTask, Stored, TypeOK, ObjectsOK
  <2>4. UNCHANGED <<cached, bucket, session, handler, late>>
    BY <1>2 DEF CreateTask, conns, remote
  <2>5. HandOK(u, "arriving", NoConn)'
    BY <2>2, <2>3 DEF HandOK
  <2>6. HandsOK'
    BY <1>1, <2>1, <2>2, <2>3, <2>4, <2>5, HandsKept
  <2>7. ProcessingCached' /\ Unborn'
    BY <1>1, <2>2, <2>3, <2>4, RecordsKept
  <2>8. SessionAgreement'
    BY <1>1, <2>2, <2>4, AgreementKept
  <2> QED
    BY <1>1, <2>1, <2>4, <2>6, <2>7, <2>8, ExclusiveKept DEF Custody, IdleHandsEmpty
<1>3. CASE ArrivingEnqueue(u)
  <2>1. /\ TaskBucket(u) \in Bucket /\ Held(u, "arriving", NoConn)
        /\ AtMost(u, "queue", TaskBucket(u)) /\ NoCopies'
    BY <1>3, EnqueueMoves, Bounded DEF Custody
  <2>2. UNCHANGED <<mem, db, cached, bucket, session, handler, late>>
    BY <1>3 DEF ArrivingEnqueue, objects, conns, remote
  <2>3. HandOK(u, "queue", TaskBucket(u))'
    <3>1. HandOK(u, "arriving", NoConn)
      BY <2>1, HeldOnce
    <3> QED  BY <2>2, <3>1 DEF HandOK
  <2>4. HandsOK'
    BY <1>1, <2>1, <2>2, <2>3, HandsKept
  <2>5. ProcessingCached' /\ Unborn'
    BY <1>1, <2>2 DEF ProcessingCached, Unborn
  <2>6. SessionAgreement'
    BY <1>1, <2>2, AgreementKept
  <2> QED
    BY <1>1, <2>1, <2>2, <2>4, <2>5, <2>6, ExclusiveKept DEF Custody, IdleHandsEmpty
<1> QED  BY <1>2, <1>3, CustodyCancel DEF Api

\* A task that is done in a step holds no session in it, and none is for it.
LEMMA AgreementOfOthers ==
    ASSUME Custody, NEW u \in Task, mem[u].status # "processing", mem'[u].status # "processing",
           \A b \in Bucket : bucket[b].task # u,
           UNCHANGED <<bucket, session, handler>>,
           \A t \in Task \ {u} : mem'[t] = mem[t]
    PROVE  SessionAgreement'
<1>1. TypeOK /\ SessionAgreement
  BY DEF Custody
<1>2. \A c \in Conn : session[c] # u
  BY <1>1, WorkerManagerAssumption DEF SessionAgreement
<1>3. ASSUME NEW c \in Conn, session'[c] # NoTask
      PROVE  \/ mem'[session'[c]].status = "processing" /\ mem'[session'[c]].worker = c
             \/ \E b \in Bucket : /\ bucket'[b].pc \in {"record", "send", "revert", "clear"}
                                  /\ bucket'[b].conn = c /\ bucket'[b].task = session'[c]
  <2>1. session'[c] = session[c] /\ session[c] \in Task \ {u}
    BY <1>1, <1>2, <1>3 DEF TypeOK, ConnsOK
  <2>2. \/ mem[session[c]].status = "processing" /\ mem[session[c]].worker = c
        \/ \E b \in Bucket : /\ bucket[b].pc \in {"record", "send", "revert", "clear"}
                             /\ bucket[b].conn = c /\ bucket[b].task = session[c]
    BY <1>1, <1>3, <2>1 DEF SessionAgreement
  <2> QED  BY <2>1, <2>2
<1>4. \A b \in Bucket : bucket'[b].pc \in {"record", "send", "revert", "clear"}
         => session'[bucket'[b].conn] = bucket'[b].task
  BY <1>1 DEF SessionAgreement
<1>5. \A t \in Task : mem'[t].status = "processing" =>
         \/ session'[mem'[t].worker] = t
         \/ handler'[mem'[t].worker] = [pc |-> "settle", task |-> t]
  BY <1>1 DEF SessionAgreement
<1> QED  BY <1>3, <1>4, <1>5 DEF SessionAgreement

LEMMA CustodyFinisher ==
    ASSUME Custody, TypeOK', NEW u \in Task, Finisher(u)
    PROVE  Custody'
<1> USE Owners
<1>1. TypeOK /\ Exclusive /\ IdleHandsEmpty /\ HandsOK /\ ProcessingCached /\ Unborn
  BY DEF Custody
<1>2. /\ Held(u, "finisher", NoConn) /\ NoCopies'
      /\ TaskFinish(u) => Dropped(u)
      /\ TaskFinishFails(u) => TaskBucket(u) \in Bucket /\ MovesTo(u, "queue", TaskBucket(u))
  BY FinishMoves DEF Finisher
<1>3. /\ mem[u].status = "completed"
      /\ db[u].present /\ (db[u].status = "finished" => db[u].cancelled)
      /\ \A b \in Bucket : bucket[b].task # u
  <2>1. HandOK(u, "finisher", NoConn) /\ \A b \in Bucket : ~Held(u, "bucket", b)
    BY <1>2, HeldOnce
  <2> QED  BY <2>1 DEF HandOK, Held
<1>4. /\ mem'[u].status = "finished" /\ db'[u].present
      /\ \A t \in Task \ {u} : mem'[t] = mem[t] /\ db'[t] = db[t]
      /\ UNCHANGED <<cached, bucket, session, handler, late>>
  <2>1. CASE TaskFinish(u)
    <3> DEFINE o == [mem[u] EXCEPT !.status = "finished"]
    <3>1. Write(u, o) /\ o.status = "finished"
          /\ UNCHANGED <<cached, bucket, session, handler, late>>
      BY <1>1, <2>1 DEF TaskFinish, dispatcher, conns, remote, TypeOK, ObjectsOK, TaskObject
    <3> HIDE DEF o
    <3> QED  BY <1>1, <3>1 DEF Write, Stored, TypeOK, ObjectsOK
  <2>2. CASE TaskFinishFails(u)
    BY <1>1, <1>3, <2>2 DEF TaskFinishFails, conns, remote, TypeOK, ObjectsOK, TaskObject
  <2> QED  BY <2>1, <2>2 DEF Finisher
<1>5. ProcessingCached' /\ Unborn'
  BY <1>1, <1>4, RecordsKept
<1>6. SessionAgreement'
  BY <1>3, <1>4, AgreementOfOthers
<1>7. IdleHandsEmpty'
  BY <1>1, <1>4 DEF IdleHandsEmpty
<1>8. CASE TaskFinish(u)
  <2>1. AtMost(u, "finisher", NoConn) /\ ~Held(u, "finisher", NoConn)'
    BY <1>1, <1>2, <1>8, Bounded DEF Dropped
  <2>2. HandsOK'
    BY <1>1, <1>4, <2>1, HandsKept
  <2> QED
    BY <1>1, <1>2, <1>5, <1>6, <1>7, <2>1, <2>2, ExclusiveKept DEF Custody
<1>9. CASE TaskFinishFails(u)
  <2>1. AtMost(u, "queue", TaskBucket(u)) /\ TaskBucket(u) \in Bucket
    BY <1>1, <1>2, <1>9, Bounded
  <2>2. db' = db
    BY <1>9 DEF TaskFinishFails
  <2>3. HandOK(u, "queue", TaskBucket(u))'
    BY <1>3, <1>4, <2>2 DEF HandOK
  <2>4. HandsOK'
    BY <1>1, <1>4, <2>1, <2>3, HandsKept
  <2> QED
    BY <1>1, <1>2, <1>5, <1>6, <1>7, <2>1, <2>4, ExclusiveKept DEF Custody
<1> QED  BY <1>8, <1>9 DEF Finisher

\* The bucket worker looks for a worker, or gives up looking.
LEMMA CustodySearch ==
    ASSUME Custody, TypeOK', NEW b \in Bucket,
           \/ PopTask(b) \/ findNoConn(b) \/ AssignRefused(b)
           \/ \E c \in Conn : findSuitableConn(b, c)
    PROVE  Custody'
<1> USE Owners DEF BucketAt
<1>1. TypeOK /\ Exclusive /\ IdleHandsEmpty /\ HandsOK /\ ProcessingCached /\ Unborn
      /\ SessionAgreement
  BY DEF Custody
<1>2. UNCHANGED <<mem, db, cached, session, handler, late>>
  BY DEF PopTask, findNoConn, AssignRefused, findSuitableConn, objects, conns, remote
<1>3. /\ \A d \in Bucket \ {b} : bucket'[d] = bucket[d]
      /\ bucket[b].pc \in {"pop", "find", "assign"}
      /\ bucket'[b].pc \in {"find", "assign", "requeue"}
      /\ PopTask(b) \/ bucket'[b].task = bucket[b].task
  <2>1. CASE PopTask(b)
    BY <1>1, <2>1 DEF PopTask, TypeOK, DispatcherOK
  <2>2. CASE findNoConn(b) \/ AssignRefused(b)
    BY <1>1, <2>2 DEF findNoConn, AssignRefused, Goto, TypeOK, DispatcherOK
  <2>3. ASSUME NEW c \in Conn, findSuitableConn(b, c)
        PROVE  /\ \A d \in Bucket \ {b} : bucket'[d] = bucket[d]
               /\ bucket[b].pc = "find" /\ bucket'[b].pc = "assign"
               /\ bucket'[b].task = bucket[b].task
    BY <1>1, <2>3 DEF findSuitableConn, TypeOK, DispatcherOK
  <2> QED  BY <2>1, <2>2, <2>3
<1>4. ProcessingCached' /\ Unborn'
  BY <1>1, <1>2 DEF ProcessingCached, Unborn
<1>5. SessionAgreement'
  BY <1>1, <1>2, <1>3, AgreementKept DEF Claims
<1>6. IdleHandsEmpty'
  BY <1>1, <1>2, <1>3 DEF IdleHandsEmpty
<1>7. CASE PopTask(b)
  <2>1. PICK u \in Task :
           Held(u, "queue", b) /\ AtMost(u, "bucket", b) /\ NoCopies'
    BY <1>1, <1>7, PopMoves, Bounded
  <2>2. bucket[b].task = NoTask
    BY <1>1, <1>7 DEF PopTask, IdleHandsEmpty
  <2>3. HandOK(u, "bucket", b)'
    <3>1. HandOK(u, "queue", b)
      BY <2>1, HeldOnce
    <3> QED  BY <1>2, <1>3, <3>1 DEF HandOK
  <2>4. \A d \in Bucket : bucket[d].task \in Task \ {u} => bucket'[d] = bucket[d]
    BY <1>3, <2>2, WorkerManagerAssumption
  <2>5. HandsOK'
    BY <1>1, <1>2, <2>1, <2>3, <2>4, HandsKept
  <2> QED
    BY <1>1, <1>4, <1>5, <1>6, <2>1, <2>5, ExclusiveKept DEF Custody
<1>8. CASE ~PopTask(b)
  <2>1. PICK u \in Task : /\ bucket[b].task = u /\ Held(u, "bucket", b)
                         /\ bucket[b].pc \in {"find", "assign"}
    BY <1>1, <1>8, BucketHolds DEF findNoConn, AssignRefused, findSuitableConn
  <2>2. InPlace(b)
    BY <1>3, <1>8 DEF findNoConn, AssignRefused, findSuitableConn, InPlace, conns, remote
  <2>3. AtMost(u, "bucket", b) /\ NoCopies'
    BY <1>1, <2>1, <2>2, InPlaceStays, Bounded
  <2>4. HandOK(u, "bucket", b)'
    <3>1. HandOK(u, "bucket", b)
      BY <2>1, HeldOnce
    <3> QED  BY <1>2, <1>3, <2>1, <3>1 DEF HandOK
  <2>5. \A d \in Bucket : bucket[d].task \in Task \ {u} => bucket'[d] = bucket[d]
    BY <1>3, <2>1
  <2>6. HandsOK'
    BY <1>1, <1>2, <2>1, <2>3, <2>4, <2>5, HandsKept
  <2> QED
    BY <1>1, <1>4, <1>5, <1>6, <2>3, <2>6, ExclusiveKept DEF Custody
<1> QED  BY <1>7, <1>8

\* The steps of a bucket worker that keeps its task in its hand: what is left to
\* show is what the records and the sessions say.
LEMMA CustodyInPlace ==
    ASSUME Custody, TypeOK', NEW b \in Bucket, NEW pc \in BucketStep \ {"pop"},
           bucket[b].pc # "pop", Goto(b, pc),
           UNCHANGED <<arriving, queue, handler, late, inbox, running, reported, outbox,
                       finishers>>,
           NEW u \in Task, u = bucket[b].task,
           \A t \in Task \ {u} : mem'[t] = mem[t] /\ db'[t] = db[t],
           \A t \in Task \ {u} : t \in cached => t \in cached',
           mem'[u].status = "processing" => u \in cached' /\ mem'[u].worker \in Conn,
           \A c \in Conn : session'[c] \in {session[c], u, NoTask},
           HandOK(u, "bucket", b)', SessionAgreement'
    PROVE  Custody'
<1> USE Owners
<1>1. TypeOK /\ Exclusive /\ IdleHandsEmpty /\ HandsOK /\ ProcessingCached /\ Unborn
  BY DEF Custody
<1>2. Held(u, "bucket", b)
  BY DEF Held
<1>3. /\ \A d \in Bucket \ {b} : bucket'[d] = bucket[d]
      /\ bucket'[b].pc = pc /\ bucket'[b].task = bucket[b].task
  BY <1>1 DEF Goto, TypeOK, DispatcherOK
<1>4. AtMost(u, "bucket", b) /\ NoCopies'
  <2>1. InPlace(b)
    BY <1>3 DEF InPlace
  <2> QED  BY <1>1, <1>2, <2>1, InPlaceStays, Bounded
<1>5. HandsOK'
  <2>1. \A d \in Bucket : bucket[d].task \in Task \ {u} => bucket'[d] = bucket[d]
    BY <1>3
  <2> QED  BY <1>1, <1>4, <2>1, HandsKept
<1>6. ProcessingCached' /\ Unborn'
  <2>1. db'[u].present
    BY DEF HandOK
  <2> QED  BY <1>1, <2>1, RecordsKept
<1>7. IdleHandsEmpty'
  BY <1>1, <1>3 DEF IdleHandsEmpty
<1> QED  BY <1>1, <1>4, <1>5, <1>6, <1>7, ExclusiveKept DEF Custody

\* What a bucket worker past its pop knows of its task.
LEMMA InHand ==
    ASSUME Custody, NEW b \in Bucket, bucket[b].pc # "pop"
    PROVE  /\ bucket[b].task \in Task /\ Held(bucket[b].task, "bucket", b)
           /\ HandOK(bucket[b].task, "bucket", b)
           /\ \A d \in Bucket : bucket[d].task = bucket[b].task => d = b
           /\ \A c \in Conn : handler[c].task # bucket[b].task
<1>1. bucket[b].task \in Task /\ Held(bucket[b].task, "bucket", b)
  BY BucketHolds DEF Custody
<1>2. \A l \in Kind, y \in Owner : Held(bucket[b].task, l, y) => l = "bucket" /\ y = b
  BY <1>1, HeldOnce, Owners
<1>3. HandOK(bucket[b].task, "bucket", b)
  BY <1>1, HeldOnce, Owners
<1>4. \A d \in Bucket : bucket[d].task = bucket[b].task => d = b
  BY <1>2, Owners DEF Held
<1>5. \A c \in Conn : handler[c].task # bucket[b].task
  BY <1>2, Owners DEF Held
<1> QED  BY <1>1, <1>3, <1>4, <1>5

LEMMA CustodyAssign ==
    ASSUME Custody, TypeOK', NEW b \in Bucket, AssignTask(b)
    PROVE  Custody'
<1> USE DEF BucketAt
<1>1. TypeOK /\ SessionAgreement /\ ProcessingCached
  BY DEF Custody
<1>2. bucket[b].pc = "assign" /\ Goto(b, "record") /\ bucket[b].conn \in Conn
  BY <1>1, Holding DEF AssignTask
<1>3. PICK u \in Task : u = bucket[b].task /\ HandOK(u, "bucket", b)
  BY <1>2, InHand
<1>4. PICK c \in Conn : c = bucket[b].conn
  BY <1>2
<1>5. UNCHANGED <<mem, db, cached, arriving, queue, handler, late, inbox, running, reported,
                  outbox, finishers>>
  BY DEF AssignTask, objects, remote
<1>6. /\ session[c] = NoTask /\ session'[c] = u
      /\ \A d \in Conn \ {c} : session'[d] = session[d]
  BY <1>1, <1>3, <1>4 DEF AssignTask, TypeOK, ConnsOK
<1>7. /\ \A d \in Bucket \ {b} : bucket'[d] = bucket[d]
      /\ bucket'[b].pc = "record" /\ bucket'[b].task = u /\ bucket'[b].conn = c
  BY <1>1, <1>2, <1>3, <1>4 DEF Goto, TypeOK, DispatcherOK
<1>8. HandOK(u, "bucket", b)'
  BY <1>2, <1>3, <1>5, <1>7 DEF HandOK
<1>9. SessionAgreement'
  <2>1. ASSUME NEW d \in Conn, session'[d] # NoTask
        PROVE  \/ mem'[session'[d]].status = "processing" /\ mem'[session'[d]].worker = d
               \/ \E e \in Bucket : /\ bucket'[e].pc \in {"record", "send", "revert", "clear"}
                                    /\ bucket'[e].conn = d /\ bucket'[e].task = session'[d]
    <3>1. CASE d = c
      BY <1>6, <1>7, <3>1
    <3>2. CASE d # c
      <4>1. session'[d] = session[d] /\ session[d] # NoTask
        BY <1>6, <2>1, <3>2
      <4>2. \/ mem[session[d]].status = "processing" /\ mem[session[d]].worker = d
            \/ \E e \in Bucket : /\ bucket[e].pc \in {"record", "send", "revert", "clear"}
                                 /\ bucket[e].conn = d /\ bucket[e].task = session[d]
        BY <1>1, <4>1 DEF SessionAgreement
      <4> QED  BY <1>2, <1>5, <1>7, <4>1, <4>2
    <3> QED  BY <3>1, <3>2
  <2>2. ASSUME NEW e \in Bucket, bucket'[e].pc \in {"record", "send", "revert", "clear"}
        PROVE  session'[bucket'[e].conn] = bucket'[e].task
    <3>1. CASE e = b
      BY <1>6, <1>7, <3>1
    <3>2. CASE e # b
      <4>1. /\ bucket'[e] = bucket[e] /\ bucket[e].task \in Task /\ bucket[e].conn \in Conn
            /\ session[bucket[e].conn] = bucket[e].task
        BY <1>1, <1>7, <2>2, <3>2, Holding DEF SessionAgreement
      <4> QED  BY <1>6, <4>1, WorkerManagerAssumption
    <3> QED  BY <3>1, <3>2
  <2>3. ASSUME NEW t \in Task, mem'[t].status = "processing"
        PROVE  \/ session'[mem'[t].worker] = t
               \/ handler'[mem'[t].worker] = [pc |-> "settle", task |-> t]
    <3>1. mem'[t] = mem[t] /\ mem[t].worker \in Conn /\ handler' = handler
      BY <1>1, <1>5, <2>3 DEF ProcessingCached
    <3>2. \/ session[mem[t].worker] = t
          \/ handler[mem[t].worker] = [pc |-> "settle", task |-> t]
      BY <1>1, <2>3, <3>1 DEF SessionAgreement
    <3> QED  BY <1>6, <3>1, <3>2, WorkerManagerAssumption
  <2> QED  BY <2>1, <2>2, <2>3 DEF SessionAgreement
<1>10. \A d \in Conn : session'[d] \in {session[d], u, NoTask}
  BY <1>6
<1>11. mem'[u].status = "processing" => u \in cached' /\ mem'[u].worker \in Conn
  BY <1>1, <1>5 DEF ProcessingCached
<1> QED
  BY <1>2, <1>3, <1>5, <1>8, <1>9, <1>10, <1>11, CustodyInPlace DEF BucketStep

\* The object is written by the bucket worker that claims the session.
LEMMA AgreementOfClaim ==
    ASSUME Custody, NEW b \in Bucket, bucket[b].pc \in Claims, bucket'[b].pc \in Claims,
           NEW u \in Task, u = bucket[b].task, UNCHANGED <<session, handler>>,
           \A d \in Bucket \ {b} : bucket'[d] = bucket[d],
           bucket'[b].task = bucket[b].task, bucket'[b].conn = bucket[b].conn,
           \A t \in Task \ {u} : mem'[t] = mem[t],
           mem'[u].status = "processing" => mem'[u].worker = bucket[b].conn
    PROVE  SessionAgreement'
<1>1. TypeOK /\ SessionAgreement /\ ProcessingCached
  BY DEF Custody
<1>2. bucket[b].pc # "pop" /\ session[bucket[b].conn] = u
  BY <1>1 DEF Claims, SessionAgreement
<1>3. /\ \A d \in Bucket : bucket[d].task = u => d = b
      /\ HandOK(u, "bucket", b)
  BY <1>2, InHand
<1>4. ASSUME NEW d \in Conn, session'[d] # NoTask
      PROVE  \/ mem'[session'[d]].status = "processing" /\ mem'[session'[d]].worker = d
             \/ \E e \in Bucket : /\ bucket'[e].pc \in {"record", "send", "revert", "clear"}
                                  /\ bucket'[e].conn = d /\ bucket'[e].task = session'[d]
  <2>1. session'[d] = session[d] /\ session[d] \in Task
    BY <1>1, <1>4 DEF TypeOK, ConnsOK
  <2>2. \/ mem[session[d]].status = "processing" /\ mem[session[d]].worker = d
        \/ \E e \in Bucket : /\ bucket[e].pc \in {"record", "send", "revert", "clear"}
                             /\ bucket[e].conn = d /\ bucket[e].task = session[d]
    BY <1>1, <1>4, <2>1 DEF SessionAgreement
  <2>3. CASE session[d] = u
    <3>1. bucket[b].conn = d
      BY <1>3, <2>2, <2>3 DEF HandOK, Claims
    <3> QED  BY <2>1, <2>3, <3>1 DEF Claims
  <2>4. CASE session[d] # u
    BY <2>1, <2>2, <2>4
  <2> QED  BY <2>3, <2>4
<1>5. ASSUME NEW e \in Bucket, bucket'[e].pc \in {"record", "send", "revert", "clear"}
      PROVE  session'[bucket'[e].conn] = bucket'[e].task
  BY <1>1, <1>5 DEF SessionAgreement, Claims
<1>6. ASSUME NEW t \in Task, mem'[t].status = "processing"
      PROVE  \/ session'[mem'[t].worker] = t
             \/ handler'[mem'[t].worker] = [pc |-> "settle", task |-> t]
  <2>1. CASE t = u
    BY <1>2, <1>6, <2>1
  <2>2. CASE t # u
    BY <1>1, <1>6, <2>2 DEF SessionAgreement
  <2> QED  BY <2>1, <2>2
<1> QED  BY <1>4, <1>5, <1>6 DEF SessionAgreement

LEMMA CustodyRecord ==
    ASSUME Custody, TypeOK', NEW b \in Bucket, RecordAssignment(b) \/ RevertAssignment(b)
    PROVE  Custody'
<1> USE DEF BucketAt
<1>1. TypeOK /\ ProcessingCached
  BY DEF Custody
<1>2. PICK c \in Conn, pc \in {"send", "clear"} :
        /\ c = bucket[b].conn /\ Goto(b, pc)
        /\ bucket[b].pc = IF pc = "send" THEN "record" ELSE "revert"
        /\ pc = "send" => RecordAssignment(b)
        /\ pc = "clear" => RevertAssignment(b)
  BY <1>1, Holding DEF RecordAssignment, RevertAssignment
<1>3. PICK u \in Task : u = bucket[b].task /\ HandOK(u, "bucket", b)
  BY <1>2, InHand
<1>4. PICK o \in TaskObject :
        /\ Write(u, o)
        /\ IF pc = "send" THEN o.status = "processing" /\ o.worker = c
                          ELSE o.status = "pending"
  <2> DEFINE Obj(st, w) == [mem[u] EXCEPT !.status = st, !.worker = w]
  <2>1. \A st \in Status, w \in Conn \cup {NoConn} :
           /\ Obj(st, w) \in TaskObject
           /\ Obj(st, w).status = st /\ Obj(st, w).worker = w
    BY <1>1 DEF TypeOK, ObjectsOK, TaskObject
  <2>2. /\ pc = "send" => Write(u, Obj("processing", c))
        /\ pc = "clear" => Write(u, Obj("pending", NoConn))
    BY <1>2, <1>3 DEF RecordAssignment, RevertAssignment
  <2>3. "processing" \in Status /\ "pending" \in Status
    BY DEF Status
  <2> HIDE DEF Obj
  <2>4. CASE pc = "send"
    <3>1. /\ Obj("processing", c) \in TaskObject
          /\ Obj("processing", c).status = "processing" /\ Obj("processing", c).worker = c
      BY <2>1, <2>3
    <3> QED  BY <2>2, <2>4, <3>1
  <2>5. CASE pc = "clear"
    <3>1. /\ Obj("pending", NoConn) \in TaskObject
          /\ Obj("pending", NoConn).status = "pending"
      BY <2>1, <2>3
    <3> QED  BY <2>2, <2>5, <3>1
  <2> QED  BY <2>4, <2>5
<1>5. /\ mem'[u] = o /\ db'[u].present /\ db'[u].status = o.status
      /\ \A t \in Task \ {u} : mem'[t] = mem[t] /\ db'[t] = db[t]
  BY <1>1, <1>4, WriteElsewhere DEF Write, Stored, TypeOK, ObjectsOK
<1>6. /\ UNCHANGED <<session, arriving, queue, handler, late, inbox, running, reported,
                     outbox, finishers>>
      /\ cached' = IF pc = "send" THEN cached \cup {u} ELSE cached \ {u}
  BY <1>2, <1>3 DEF RecordAssignment, RevertAssignment, conns, remote
<1>7. /\ \A d \in Bucket \ {b} : bucket'[d] = bucket[d]
      /\ bucket'[b].pc = pc /\ bucket'[b].task = u /\ bucket'[b].conn = c
  BY <1>1, <1>2, <1>3 DEF Goto, TypeOK, DispatcherOK
<1>8. HandOK(u, "bucket", b)'
  BY <1>4, <1>5, <1>7 DEF HandOK
<1>9. SessionAgreement'
  BY <1>2, <1>3, <1>4, <1>5, <1>6, <1>7, AgreementOfClaim DEF Claims
<1>10. mem'[u].status = "processing" => u \in cached' /\ mem'[u].worker \in Conn
  BY <1>4, <1>5, <1>6
<1>11. \A t \in Task \ {u} : t \in cached => t \in cached'
  BY <1>6
<1>12. \A d \in Conn : session'[d] \in {session[d], u, NoTask}
  BY <1>6
<1>13. pc \in BucketStep \ {"pop"} /\ bucket[b].pc # "pop"
  BY <1>2 DEF BucketStep
<1> QED
  BY <1>2, <1>3, <1>5, <1>6, <1>8, <1>9, <1>10, <1>11, <1>12, <1>13, CustodyInPlace

LEMMA CustodySendFails ==
    ASSUME Custody, TypeOK', NEW b \in Bucket, SendFails(b)
    PROVE  Custody'
<1> USE DEF BucketAt
<1>1. TypeOK /\ ProcessingCached
  BY DEF Custody
<1>2. bucket[b].pc = "send" /\ Goto(b, "revert")
  BY DEF SendFails
<1>3. PICK u \in Task : u = bucket[b].task /\ HandOK(u, "bucket", b)
  BY <1>2, InHand
<1>4. UNCHANGED <<mem, db, cached, session, arriving, queue, handler, late, inbox, running,
                  reported, outbox, finishers>>
  BY DEF SendFails, objects, remote
<1>5. /\ \A d \in Bucket \ {b} : bucket'[d] = bucket[d]
      /\ bucket'[b].pc = "revert" /\ bucket'[b].task = u /\ bucket'[b].conn = bucket[b].conn
  BY <1>1, <1>2, <1>3 DEF Goto, TypeOK, DispatcherOK
<1>6. HandOK(u, "bucket", b)' /\ mem[u].worker = bucket[b].conn
  BY <1>2, <1>3, <1>4, <1>5 DEF HandOK
<1>7. SessionAgreement'
  BY <1>2, <1>3, <1>4, <1>5, <1>6, AgreementOfClaim DEF Claims
<1>8. mem'[u].status = "processing" => u \in cached' /\ mem'[u].worker \in Conn
  BY <1>1, <1>4 DEF ProcessingCached
<1>9. \A d \in Conn : session'[d] \in {session[d], u, NoTask}
  BY <1>4
<1> QED
  BY <1>2, <1>3, <1>4, <1>6, <1>7, <1>8, <1>9, CustodyInPlace DEF BucketStep

LEMMA CustodyConvertFails ==
    ASSUME Custody, TypeOK', NEW b \in Bucket, ConvertFails(b)
    PROVE  Custody'
<1> USE DEF BucketAt
<1>1. TypeOK /\ SessionAgreement /\ ProcessingCached
  BY DEF Custody
<1>2. bucket[b].pc = "record" /\ Goto(b, "clear")
  BY DEF ConvertFails
<1>3. PICK u \in Task : u = bucket[b].task /\ HandOK(u, "bucket", b)
  BY <1>2, InHand
<1>4. UNCHANGED <<mem, db, cached, arriving, queue, session, handler, late, inbox, running,
                  reported, outbox, finishers>>
  BY DEF ConvertFails, objects, conns, remote
<1>5. /\ \A d \in Bucket \ {b} : bucket'[d] = bucket[d]
      /\ bucket'[b].pc = "clear" /\ bucket'[b].task = bucket[b].task
      /\ bucket'[b].conn = bucket[b].conn
  BY <1>1, <1>2 DEF Goto, TypeOK, DispatcherOK
<1>6. HandOK(u, "bucket", b)'
  BY <1>2, <1>3, <1>4, <1>5 DEF HandOK
<1>7. SessionAgreement'
  BY <1>1, <1>2, <1>4, <1>5, AgreementKept DEF Claims
<1>8. mem'[u].status = "processing" => u \in cached' /\ mem'[u].worker \in Conn
  BY <1>1, <1>4 DEF ProcessingCached
<1> QED  BY <1>2, <1>3, <1>4, <1>6, <1>7, <1>8, CustodyInPlace DEF BucketStep

LEMMA CustodyClear ==
    ASSUME Custody, TypeOK', NEW b \in Bucket, ClearAfterFailure(b)
    PROVE  Custody'
<1> USE DEF BucketAt
<1>1. TypeOK /\ SessionAgreement /\ ProcessingCached
  BY DEF Custody
<1>2. bucket[b].pc = "clear" /\ Goto(b, "requeue") /\ bucket[b].conn \in Conn
  BY <1>1, Holding DEF ClearAfterFailure
<1>3. PICK u \in Task : /\ u = bucket[b].task /\ HandOK(u, "bucket", b)
                        /\ \A d \in Bucket : bucket[d].task = u => d = b
  BY <1>2, InHand
<1>4. PICK c \in Conn : c = bucket[b].conn
  BY <1>2
<1>5. UNCHANGED <<mem, db, cached, arriving, queue, handler, late, inbox, running, reported,
                  outbox, finishers>>
  BY DEF ClearAfterFailure, objects, remote
<1>6. /\ session[c] = u /\ session'[c] = NoTask /\ mem[u].status # "processing"
      /\ \A d \in Conn \ {c} : session'[d] = session[d]
  BY <1>1, <1>2, <1>3, <1>4
  DEF ClearAfterFailure, TypeOK, ConnsOK, SessionAgreement, HandOK
<1>7. /\ \A d \in Bucket \ {b} : bucket'[d] = bucket[d]
      /\ bucket'[b].pc = "requeue" /\ bucket'[b].task = u
  BY <1>1, <1>2, <1>3 DEF Goto, TypeOK, DispatcherOK
<1>8. HandOK(u, "bucket", b)'
  BY <1>2, <1>3, <1>5, <1>7 DEF HandOK
<1>9. SessionAgreement'
  <2>1. ASSUME NEW d \in Conn, session'[d] # NoTask
        PROVE  \/ mem'[session'[d]].status = "processing" /\ mem'[session'[d]].worker = d
               \/ \E e \in Bucket : /\ bucket'[e].pc \in {"record", "send", "revert", "clear"}
                                    /\ bucket'[e].conn = d /\ bucket'[e].task = session'[d]
    <3>1. d # c /\ session'[d] = session[d]
      BY <1>6, <2>1
    <3>2. \/ mem[session[d]].status = "processing" /\ mem[session[d]].worker = d
          \/ \E e \in Bucket : /\ bucket[e].pc \in {"record", "send", "revert", "clear"}
                               /\ bucket[e].conn = d /\ bucket[e].task = session[d]
      BY <1>1, <2>1, <3>1 DEF SessionAgreement
    <3> QED  BY <1>4, <1>5, <1>7, <3>1, <3>2
  <2>2. ASSUME NEW e \in Bucket, bucket'[e].pc \in {"record", "send", "revert", "clear"}
        PROVE  session'[bucket'[e].conn] = bucket'[e].task
    <3>1. e # b /\ bucket'[e] = bucket[e]
      BY <1>7, <2>2
    <3>2. session[bucket[e].conn] = bucket[e].task /\ bucket[e].conn \in Conn
      BY <1>1, <2>2, <3>1, Holding DEF SessionAgreement
    <3> QED  BY <1>3, <1>6, <3>1, <3>2
  <2>3. ASSUME NEW t \in Task, mem'[t].status = "processing"
        PROVE  \/ session'[mem'[t].worker] = t
               \/ handler'[mem'[t].worker] = [pc |-> "settle", task |-> t]
    <3>1. mem'[t] = mem[t] /\ mem[t].worker \in Conn /\ handler' = handler /\ t # u
      BY <1>1, <1>5, <1>6, <2>3 DEF ProcessingCached
    <3>2. \/ session[mem[t].worker] = t
          \/ handler[mem[t].worker] = [pc |-> "settle", task |-> t]
      BY <1>1, <2>3, <3>1 DEF SessionAgreement
    <3> QED  BY <1>6, <3>1, <3>2
  <2> QED  BY <2>1, <2>2, <2>3 DEF SessionAgreement
<1>10. \A d \in Conn : session'[d] \in {session[d], u, NoTask}
  BY <1>6
<1>11. mem'[u].status = "processing" => u \in cached' /\ mem'[u].worker \in Conn
  BY <1>1, <1>5 DEF ProcessingCached
<1> QED
  BY <1>2, <1>3, <1>5, <1>8, <1>9, <1>10, <1>11, CustodyInPlace DEF BucketStep

LEMMA CustodyRequeue ==
    ASSUME Custody, TypeOK', NEW b \in Bucket, RequeueTask(b)
    PROVE  Custody'
<1> USE Owners DEF BucketAt
<1>1. TypeOK /\ Exclusive /\ IdleHandsEmpty /\ HandsOK /\ ProcessingCached /\ Unborn
      /\ SessionAgreement
  BY DEF Custody
<1>2. bucket[b].pc = "requeue"
  BY DEF RequeueTask
<1>3. PICK u \in Task : u = bucket[b].task /\ HandOK(u, "bucket", b)
  BY <1>2, InHand
<1>4. PICK d \in Bucket : AtMost(u, "queue", d) /\ NoCopies'
  BY <1>1, <1>3, RequeueMoves, Bounded
<1>5. UNCHANGED <<mem, db, cached, session, handler, late>>
  BY DEF RequeueTask, objects, conns, remote
<1>6. /\ \A e \in Bucket \ {b} : bucket'[e] = bucket[e]
      /\ bucket'[b].pc = "pop" /\ bucket'[b].task = NoTask
  BY <1>1 DEF RequeueTask, Idle, TypeOK, DispatcherOK
<1>7. HandOK(u, "queue", d)'
  BY <1>2, <1>3, <1>5 DEF HandOK
<1>8. HandsOK'
  <2>1. \A e \in Bucket : bucket[e].task \in Task \ {u} => bucket'[e] = bucket[e]
    BY <1>3, <1>6
  <2> QED  BY <1>1, <1>4, <1>5, <1>7, <2>1, HandsKept
<1>9. ProcessingCached' /\ Unborn'
  BY <1>1, <1>5 DEF ProcessingCached, Unborn
<1>10. SessionAgreement'
  BY <1>1, <1>2, <1>5, <1>6, AgreementKept DEF Claims
<1>11. IdleHandsEmpty'
  BY <1>1, <1>5, <1>6 DEF IdleHandsEmpty
<1> QED
  BY <1>1, <1>4, <1>8, <1>9, <1>10, <1>11, ExclusiveKept DEF Custody

LEMMA CustodySend ==
    ASSUME Custody, TypeOK', NEW b \in Bucket, SendOk(b)
    PROVE  Custody'
<1> USE Owners DEF BucketAt
<1>1. TypeOK /\ Exclusive /\ IdleHandsEmpty /\ HandsOK /\ ProcessingCached /\ Unborn
      /\ SessionAgreement
  BY DEF Custody
<1>2. bucket[b].pc = "send" /\ Idle(b) /\ bucket[b].conn \in Conn
  BY <1>1, Holding DEF SendOk
<1>3. PICK u \in Task : u = bucket[b].task /\ HandOK(u, "bucket", b)
  BY <1>2, InHand
<1>4. PICK c \in Conn : AtMost(u, "inbox", c) /\ NoCopies'
  BY <1>1, <1>3, SendMoves, Bounded
<1>5. UNCHANGED <<mem, db, cached, session, handler, late>>
  BY DEF SendOk, objects, conns
<1>6. /\ \A e \in Bucket \ {b} : bucket'[e] = bucket[e]
      /\ bucket'[b].pc = "pop" /\ bucket'[b].task = NoTask
  BY <1>1, <1>2 DEF Idle, TypeOK, DispatcherOK
<1>7. HandOK(u, "inbox", c)'
  BY <1>2, <1>3, <1>5 DEF HandOK
<1>8. HandsOK'
  <2>1. \A e \in Bucket : bucket[e].task \in Task \ {u} => bucket'[e] = bucket[e]
    BY <1>3, <1>6
  <2> QED  BY <1>1, <1>4, <1>5, <1>7, <2>1, HandsKept
<1>9. ProcessingCached' /\ Unborn'
  BY <1>1, <1>5 DEF ProcessingCached, Unborn
<1>10. SessionAgreement'
  <2>1. /\ session[bucket[b].conn] = u
        /\ mem[u].status = "processing" /\ mem[u].worker = bucket[b].conn
    BY <1>1, <1>2, <1>3 DEF SessionAgreement, HandOK
  <2>2. ASSUME NEW d \in Conn, session'[d] # NoTask
        PROVE  \/ mem'[session'[d]].status = "processing" /\ mem'[session'[d]].worker = d
               \/ \E e \in Bucket : /\ bucket'[e].pc \in {"record", "send", "revert", "clear"}
                                    /\ bucket'[e].conn = d /\ bucket'[e].task = session'[d]
    <3>1. \/ mem[session[d]].status = "processing" /\ mem[session[d]].worker = d
          \/ \E e \in Bucket : /\ bucket[e].pc \in {"record", "send", "revert", "clear"}
                               /\ bucket[e].conn = d /\ bucket[e].task = session[d]
      BY <1>1, <1>5, <2>2 DEF SessionAgreement
    <3> QED  BY <1>3, <1>5, <1>6, <2>1, <3>1
  <2>3. ASSUME NEW e \in Bucket, bucket'[e].pc \in {"record", "send", "revert", "clear"}
        PROVE  session'[bucket'[e].conn] = bucket'[e].task
    BY <1>1, <1>5, <1>6, <2>3 DEF SessionAgreement
  <2>4. ASSUME NEW t \in Task, mem'[t].status = "processing"
        PROVE  \/ session'[mem'[t].worker] = t
               \/ handler'[mem'[t].worker] = [pc |-> "settle", task |-> t]
    BY <1>1, <1>5, <2>4 DEF SessionAgreement
  <2> QED  BY <2>2, <2>3, <2>4 DEF SessionAgreement
<1>11. IdleHandsEmpty'
  BY <1>1, <1>5, <1>6 DEF IdleHandsEmpty
<1> QED
  BY <1>1, <1>4, <1>8, <1>9, <1>10, <1>11, ExclusiveKept DEF Custody

LEMMA CustodyReport ==
    ASSUME Custody, TypeOK', NEW c \in Conn, HandleReport(c)
    PROVE  Custody'
<1> USE Owners
<1>1. TypeOK /\ Exclusive /\ IdleHandsEmpty /\ HandsOK /\ ProcessingCached /\ Unborn
      /\ SessionAgreement
  BY DEF Custody
<1>2. PICK u \in Task : /\ u = Head(outbox[c]).task /\ Held(u, "outbox", c)
                        /\ MovesTo(u, "handler", c) /\ AtMost(u, "handler", c) /\ NoCopies'
  BY <1>1, HandleMoves, Bounded
<1>3. /\ mem[u].status = "processing"
      /\ db[u].present /\ (db[u].status = "finished" => db[u].cancelled)
      /\ u \in cached /\ mem[u].worker \in Conn
      /\ \A b \in Bucket : bucket[b].task # u
      /\ \A d \in Conn : handler[d].task # u
  <2>1. HandOK(u, "outbox", c) /\ \A l \in Kind, y \in Owner : Held(u, l, y) => l = "outbox"
    BY <1>2, HeldOnce
  <2>2. \A b \in Bucket : bucket[b].task # u
    BY <2>1 DEF Held
  <2>3. \A d \in Conn : handler[d].task # u
    BY <2>1 DEF Held
  <2> QED  BY <1>1, <2>1, <2>2, <2>3 DEF HandOK, ProcessingCached
<1>4. mem[u].worker = c /\ session[c] = u
  <2>1. mem[u].worker = c
    BY <1>2, <1>3 DEF HandleReport, OwnerOf
  <2>2. session[c] = u \/ handler[c] = [pc |-> "settle", task |-> u]
    BY <1>1, <1>3, <2>1 DEF SessionAgreement
  <2>3. handler[c] # [pc |-> "settle", task |-> u]
    BY <1>3
  <2> QED  BY <2>1, <2>2, <2>3
<1>5. /\ mem'[u].status = mem[u].status /\ mem'[u].worker = mem[u].worker
      /\ \A t \in Task \ {u} : mem'[t] = mem[t]
      /\ handler'[c] = [pc |-> "settle", task |-> u] /\ handler[c].pc = "idle"
      /\ \A d \in Conn \ {c} : handler'[d] = handler[d]
      /\ session'[c] = NoTask /\ \A d \in Conn \ {c} : session'[d] = session[d]
      /\ UNCHANGED <<db, cached, bucket, late>>
  BY <1>1, <1>2 DEF HandleReport, dispatcher, TypeOK, ObjectsOK, TaskObject, ConnsOK
<1>6. HandOK(u, "handler", c)'
  BY <1>3, <1>4, <1>5, WorkerManagerAssumption DEF HandOK
<1>7. HandsOK'
  <2>1. \A d \in Conn : handler[d].task \in Task \ {u} =>
           handler'[d] = handler[d] /\ session'[d] \in {session[d], u, NoTask}
    BY <1>1, <1>5, WorkerManagerAssumption DEF IdleHandsEmpty
  <2> QED  BY <1>1, <1>2, <1>5, <1>6, <2>1, HandsKept
<1>8. ProcessingCached' /\ Unborn'
  BY <1>1, <1>3, <1>5, RecordsKept
<1>9. SessionAgreement'
  <2>1. ASSUME NEW d \in Conn, session'[d] # NoTask
        PROVE  \/ mem'[session'[d]].status = "processing" /\ mem'[session'[d]].worker = d
               \/ \E e \in Bucket : /\ bucket'[e].pc \in {"record", "send", "revert", "clear"}
                                    /\ bucket'[e].conn = d /\ bucket'[e].task = session'[d]
    <3>1. d # c /\ session'[d] = session[d] /\ session[d] \in Task
      BY <1>1, <1>5, <2>1 DEF TypeOK, ConnsOK
    <3>2. \/ mem[session[d]].status = "processing" /\ mem[session[d]].worker = d
          \/ \E e \in Bucket : /\ bucket[e].pc \in {"record", "send", "revert", "clear"}
                               /\ bucket[e].conn = d /\ bucket[e].task = session[d]
      BY <1>1, <2>1, <3>1 DEF SessionAgreement
    <3> QED  BY <1>5, <3>1, <3>2
  <2>2. ASSUME NEW e \in Bucket, bucket'[e].pc \in {"record", "send", "revert", "clear"}
        PROVE  session'[bucket'[e].conn] = bucket'[e].task
    <3>1. session[bucket[e].conn] = bucket[e].task /\ bucket[e].conn \in Conn
      BY <1>1, <1>5, <2>2, Holding DEF SessionAgreement
    <3> QED  BY <1>3, <1>4, <1>5, <3>1
  <2>3. ASSUME NEW t \in Task, mem'[t].status = "processing"
        PROVE  \/ session'[mem'[t].worker] = t
               \/ handler'[mem'[t].worker] = [pc |-> "settle", task |-> t]
    <3>1. CASE t = u
      BY <1>4, <1>5, <3>1
    <3>2. CASE t # u
      <4>1. mem'[t] = mem[t] /\ mem[t].worker \in Conn
        BY <1>1, <1>5, <2>3, <3>2 DEF ProcessingCached
      <4>2. \/ session[mem[t].worker] = t
            \/ handler[mem[t].worker] = [pc |-> "settle", task |-> t]
        BY <1>1, <2>3, <4>1 DEF SessionAgreement
      <4> QED  BY <1>4, <1>5, <3>2, <4>1, <4>2
    <3> QED  BY <3>1, <3>2
  <2> QED  BY <2>1, <2>2, <2>3 DEF SessionAgreement
<1>10. IdleHandsEmpty'
  BY <1>1, <1>5 DEF IdleHandsEmpty
<1> QED
  BY <1>1, <1>2, <1>7, <1>8, <1>9, <1>10, ExclusiveKept DEF Custody

LEMMA CustodyComplete ==
    ASSUME Custody, TypeOK', NEW c \in Conn, TaskComplete(c)
    PROVE  Custody'
<1> USE Owners
<1>1. TypeOK /\ Exclusive /\ IdleHandsEmpty /\ HandsOK /\ ProcessingCached /\ Unborn
      /\ SessionAgreement
  BY DEF Custody
<1>2. handler[c].pc = "settle"
  BY DEF TaskComplete
<1>3. PICK u \in Task : /\ u = handler[c].task /\ Held(u, "handler", c)
                        /\ Settled(u).status = "pending" => Stay
                        /\ Settled(u).status = "completed" => MovesTo(u, "finisher", NoConn)
                        /\ Settled(u).status \notin {"pending", "completed"} => Dropped(u)
                        /\ NoCopies'
  BY CompleteMoves
<1>4. PICK s \in {"pending", "completed", "finished"} : s = Settled(u).status
  BY <1>1 DEF Settled, getTaskCompleteStatus, TypeOK, ObjectsOK, TaskObject
<1>5. /\ mem[u].status = "processing" /\ mem[u].worker = c /\ session[c] # u
      /\ \A b \in Bucket : bucket[b].task # u
      /\ \A d \in Conn : handler[d].task = u => d = c
  <2>1. HandOK(u, "handler", c)
        /\ \A l \in Kind, y \in Owner : Held(u, l, y) => l = "handler" /\ y = c
    BY <1>3, HeldOnce
  <2> QED  BY <1>2, <2>1 DEF HandOK, Held
<1>6. \A d \in Conn : session[d] # u
  BY <1>1, <1>5, WorkerManagerAssumption DEF SessionAgreement
<1>7. /\ mem'[u] = Settled(u) /\ db'[u].present /\ db'[u].status = s
      /\ \A t \in Task \ {u} : mem'[t] = mem[t] /\ db'[t] = db[t]
  <2>1. Write(u, Settled(u))
    BY <1>3 DEF TaskComplete
  <2> QED  BY <1>1, <1>4, <2>1 DEF Write, Stored, TypeOK, ObjectsOK
<1>8. /\ handler'[c].pc = IF s = "pending" THEN "enqueue" ELSE "idle"
      /\ handler'[c].task = IF s = "pending" THEN u ELSE NoTask
      /\ \A d \in Conn \ {c} : handler'[d] = handler[d]
      /\ UNCHANGED <<cached, bucket, session, late>>
  BY <1>1, <1>3, <1>4 DEF TaskComplete, dispatcher, remote, TypeOK, ConnsOK
<1>9. HandsOK' /\ Exclusive'
  <2>1. \A d \in Conn : handler[d].task \in Task \ {u} =>
           handler'[d] = handler[d] /\ session'[d] \in {session[d], u, NoTask}
    BY <1>3, <1>8
  <2>2. ASSUME s = "pending"  PROVE HandsOK' /\ Exclusive'
    <3>1. AtMost(u, "handler", c)
      BY <1>1, <1>3, <1>4, <2>2, Bounded
    <3>2. HandOK(u, "handler", c)'
      BY <1>4, <1>7, <1>8, <2>2 DEF HandOK
    <3> QED  BY <1>1, <1>7, <1>8, <2>1, <3>1, <3>2, HandsKept, ExclusiveKept
  <2>3. ASSUME s = "completed"  PROVE HandsOK' /\ Exclusive'
    <3>1. AtMost(u, "finisher", NoConn)
      BY <1>1, <1>3, <1>4, <2>3, Bounded
    <3>2. HandOK(u, "finisher", NoConn)'
      BY <1>4, <1>7, <2>3 DEF HandOK
    <3> QED  BY <1>1, <1>7, <1>8, <2>1, <3>1, <3>2, HandsKept, ExclusiveKept
  <2>4. ASSUME s = "finished"  PROVE HandsOK' /\ Exclusive'
    <3>1. AtMost(u, "handler", c) /\ ~Held(u, "handler", c)'
      BY <1>1, <1>3, <1>4, <2>4, Bounded DEF Dropped
    <3> QED  BY <1>1, <1>7, <1>8, <2>1, <3>1, HandsKept, ExclusiveKept
  <2> QED  BY <2>2, <2>3, <2>4
<1>10. ProcessingCached' /\ Unborn'
  BY <1>1, <1>4, <1>7, <1>8, RecordsKept
<1>11. SessionAgreement'
  <2>1. ASSUME NEW d \in Conn, session'[d] # NoTask
        PROVE  \/ mem'[session'[d]].status = "processing" /\ mem'[session'[d]].worker = d
               \/ \E e \in Bucket : /\ bucket'[e].pc \in {"record", "send", "revert", "clear"}
                                    /\ bucket'[e].conn = d /\ bucket'[e].task = session'[d]
    <3>1. session'[d] = session[d] /\ session[d] \in Task \ {u}
      BY <1>1, <1>6, <1>8, <2>1 DEF TypeOK, ConnsOK
    <3>2. \/ mem[session[d]].status = "processing" /\ mem[session[d]].worker = d
          \/ \E e \in Bucket : /\ bucket[e].pc \in {"record", "send", "revert", "clear"}
                               /\ bucket[e].conn = d /\ bucket[e].task = session[d]
      BY <1>1, <2>1, <3>1 DEF SessionAgreement
    <3> QED  BY <1>7, <1>8, <3>1, <3>2
  <2>2. ASSUME NEW e \in Bucket, bucket'[e].pc \in {"record", "send", "revert", "clear"}
        PROVE  session'[bucket'[e].conn] = bucket'[e].task
    BY <1>1, <1>8, <2>2 DEF SessionAgreement
  <2>3. ASSUME NEW t \in Task, mem'[t].status = "processing"
        PROVE  \/ session'[mem'[t].worker] = t
               \/ handler'[mem'[t].worker] = [pc |-> "settle", task |-> t]
    <3>1. t # u /\ mem'[t] = mem[t] /\ mem[t].worker \in Conn
      BY <1>1, <1>4, <1>7, <2>3 DEF ProcessingCached
    <3>2. \/ session[mem[t].worker] = t
          \/ handler[mem[t].worker] = [pc |-> "settle", task |-> t]
      BY <1>1, <2>3, <3>1 DEF SessionAgreement
    <3> QED  BY <1>3, <1>8, <3>1, <3>2
  <2> QED  BY <2>1, <2>2, <2>3 DEF SessionAgreement
<1>12. IdleHandsEmpty'
  BY <1>1, <1>8 DEF IdleHandsEmpty
<1> QED
  BY <1>1, <1>3, <1>9, <1>10, <1>11, <1>12 DEF Custody

LEMMA CustodyCompleteEnqueue ==
    ASSUME Custody, TypeOK', NEW c \in Conn, TaskCompleteEnqueue(c)
    PROVE  Custody'
<1> USE Owners
<1>1. TypeOK /\ Exclusive /\ IdleHandsEmpty /\ HandsOK /\ ProcessingCached /\ Unborn
      /\ SessionAgreement
  BY DEF Custody
<1>2. PICK u \in Task, d \in Bucket :
         /\ u = handler[c].task /\ Held(u, "handler", c)
         /\ AtMost(u, "queue", d) /\ NoCopies'
  BY <1>1, CompleteEnqueueMoves, Bounded
<1>3. /\ UNCHANGED <<mem, db, cached, bucket, session, late>>
      /\ handler[c].pc = "enqueue" /\ handler'[c] = [pc |-> "idle", task |-> NoTask]
      /\ \A e \in Conn \ {c} : handler'[e] = handler[e]
  BY <1>1 DEF TaskCompleteEnqueue, objects, remote, TypeOK, ConnsOK
<1>4. HandOK(u, "queue", d)'
  <2>1. HandOK(u, "handler", c)
    BY <1>2, HeldOnce
  <2> QED  BY <1>3, <2>1 DEF HandOK
<1>5. HandsOK'
  <2>1. \A e \in Conn : handler[e].task \in Task \ {u} =>
           handler'[e] = handler[e] /\ session'[e] \in {session[e], u, NoTask}
    BY <1>2, <1>3
  <2> QED  BY <1>1, <1>2, <1>3, <1>4, <2>1, HandsKept
<1>6. ProcessingCached' /\ Unborn'
  BY <1>1, <1>3 DEF ProcessingCached, Unborn
<1>7. SessionAgreement'
  BY <1>1, <1>3, AgreementKept
<1>8. IdleHandsEmpty'
  BY <1>1, <1>3 DEF IdleHandsEmpty
<1> QED
  BY <1>1, <1>2, <1>5, <1>6, <1>7, <1>8, ExclusiveKept DEF Custody

\* Steps that touch neither records nor sessions: only hands can change, and
\* only from one in which the task is processing to another such.
LEMMA CustodyElsewhere ==
    ASSUME Custody, TypeOK', UNCHANGED <<mem, db, cached, bucket, session, handler>>,
           NEW u, NEW l \in {"worker", "outbox"}, NEW y \in Owner, AtMost(u, l, y), NoCopies',
           u \in Task => /\ mem[u].status = "processing" /\ db[u].present
                          /\ (db[u].status = "finished" => db[u].cancelled),
           \A c \in Conn : late'[c] = NoTask
    PROVE  Custody'
<1> USE Owners
<1>1. TypeOK /\ Exclusive /\ IdleHandsEmpty /\ HandsOK /\ ProcessingCached /\ Unborn
      /\ SessionAgreement
  BY DEF Custody
<1>2. u \in Task => HandOK(u, l, y)'
  BY DEF HandOK
<1>3. HandsOK'
  BY <1>1, <1>2, HandsKept
<1>4. ProcessingCached' /\ Unborn'
  BY <1>1 DEF ProcessingCached, Unborn
<1>5. SessionAgreement'
  BY <1>1, AgreementKept
<1>6. IdleHandsEmpty'
  BY <1>1 DEF IdleHandsEmpty
<1> QED
  BY <1>1, <1>3, <1>4, <1>5, <1>6, ExclusiveKept DEF Custody

\* A task on a worker, or on its way to or from one, is processing.
LEMMA OutThere ==
    ASSUME Custody, NEW u \in Task, NEW k \in {"inbox", "worker", "outbox"}, NEW x \in Conn,
           Held(u, k, x)
    PROVE  /\ mem[u].status = "processing" /\ db[u].present
           /\ (db[u].status = "finished" => db[u].cancelled)
BY HeldOnce, Owners DEF HandOK

LEMMA CustodyConnection ==
    ASSUME Custody, TypeOK', NEW c \in Conn, Register(c) \/ Unregister(c)
    PROVE  Custody'
<1> USE Owners
<1>1. \A d \in Conn : late[d] = NoTask
  BY DEF Custody, IdleHandsEmpty
<1>2. ASSUME ~\E d \in Conn : Reconnect(c, d)  PROVE Custody'
  <2>1. \/ HandleRegister(c) \/ StoreSession(c) \/ RegisterResponseOk(c)
        \/ RegisterResponseFails(c) \/ Unregister(c)
    BY <1>2 DEF Register
  <2>2. AtMost(NoTask, "worker", c) /\ NoCopies'
    BY <2>1, ConnectionMoves
  <2>3. UNCHANGED <<mem, db, cached, bucket, session, handler>>
    BY <2>1
    DEF HandleRegister, StoreSession, RegisterResponseOk, RegisterResponseFails, Unregister,
        RemoveConnection, CloseChannel, objects, dispatcher
  <2>4. late' = late \/ late' = [late EXCEPT ![c] = NoTask]
    BY <2>1
    DEF HandleRegister, StoreSession, RegisterResponseOk, RegisterResponseFails, Unregister,
        RemoveConnection, CloseChannel, remote
  <2>5. \A d \in Conn : late'[d] = NoTask
    BY <1>1, <2>4 DEF Custody, TypeOK, RemoteOK
  <2> QED  BY <2>2, <2>3, <2>5, CustodyElsewhere, WorkerManagerAssumption
<1>3. ASSUME NEW d \in Conn, Reconnect(c, d)  PROVE Custody'
  <2>1. PICK u : /\ u \in Task => Held(u, "worker", d)
                 /\ AtMost(u, "worker", c) /\ NoCopies'
    BY <1>3, ReconnectMoves
  <2>2. u \in Task => /\ mem[u].status = "processing" /\ db[u].present
                      /\ (db[u].status = "finished" => db[u].cancelled)
    BY <2>1, OutThere
  <2>3. UNCHANGED <<mem, db, cached, bucket, session, handler, late>>
    BY <1>3 DEF Reconnect, objects, dispatcher
  <2> QED  BY <1>1, <2>1, <2>2, <2>3, CustodyElsewhere
<1> QED  BY <1>2, <1>3

LEMMA CustodyWorker ==
    ASSUME Custody, TypeOK', NEW c \in Conn, RemoteWorker(c) \/ RejectReport(c)
    PROVE  Custody'
<1> USE Owners
<1>1. Exclusive /\ \A d \in Conn : late[d] = NoTask
  BY DEF Custody, IdleHandsEmpty
<1>2. ~LateWrite(c)
  BY <1>1 DEF LateWrite
<1>3. UNCHANGED <<mem, db, cached, bucket, session, handler, late>>
  BY <1>2
  DEF RemoteWorker, WorkerReceive, WorkerIdle, WorkerReport, WorkerSwallows, RejectReport,
      objects, dispatcher, conns
<1>4. CASE WorkerReceive(c)
  <2>1. PICK u \in Task : Held(u, "inbox", c) /\ AtMost(u, "worker", c) /\ NoCopies'
    BY <1>1, <1>4, ReceiveMoves, Bounded
  <2> QED  BY <1>1, <1>3, <2>1, OutThere, CustodyElsewhere
<1>5. ASSUME NEW failed \in BOOLEAN, WorkerReport(c, failed)  PROVE Custody'
  <2>1. PICK u \in Task : Held(u, "worker", c) /\ AtMost(u, "outbox", c) /\ NoCopies'
    BY <1>1, <1>5, ReportMoves, Bounded
  <2> QED  BY <1>1, <1>3, <2>1, OutThere, CustodyElsewhere
<1>6. CASE WorkerIdle(c)
  <2>1. AtMost(NoTask, "worker", c) /\ NoCopies'
    BY <1>1, <1>6, WorkerIdleStays, Bounded, WorkerManagerAssumption
  <2> QED  BY <1>1, <1>3, <2>1, CustodyElsewhere, WorkerManagerAssumption
<1>7. CASE RejectReport(c)
  <2>1. PICK u \in Task : Held(u, "outbox", c) /\ AtMost(u, "outbox", c) /\ NoCopies'
    BY <1>1, <1>7, HandleMoves, Bounded
  <2> QED  BY <1>1, <1>3, <2>1, OutThere, CustodyElsewhere
<1>8. CASE WorkerSwallows(c)
  <2>1. PICK u \in Task : Held(u, "worker", c) /\ AtMost(u, "worker", c) /\ NoCopies'
    BY <1>1, <1>8, SwallowMoves, Bounded
  <2> QED  BY <1>1, <1>3, <2>1, OutThere, CustodyElsewhere
<1> QED  BY <1>2, <1>4, <1>5, <1>6, <1>7, <1>8 DEF RemoteWorker

\* Nothing happened to the structures: a panic, or no step at all.
LEMMA CustodyUnchanged ==
    ASSUME Custody, UNCHANGED <<objects, dispatcher, conns, remote, finishers>>, TypeOK'
    PROVE  Custody'
<1>1. Stay /\ Exclusive /\ NoCopies'
  BY SameHands, Owners DEF dispatcher, conns, remote, Stay, Custody, NoCopies
<1>2. NoTask \notin Task
  BY WorkerManagerAssumption
<1>3. HandsOK' /\ Exclusive'
  <2>1. ASSUME NEW t \in Task, NEW k \in Kind, NEW x \in Owner
        PROVE  /\ Held(t, k, x)' <=> Held(t, k, x)
               /\ HandOK(t, k, x)' <=> HandOK(t, k, x)
    BY <1>1 DEF Stay, Same, HandOK, objects, dispatcher, conns
  <2> QED  BY <1>1, <2>1 DEF Custody, HandsOK, Exclusive
<1>4. ProcessingCached' /\ Unborn' /\ IdleHandsEmpty'
  BY DEF Custody, objects, dispatcher, conns, remote, ProcessingCached, Unborn, IdleHandsEmpty
<1>5. SessionAgreement'
  BY DEF Custody, objects, dispatcher, conns, SessionAgreement
<1> QED  BY <1>1, <1>3, <1>4, <1>5 DEF Custody

LEMMA CustodyStep ==
    ASSUME "slow" \notin Faults, Custody, [Next]_vars
    PROVE  Custody'
<1>1. TypeOK'
  BY TypeStep DEF Custody
<1>2. CASE UNCHANGED vars
  BY <1>1, <1>2, CustodyUnchanged DEF vars
<1>3. ASSUME NEW t \in Task, Api(t) \/ Finisher(t)  PROVE Custody'
  BY <1>1, <1>3, CustodyApi, CustodyFinisher
<1>4. ASSUME NEW b \in Bucket, BucketWorker(b)  PROVE Custody'
  <2>1. CASE findPanics(b) \/ SendPanics(b)
    BY <1>1, <2>1, CustodyUnchanged DEF findPanics, SendPanics
  <2>2. ~SendTimesOut(b)
    BY DEF SendTimesOut
  <2> QED
    BY <1>1, <1>4, <2>1, <2>2, CustodySearch, CustodyAssign, CustodyRecord, CustodySend,
       CustodyConvertFails, CustodySendFails, CustodyClear, CustodyRequeue DEF BucketWorker
<1>5. ASSUME NEW c \in Conn, Register(c) \/ Handle(c) \/ Unregister(c) \/ RemoteWorker(c)
      PROVE  Custody'
  BY <1>1, <1>5, CustodyConnection, CustodyReport, CustodyComplete, CustodyCompleteEnqueue,
     CustodyWorker DEF Handle
<1> QED  BY <1>2, <1>3, <1>4, <1>5 DEF Next

-----------------------------------------------------------------------------
(* The theorems.                                                           *)

\* A set whose members are all equal has one member at most.
LEMMA AtMostOne ==
    ASSUME NEW S, \A x, y \in S : x = y
    PROVE  Cardinality(S) <= 1
<1>1. CASE S = {}
  BY <1>1, FS_EmptySet
<1>2. CASE S # {}
  <2>1. PICK x \in S : TRUE
    BY <1>2
  <2>2. S = {x}
    BY <2>1
  <2> QED  BY <2>2, FS_Singleton
<1> QED  BY <1>1, <1>2

\* The hands SingleCustody counts are the hands of the invariant, with the
\* position of a task in its queue.
LEMMA HandsAreHeld ==
    ASSUME TypeOK, NEW t \in Task, NEW h \in Hands(t)
    PROVE  \E k \in Kind, x \in Owner :
              /\ Held(t, k, x)
              /\ \/ k = "arriving" /\ h = <<"arriving", 0, 0>>
                 \/ k = "queue" /\ x \in Bucket /\ \E i \in DOMAIN queue[x] :
                       queue[x][i] = t /\ h = <<"queue", x, i>>
                 \/ k = "bucket" /\ h = <<"bucket", x, 0>>
                 \/ k = "inbox" /\ x \in Conn /\ \E i \in DOMAIN inbox[x] :
                       inbox[x][i] = t /\ h = <<"inbox", x, i>>
                 \/ k = "worker" /\ h = <<"worker", x, 0>>
                 \/ k = "outbox" /\ x \in Conn /\ \E i \in DOMAIN outbox[x] :
                       outbox[x][i].task = t /\ h = <<"outbox", x, i>>
                 \/ k = "handler" /\ h = <<"handler", x, 0>>
                 \/ k = "finisher" /\ \E i \in 1..finishers[t] : h = <<"finisher", 0, i>>
<1> USE Owners
<1> DEFINE Names(k, x) ==
              \/ k = "arriving" /\ h = <<"arriving", 0, 0>>
              \/ k = "queue" /\ x \in Bucket /\ \E i \in DOMAIN queue[x] :
                    queue[x][i] = t /\ h = <<"queue", x, i>>
              \/ k = "bucket" /\ h = <<"bucket", x, 0>>
              \/ k = "inbox" /\ x \in Conn /\ \E i \in DOMAIN inbox[x] :
                    inbox[x][i] = t /\ h = <<"inbox", x, i>>
              \/ k = "worker" /\ h = <<"worker", x, 0>>
              \/ k = "outbox" /\ x \in Conn /\ \E i \in DOMAIN outbox[x] :
                    outbox[x][i].task = t /\ h = <<"outbox", x, i>>
              \/ k = "handler" /\ h = <<"handler", x, 0>>
              \/ k = "finisher" /\ \E i \in 1..finishers[t] : h = <<"finisher", 0, i>>
<1>1. ASSUME t \in arriving, h = <<"arriving", 0, 0>>
      PROVE  Held(t, "arriving", NoConn) /\ Names("arriving", NoConn)
  BY <1>1 DEF Held
<1>2. ASSUME NEW b \in Bucket, NEW i \in DOMAIN queue[b], queue[b][i] = t, h = <<"queue", b, i>>
      PROVE  Held(t, "queue", b) /\ Names("queue", b)
  BY <1>2 DEF Held, In
<1>3. ASSUME NEW b \in Bucket, bucket[b].task = t, h = <<"bucket", b, 0>>
      PROVE  Held(t, "bucket", b) /\ Names("bucket", b)
  BY <1>3 DEF Held
<1>4. ASSUME NEW c \in Conn, NEW i \in DOMAIN inbox[c], inbox[c][i] = t, h = <<"inbox", c, i>>
      PROVE  Held(t, "inbox", c) /\ Names("inbox", c)
  BY <1>4 DEF Held, In
<1>5. ASSUME NEW c \in Conn \ reported, running[c] = t, h = <<"worker", c, 0>>
      PROVE  Held(t, "worker", c) /\ Names("worker", c)
  BY <1>5 DEF Held
<1>6. ASSUME NEW c \in Conn, NEW i \in DOMAIN outbox[c], outbox[c][i].task = t,
             h = <<"outbox", c, i>>
      PROVE  Held(t, "outbox", c) /\ Names("outbox", c)
  BY <1>6 DEF Held, Reported
<1>7. ASSUME NEW c \in Conn, handler[c].task = t, h = <<"handler", c, 0>>
      PROVE  Held(t, "handler", c) /\ Names("handler", c)
  BY <1>7 DEF Held
<1>8. ASSUME NEW i \in 1..finishers[t], h = <<"finisher", 0, i>>
      PROVE  Held(t, "finisher", NoConn) /\ Names("finisher", NoConn)
  <2>1. finishers[t] \in Nat /\ i \in 1..finishers[t]
    BY DEF TypeOK, CountsOK
  <2>2. finishers[t] > 0
    BY <2>1
  <2>3. Held(t, "finisher", NoConn)
    BY <2>2 DEF Held
  <2> QED  BY <1>8, <2>3
<1> HIDE DEF Names
<1> DEFINE InArriving == {<<"arriving", 0, 0>> : x \in arriving \cap {t}}
<1> DEFINE InQueues ==
      UNION {{<<"queue", b, i>> : i \in {j \in DOMAIN queue[b] : queue[b][j] = t}} : b \in Bucket}
<1> DEFINE InBuckets == {<<"bucket", b, 0>> : b \in {d \in Bucket : bucket[d].task = t}}
<1> DEFINE InInboxes ==
      UNION {{<<"inbox", c, i>> : i \in {j \in DOMAIN inbox[c] : inbox[c][j] = t}} : c \in Conn}
<1> DEFINE InWorkers == {<<"worker", c, 0>> : c \in {d \in Conn \ reported : running[d] = t}}
<1> DEFINE InOutboxes ==
      UNION {{<<"outbox", c, i>> : i \in {j \in DOMAIN outbox[c] : outbox[c][j].task = t}}
                : c \in Conn}
<1> DEFINE InHandlers == {<<"handler", c, 0>> : c \in {d \in Conn : handler[d].task = t}}
<1> DEFINE InFinishers == {<<"finisher", 0, i>> : i \in 1..finishers[t]}
<1>9. Hands(t) = InArriving \cup InQueues \cup InBuckets \cup InInboxes \cup InWorkers
                 \cup InOutboxes \cup InHandlers \cup InFinishers
  BY DEF Hands
<1> DEFINE Found == \E k \in Kind, x \in Owner : Held(t, k, x) /\ Names(k, x)
<1>10. h \in InArriving => Found
  BY <1>1
<1>11. h \in InQueues => Found
  BY <1>2
<1>12. h \in InBuckets => Found
  BY <1>3
<1>13. h \in InInboxes => Found
  BY <1>4
<1>14. h \in InWorkers => Found
  BY <1>5
<1>15. h \in InOutboxes => Found
  BY <1>6
<1>16. h \in InHandlers => Found
  BY <1>7
<1>17. h \in InFinishers => Found
  BY <1>8
<1> HIDE DEF InArriving, InQueues, InBuckets, InInboxes, InWorkers, InOutboxes, InHandlers,
             InFinishers
<1>18. Found
  BY <1>9, <1>10, <1>11, <1>12, <1>13, <1>14, <1>15, <1>16, <1>17
<1> QED  BY <1>18 DEF Names

\* A task in one hand at most, and in it once, is in one place at most.
LEMMA OnePlace ==
    ASSUME Custody, NEW t \in Task
    PROVE  Cardinality(Hands(t)) <= 1
<1> SUFFICES ASSUME NEW g \in Hands(t), NEW h \in Hands(t)  PROVE g = h
  BY AtMostOne
<1>1. TypeOK /\ Exclusive /\ NoCopies
  BY DEF Custody
<1> DEFINE Names(k, x, p) ==
              \/ k = "arriving" /\ p = <<"arriving", 0, 0>>
              \/ k = "queue" /\ x \in Bucket /\ \E i \in DOMAIN queue[x] :
                    queue[x][i] = t /\ p = <<"queue", x, i>>
              \/ k = "bucket" /\ p = <<"bucket", x, 0>>
              \/ k = "inbox" /\ x \in Conn /\ \E i \in DOMAIN inbox[x] :
                    inbox[x][i] = t /\ p = <<"inbox", x, i>>
              \/ k = "worker" /\ p = <<"worker", x, 0>>
              \/ k = "outbox" /\ x \in Conn /\ \E i \in DOMAIN outbox[x] :
                    outbox[x][i].task = t /\ p = <<"outbox", x, i>>
              \/ k = "handler" /\ p = <<"handler", x, 0>>
              \/ k = "finisher" /\ \E i \in 1..finishers[t] : p = <<"finisher", 0, i>>
<1>2. PICK k \in Kind, x \in Owner : Held(t, k, x) /\ Names(k, x, g)
  BY <1>1, HandsAreHeld
<1>3. PICK l \in Kind, y \in Owner : Held(t, l, y) /\ Names(l, y, h)
  BY <1>1, HandsAreHeld
<1>4. k = l /\ x = y
  BY <1>1, <1>2, <1>3 DEF Exclusive
<1>5. Names(k, x, h)
  BY <1>3, <1>4
<1>6. CASE k = "queue"
  BY <1>1, <1>2, <1>5, <1>6 DEF NoCopies, Once
<1>7. CASE k = "inbox"
  BY <1>1, <1>2, <1>5, <1>7 DEF NoCopies, Once
<1>8. CASE k = "outbox"
  BY <1>1, <1>2, <1>5, <1>8 DEF NoCopies, ReportedOnce
<1>9. CASE k = "finisher"
  <2>1. finishers[t] \in Nat /\ finishers[t] <= 1
    BY <1>1 DEF TypeOK, CountsOK, NoCopies
  <2>2. \A i \in 1..finishers[t] : i = 1
    BY <2>1
  <2> QED  BY <1>2, <1>5, <1>9, <2>2
<1> QED  BY <1>2, <1>5, <1>6, <1>7, <1>8, <1>9

\* A document is rewritten only by who holds its task, to create it, or by a cancel
\* that had read it.
LEMMA WritersHold ==
    ASSUME Custody, "slow" \notin Faults, [Next]_vars, NEW t \in Task, db'[t] # db[t],
           \A w \in Conn \cup {NoConn} : <<t, w>> \notin cancelling
    PROVE  ~db[t].present \/ \E k \in Kind, x \in Owner : Held(t, k, x)
<1> USE Owners
<1> SUFFICES ASSUME db[t].present  PROVE \E k \in Kind, x \in Owner : Held(t, k, x)
  OBVIOUS
<1>1. db \in [Task -> Document] /\ TypeOK
  BY DEF Custody, TypeOK, ObjectsOK
<1>2. ~UNCHANGED db
  OBVIOUS
<1>3. ASSUME NEW u \in Task, Api(u) \/ Finisher(u)
      PROVE  \E k \in Kind, x \in Owner : Held(t, k, x)
  <2>1. ~CreateTask(u)
    BY <1>1 DEF CreateTask
  <2>2. ~CancelWrite(u)
    BY <1>1 DEF CancelWrite
  <2>3. TaskFinish(u)
    BY <1>2, <1>3, <2>1, <2>2
    DEF Api, ArrivingEnqueue, CancelRead, Finisher, TaskFinishFails, objects
  <2>4. t = u
    BY <1>1, <2>3 DEF TaskFinish, Write
  <2> QED  BY <2>3, <2>4, FinishMoves
<1>4. ASSUME NEW b \in Bucket, BucketWorker(b)
      PROVE  \E k \in Kind, x \in Owner : Held(t, k, x)
  <2>1. RecordAssignment(b) \/ RevertAssignment(b)
    BY <1>2, <1>4
    DEF BucketWorker, PopTask, findNoConn, findPanics, findSuitableConn, AssignTask,
        AssignRefused, ConvertFails, SendOk, SendFails, SendTimesOut, SendPanics,
        ClearAfterFailure, RequeueTask, objects
  <2>2. bucket[b].pc # "pop" /\ t = bucket[b].task
    BY <1>1, <2>1 DEF RecordAssignment, RevertAssignment, Write, BucketAt
  <2> QED  BY <1>1, <2>2, BucketHolds
<1>5. ASSUME NEW c \in Conn, Register(c) \/ Handle(c) \/ Unregister(c) \/ RemoteWorker(c)
      PROVE  \E k \in Kind, x \in Owner : Held(t, k, x)
  <2>1. TaskComplete(c)
    BY <1>2, <1>5
    DEF Register, HandleRegister, Reconnect, StoreSession, RegisterResponseOk,
        RegisterResponseFails, Handle, HandleReport, RejectReport, TaskCompleteEnqueue,
        Unregister, RemoveConnection, CloseChannel, RemoteWorker, LateWrite, WorkerReceive,
        WorkerSwallows, WorkerIdle, WorkerReport, objects
  <2>2. handler[c].pc # "idle" /\ t = handler[c].task
    BY <1>1, <2>1 DEF TaskComplete, Write
  <2> QED  BY <1>1, <2>2, HandlerHolds
<1> QED  BY <1>2, <1>3, <1>4, <1>5 DEF Next, vars, objects

-----------------------------------------------------------------------------
(* The budget of attempts.                                                 *)

LEMMA BudgetOfOthers ==
    ASSUME Budget, NEW u, NEW l \in Kind, NEW y \in Owner, AtMost(u, l, y),
           \A t \in Task \ {u} : /\ attempts'[t] = attempts[t]
                                 /\ mem'[t].retried = mem[t].retried
                                 /\ db'[t].present = db[t].present,
           \A c \in Conn : handler[c].task \in Task \ {u} => handler'[c] = handler[c],
           u \in Task =>
               /\ attempts'[u] <= mem'[u].retried + 1 /\ mem'[u].retried <= MaxRetry[u]
               /\ db'[u].present
               /\ Held(u, l, y)' /\ Spare(u, l, y)' => attempts'[u] <= mem'[u].retried
    PROVE  Budget'
<1>1. AttemptBudget'
  BY DEF Budget, AttemptBudget
<1>2. \A t \in Task : ~db'[t].present => attempts'[t] = 0
  BY DEF Budget
<1>3. ASSUME NEW t \in Task, NEW k \in Kind, NEW x \in Owner, Held(t, k, x)', Spare(t, k, x)'
      PROVE  attempts'[t] <= mem'[t].retried
  <2>1. CASE t = u
    <3>1. k = l /\ x = y
      BY <1>3, <2>1 DEF AtMost
    <3> QED  BY <1>3, <2>1, <3>1
  <2>2. CASE t # u
    <3>1. Held(t, k, x)
      BY <1>3, <2>2 DEF AtMost
    <3>2. k = "handler" => x \in Conn /\ handler'[x] = handler[x]
      BY <2>2, <3>1 DEF Held
    <3>3. Spare(t, k, x)
      BY <1>3, <3>2 DEF Spare
    <3> QED  BY <2>2, <3>1, <3>3 DEF Budget
  <2> QED  BY <2>1, <2>2
<1> QED  BY <1>1, <1>2, <1>3 DEF Budget

\* The step neither counts an attempt nor a retry, and creates no document.
Uncounted ==
    \A t \in Task : /\ attempts'[t] = attempts[t]
                    /\ mem'[t].retried = mem[t].retried
                    /\ db'[t].present = db[t].present

LEMMA WriteUncounted ==
    ASSUME TypeOK, NEW u \in Task, NEW o, Write(u, o), o.retried = mem[u].retried,
           db[u].present, UNCHANGED attempts
    PROVE  Uncounted
<1>1. /\ mem' = [mem EXCEPT ![u] = o] /\ db' = [db EXCEPT ![u] = Stored(o)]
      /\ mem \in [Task -> TaskObject] /\ db \in [Task -> Document]
  BY DEF Write, TypeOK, ObjectsOK
<1>2. /\ mem'[u] = o /\ db'[u] = Stored(o)
      /\ \A t \in Task \ {u} : mem'[t] = mem[t] /\ db'[t] = db[t]
  BY <1>1
<1>3. db[u].present = TRUE
  BY <1>1 DEF Document
<1>4. db'[u].present = TRUE /\ mem'[u].retried = mem[u].retried
  BY <1>2 DEF Stored
<1> QED  BY <1>2, <1>3, <1>4 DEF Uncounted

\* Whoever moves a task with attempts to spare may keep it or hand it on.
LEMMA BudgetCarried ==
    ASSUME Custody, Budget, Uncounted, NEW u, NEW k \in Kind, NEW x \in Owner,
           NEW l \in Kind, NEW y \in Owner, AtMost(u, l, y),
           u \in Task => Held(u, k, x),
           u \in Task => Spare(u, k, x) \/ ~Spare(u, l, y)',
           \A c \in Conn : handler[c].task \in Task \ {u} => handler'[c] = handler[c]
    PROVE  Budget'
<1>1. u \in Task => db[u].present
  BY HeldOnce
<1>2. u \in Task => attempts[u] <= mem[u].retried + 1 /\ mem[u].retried <= MaxRetry[u]
  BY DEF Budget, AttemptBudget
<1>3. u \in Task /\ Spare(u, k, x) => attempts[u] <= mem[u].retried
  BY DEF Budget
<1> QED  BY <1>1, <1>2, <1>3, BudgetOfOthers DEF Uncounted

\* A handler that holds another task, or none, is another one.
LEMMA BudgetApi ==
    ASSUME Custody, Budget, "webhook" \notin Faults, NEW u \in Task, Api(u) \/ Finisher(u)
    PROVE  Budget'
<1> USE Owners
<1>1. Exclusive /\ TypeOK
  BY DEF Custody
<1>2. UNCHANGED <<attempts, handler>>
  BY DEF Api, CreateTask, ArrivingEnqueue, CancelRead, CancelWrite, Finisher, TaskFinish,
     TaskFinishFails, conns
<1>3. CASE CreateTask(u)
  <2>1. AtMost(u, "arriving", NoConn)
    BY <1>1, <1>3, CreateMoves, Bounded
  <2>2. /\ db' = [db EXCEPT ![u] = Stored(mem[u])] /\ mem' = mem /\ ~db[u].present
        /\ db \in [Task -> Document]
    BY <1>1, <1>3 DEF CreateTask, TypeOK, ObjectsOK
  <2>3. db'[u].present /\ \A t \in Task \ {u} : db'[t] = db[t]
    BY <2>2 DEF Stored
  <2>4. attempts[u] = 0 /\ mem[u].retried <= MaxRetry[u] /\ mem[u].retried \in Nat
    BY <1>1, <2>2 DEF Budget, AttemptBudget, TypeOK, ObjectsOK, TaskObject
  <2> QED  BY <1>2, <2>1, <2>2, <2>3, <2>4, BudgetOfOthers
<1>4. CASE ArrivingEnqueue(u)
  <2>1. PICK d \in Bucket : Held(u, "arriving", NoConn) /\ AtMost(u, "queue", d)
    BY <1>1, <1>4, EnqueueMoves, Bounded
  <2>2. Uncounted
    BY <1>2, <1>4 DEF ArrivingEnqueue, objects, Uncounted
  <2>3. Spare(u, "arriving", NoConn)
    BY DEF Spare
  <2> QED  BY <1>2, <2>1, <2>2, <2>3, BudgetCarried
<1>5. CASE TaskFinish(u)
  <2>1. Held(u, "finisher", NoConn) /\ AtMost(u, "finisher", NoConn)
    BY <1>1, <1>5, FinishMoves, Bounded
  <2>2. db[u].present
    BY <2>1, HeldOnce
  <2>3. Uncounted
    <3> DEFINE o == [mem[u] EXCEPT !.status = "finished"]
    <3>1. Write(u, o) /\ o.retried = mem[u].retried
      BY <1>1, <1>5 DEF TaskFinish, TypeOK, ObjectsOK, TaskObject
    <3> QED  BY <1>1, <1>2, <2>2, <3>1, WriteUncounted
  <2>4. ~Spare(u, "finisher", NoConn)'
    BY DEF Spare
  <2> QED  BY <1>2, <2>1, <2>3, <2>4, BudgetCarried
<1>6. CASE CancelRead(u) \/ CancelWrite(u)
  <2>1. UNCHANGED <<mem, dispatcher, conns, remote, finishers>>
    BY <1>6 DEF CancelRead, CancelWrite
  <2>2. \A t \in Task : db[t].present => db'[t].present
    <3>1. CASE CancelRead(u)
      BY <3>1 DEF CancelRead
    <3>2. CASE CancelWrite(u)
      <4>1. PICK w : db' = [db EXCEPT ![u] = [present |-> TRUE, status |-> "finished",
                                              worker |-> w, cancelled |-> TRUE]]
        BY <3>2 DEF CancelWrite
      <4>2. db'[u].present /\ \A t \in Task \ {u} : db'[t] = db[t]
        BY <1>1, <4>1 DEF TypeOK, ObjectsOK
      <4> QED  BY <4>2
    <3> QED  BY <1>6, <3>1, <3>2
  <2>3. Stay
    BY <2>1, SameHands DEF dispatcher, conns, remote, Stay
  <2>4. \A t \in Task, k \in Kind, x \in Owner :
           (Held(t, k, x)' <=> Held(t, k, x)) /\ (Spare(t, k, x)' <=> Spare(t, k, x))
    BY <1>2, <2>3 DEF Stay, Same, Spare
  <2> QED  BY <1>2, <2>1, <2>2, <2>4 DEF Budget, AttemptBudget
<1> QED  BY <1>3, <1>4, <1>5, <1>6 DEF Api, Finisher, TaskFinishFails

LEMMA BudgetBucket ==
    ASSUME Custody, Budget, "slow" \notin Faults, NEW b \in Bucket, BucketWorker(b)
    PROVE  Budget'
<1> USE Owners
<1>1. Exclusive /\ TypeOK
  BY DEF Custody
<1>2. UNCHANGED handler
  BY DEF BucketWorker, PopTask, findNoConn, findPanics, findSuitableConn, AssignTask,
        AssignRefused, ConvertFails, RecordAssignment, SendOk, SendFails, SendTimesOut,
        SendPanics, RevertAssignment, ClearAfterFailure, RequeueTask, conns
<1>3. CASE PopTask(b)
  <2>1. PICK u \in Task : Held(u, "queue", b) /\ AtMost(u, "bucket", b)
    BY <1>1, <1>3, PopMoves, Bounded
  <2>2. Uncounted /\ Spare(u, "queue", b)
    BY <1>3 DEF PopTask, objects, Uncounted, Spare
  <2> QED  BY <1>2, <2>1, <2>2, BudgetCarried
<1>4. ASSUME ~PopTask(b)
      PROVE  bucket[b].task \in Task /\ Held(bucket[b].task, "bucket", b)
             /\ Spare(bucket[b].task, "bucket", b) /\ db[bucket[b].task].present
  <2>1. bucket[b].pc # "pop"
    BY <1>4
    DEF BucketWorker, findNoConn, findPanics, findSuitableConn, AssignTask,
        AssignRefused, ConvertFails, RecordAssignment, SendOk, SendFails, SendTimesOut,
        SendPanics, RevertAssignment, ClearAfterFailure, RequeueTask, BucketAt
  <2>2. bucket[b].task \in Task /\ Held(bucket[b].task, "bucket", b)
    BY <1>1, <2>1, BucketHolds
  <2>3. db[bucket[b].task].present /\ Spare(bucket[b].task, "bucket", b)
    BY <2>2, HeldOnce DEF Spare
  <2> QED  BY <2>2, <2>3
<1>5. CASE SendOk(b)
  <2>1. PICK u \in Task : u = bucket[b].task /\ db[u].present /\ attempts[u] <= mem[u].retried
    BY <1>4, <1>5 DEF SendOk, PopTask, BucketAt, Budget
  <2>2. PICK c \in Conn : AtMost(u, "inbox", c)
    BY <1>1, <1>5, <2>1, SendMoves, Bounded
  <2>3. /\ attempts' = [attempts EXCEPT ![u] = @ + 1] /\ attempts \in [Task -> Nat]
        /\ mem' = mem /\ db' = db
    BY <1>1, <1>5, <2>1 DEF SendOk, objects, TypeOK, CountsOK
  <2>4. attempts'[u] = attempts[u] + 1 /\ \A t \in Task \ {u} : attempts'[t] = attempts[t]
    BY <2>3
  <2>5. /\ mem[u].retried \in Nat /\ mem[u].retried <= MaxRetry[u] /\ attempts[u] \in Nat
    BY <1>1, <2>3 DEF TypeOK, ObjectsOK, TaskObject, Budget, AttemptBudget
  <2>6. ~Spare(u, "inbox", c)'
    BY DEF Spare
  <2> QED  BY <1>2, <2>1, <2>2, <2>3, <2>4, <2>5, <2>6, BudgetOfOthers
<1>6. CASE RequeueTask(b)
  <2>1. PICK u \in Task, d \in Bucket : u = bucket[b].task /\ AtMost(u, "queue", d)
    BY <1>1, <1>6, RequeueMoves, Bounded
  <2>2. Uncounted /\ Held(u, "bucket", b) /\ Spare(u, "bucket", b)
    BY <1>4, <1>6, <2>1 DEF RequeueTask, PopTask, BucketAt, objects, Uncounted
  <2> QED  BY <1>2, <2>1, <2>2, BudgetCarried
<1>7. CASE RecordAssignment(b) \/ RevertAssignment(b)
  <2>1. PICK u \in Task : /\ u = bucket[b].task /\ Held(u, "bucket", b)
                          /\ Spare(u, "bucket", b) /\ db[u].present
    BY <1>4, <1>7 DEF RecordAssignment, RevertAssignment, PopTask, BucketAt
  <2>2. InPlace(b)
    BY <1>1, <1>7
    DEF RecordAssignment, RevertAssignment, InPlace, Goto, TypeOK, DispatcherOK, conns, remote
  <2>3. AtMost(u, "bucket", b)
    BY <1>1, <2>1, <2>2, InPlaceStays, Bounded
  <2>4. PICK o : Write(u, o) /\ o.retried = mem[u].retried /\ UNCHANGED attempts
    BY <1>1, <1>7, <2>1 DEF RecordAssignment, RevertAssignment, TypeOK, ObjectsOK, TaskObject
  <2>5. Uncounted
    BY <1>1, <2>1, <2>4, WriteUncounted
  <2> QED  BY <1>2, <2>1, <2>3, <2>5, BudgetCarried
<1>8. CASE findPanics(b) \/ SendPanics(b)
  <2>1. PICK u \in Task : u = bucket[b].task /\ Held(u, "bucket", b) /\ Spare(u, "bucket", b)
    BY <1>4, <1>8 DEF findPanics, SendPanics, PopTask, BucketAt
  <2>2. InPlace(b) /\ Uncounted
    BY <1>8 DEF findPanics, SendPanics, InPlace, dispatcher, conns, remote, objects, Uncounted
  <2>3. AtMost(u, "bucket", b)
    BY <1>1, <2>1, <2>2, InPlaceStays, Bounded
  <2> QED  BY <1>2, <2>1, <2>2, <2>3, BudgetCarried
<1>9. CASE \/ findNoConn(b) \/ AssignTask(b) \/ AssignRefused(b) \/ ConvertFails(b)
           \/ SendFails(b) \/ ClearAfterFailure(b) \/ \E c \in Conn : findSuitableConn(b, c)
  <2>1. PICK u \in Task : u = bucket[b].task /\ Held(u, "bucket", b) /\ Spare(u, "bucket", b)
    BY <1>4, <1>9
    DEF findNoConn, findSuitableConn, AssignTask, AssignRefused, ConvertFails, SendFails,
        ClearAfterFailure, PopTask, BucketAt
  <2>2. InPlace(b)
    BY <1>1, <1>9
    DEF findNoConn, findSuitableConn, AssignTask, AssignRefused, ConvertFails, SendFails,
        ClearAfterFailure, InPlace, Goto, TypeOK, DispatcherOK, conns, remote
  <2>3. Uncounted
    BY <1>9
    DEF findNoConn, findSuitableConn, AssignTask, AssignRefused, ConvertFails, SendFails,
        ClearAfterFailure, objects, Uncounted
  <2>4. AtMost(u, "bucket", b)
    BY <1>1, <2>1, <2>2, InPlaceStays, Bounded
  <2> QED  BY <1>2, <2>1, <2>3, <2>4, BudgetCarried
<1> QED  BY <1>3, <1>5, <1>6, <1>7, <1>8, <1>9 DEF BucketWorker, SendTimesOut

LEMMA BudgetConnection ==
    ASSUME Custody, Budget, NEW c \in Conn,
           Register(c) \/ Unregister(c) \/ RemoteWorker(c) \/ RejectReport(c)
    PROVE  Budget'
<1> USE Owners
<1>1. Exclusive /\ TypeOK /\ NoTask \notin Task
  BY WorkerManagerAssumption DEF Custody
<1>2. ~LateWrite(c)
  BY DEF LateWrite, Custody, IdleHandsEmpty
<1>3. UNCHANGED <<handler, attempts, mem, db>>
  BY <1>2
  DEF Register, HandleRegister, Reconnect, StoreSession, RegisterResponseOk,
      RegisterResponseFails, Unregister, RemoveConnection, CloseChannel, RemoteWorker,
      WorkerReceive, WorkerSwallows, WorkerIdle, WorkerReport, RejectReport, objects, conns
<1>4. Uncounted
  BY <1>3 DEF Uncounted
<1>5. \A u \in Task, y \in Owner : ~Spare(u, "worker", y)' /\ ~Spare(u, "outbox", y)'
  BY DEF Spare
<1>6. CASE \/ HandleRegister(c) \/ StoreSession(c) \/ RegisterResponseOk(c)
           \/ RegisterResponseFails(c) \/ Unregister(c) \/ WorkerIdle(c)
  <2>1. AtMost(NoTask, "worker", c)
    BY <1>1, <1>6, ConnectionMoves, WorkerIdleStays, Bounded
  <2> QED  BY <1>1, <1>3, <1>4, <2>1, BudgetCarried
<1>7. ASSUME NEW d \in Conn, Reconnect(c, d)  PROVE Budget'
  <2>1. PICK u : (u \in Task => Held(u, "worker", d)) /\ AtMost(u, "worker", c)
    BY <1>7, ReconnectMoves
  <2> QED  BY <1>3, <1>4, <1>5, <2>1, BudgetCarried
<1>8. CASE WorkerReceive(c)
  <2>1. PICK u \in Task : Held(u, "inbox", c) /\ AtMost(u, "worker", c)
    BY <1>1, <1>8, ReceiveMoves, Bounded
  <2> QED  BY <1>3, <1>4, <1>5, <2>1, BudgetCarried
<1>9. ASSUME NEW failed \in BOOLEAN, WorkerReport(c, failed)  PROVE Budget'
  <2>1. PICK u \in Task : Held(u, "worker", c) /\ AtMost(u, "outbox", c)
    BY <1>1, <1>9, ReportMoves, Bounded
  <2> QED  BY <1>3, <1>4, <1>5, <2>1, BudgetCarried
<1>10. CASE RejectReport(c)
  <2>1. PICK u \in Task : Held(u, "outbox", c) /\ AtMost(u, "outbox", c)
    BY <1>1, <1>10, HandleMoves, Bounded
  <2> QED  BY <1>3, <1>4, <1>5, <2>1, BudgetCarried
<1>11. CASE WorkerSwallows(c)
  <2>1. PICK u \in Task : Held(u, "worker", c) /\ AtMost(u, "worker", c)
    BY <1>1, <1>11, SwallowMoves, Bounded
  <2> QED  BY <1>3, <1>4, <1>5, <2>1, BudgetCarried
<1> QED  BY <1>2, <1>6, <1>7, <1>8, <1>9, <1>10, <1>11 DEF Register, RemoteWorker

LEMMA BudgetHandler ==
    ASSUME Custody, Budget, NEW c \in Conn,
           HandleReport(c) \/ TaskComplete(c) \/ TaskCompleteEnqueue(c)
    PROVE  Budget'
<1> USE Owners
<1>1. Exclusive /\ TypeOK
  BY DEF Custody
<1>2. UNCHANGED attempts
  BY DEF HandleReport, TaskComplete, TaskCompleteEnqueue
<1>3. handler \in [Conn -> [pc : HandlerStep, task : Task \cup {NoTask}]]
  BY <1>1 DEF TypeOK, ConnsOK
<1>4. CASE HandleReport(c)
  <2>1. PICK u \in Task : /\ u = Head(outbox[c]).task /\ Held(u, "outbox", c)
                          /\ AtMost(u, "handler", c)
    BY <1>1, <1>4, HandleMoves, Bounded
  <2>2. /\ mem' = [mem EXCEPT ![u].failed = Head(outbox[c]).failed] /\ db' = db
        /\ handler' = [handler EXCEPT ![c] = [pc |-> "settle", task |-> u]]
        /\ handler[c].pc = "idle" /\ mem \in [Task -> TaskObject]
    BY <1>1, <1>4, <2>1 DEF HandleReport, TypeOK, ObjectsOK
  <2>3. Uncounted
    BY <1>2, <2>2 DEF Uncounted, TaskObject
  <2>4. ~Spare(u, "handler", c)'
    BY <1>3, <2>2 DEF Spare
  <2>5. handler[c].task = NoTask
    BY <2>2 DEF Custody, IdleHandsEmpty
  <2>6. \A d \in Conn : handler[d].task \in Task \ {u} => handler'[d] = handler[d]
    BY <1>3, <2>2, <2>5, WorkerManagerAssumption
  <2> QED  BY <2>1, <2>3, <2>4, <2>6, BudgetCarried
<1>5. CASE TaskComplete(c)
  <2>1. PICK u \in Task : u = handler[c].task /\ Held(u, "handler", c)
    BY <1>5, CompleteMoves
  <2>2. /\ Write(u, Settled(u)) /\ db[u].present
        /\ handler' = [handler EXCEPT ![c] =
                IF Settled(u).status = "pending" THEN [pc |-> "enqueue", task |-> u]
                                                 ELSE [pc |-> "idle", task |-> NoTask]]
    BY <1>5, <2>1, HeldOnce DEF TaskComplete
  <2>3. \A d \in Conn : handler[d].task \in Task \ {u} => handler'[d] = handler[d]
    BY <1>3, <2>1, <2>2
  <2>4. /\ mem[u] \in TaskObject /\ mem[u].retried \in Nat /\ MaxRetry[u] \in Nat
        /\ attempts[u] \in Nat /\ attempts[u] <= mem[u].retried + 1
        /\ mem[u].retried <= MaxRetry[u]
    BY <1>1, WorkerManagerAssumption
    DEF TypeOK, ObjectsOK, TaskObject, CountsOK, Budget, AttemptBudget
  <2>5. CASE Settled(u).status = "pending"
    <3>1. AtMost(u, "handler", c)
      BY <1>1, <1>5, <2>1, <2>5, CompleteMoves, Bounded
    <3>2. Settled(u).retried = mem[u].retried + 1 /\ mem[u].retried < MaxRetry[u]
      BY <2>4, <2>5 DEF Settled, getTaskCompleteStatus, TaskObject
    <3>3. /\ mem'[u] = Settled(u) /\ db'[u].present
          /\ \A t \in Task \ {u} : mem'[t] = mem[t] /\ db'[t] = db[t]
      BY <1>1, <2>2 DEF Write, Stored, TypeOK, ObjectsOK
    <3>4. attempts'[u] <= mem'[u].retried /\ mem'[u].retried <= MaxRetry[u]
      BY <1>2, <2>4, <3>2, <3>3
    <3>5. attempts'[u] <= mem'[u].retried + 1
      BY <1>2, <2>4, <3>2, <3>3
    <3> QED  BY <1>2, <2>3, <3>1, <3>3, <3>4, <3>5, BudgetOfOthers
  <2>6. CASE Settled(u).status # "pending"
    <3>1. AtMost(u, "finisher", NoConn)
      BY <1>1, <1>5, <2>1, <2>6, CompleteMoves, Bounded
    <3>2. Settled(u).retried = mem[u].retried
      BY <2>4, <2>6 DEF Settled, TaskObject
    <3>3. Uncounted
      BY <1>1, <1>2, <2>2, <3>2, WriteUncounted
    <3>4. ~Spare(u, "finisher", NoConn)'
      BY DEF Spare
    <3> QED  BY <2>1, <2>3, <3>1, <3>3, <3>4, BudgetCarried
  <2> QED  BY <2>5, <2>6
<1>6. CASE TaskCompleteEnqueue(c)
  <2>1. PICK u \in Task, d \in Bucket : /\ u = handler[c].task /\ Held(u, "handler", c)
                                        /\ AtMost(u, "queue", d)
    BY <1>1, <1>6, CompleteEnqueueMoves, Bounded
  <2>2. Uncounted /\ Spare(u, "handler", c)
    BY <1>6 DEF TaskCompleteEnqueue, objects, Uncounted, Spare
  <2>3. \A e \in Conn : handler[e].task \in Task \ {u} => handler'[e] = handler[e]
    BY <1>3, <1>6, <2>1 DEF TaskCompleteEnqueue
  <2> QED  BY <2>1, <2>2, <2>3, BudgetCarried
<1> QED  BY <1>4, <1>5, <1>6

LEMMA BudgetInit == Init => Budget
<1> SUFFICES ASSUME Init  PROVE Budget
  OBVIOUS
<1>1. \A t \in Task : attempts[t] = 0 /\ mem[t].retried = 0 /\ MaxRetry[t] \in Nat
  BY WorkerManagerAssumption DEF Init, NewTask
<1> QED  BY <1>1 DEF Budget, AttemptBudget

LEMMA BudgetStep ==
    ASSUME "slow" \notin Faults, "webhook" \notin Faults, Custody, Budget, [Next]_vars
    PROVE  Budget'
<1>1. CASE UNCHANGED vars
  <2>1. Stay
    BY <1>1, SameHands, Owners DEF vars, dispatcher, conns, remote, Stay
  <2>2. Uncounted /\ UNCHANGED handler
    BY <1>1 DEF vars, objects, conns, Uncounted
  <2>3. NoTask \notin Task /\ NoConn \in Owner /\ "worker" \in Kind /\ Exclusive
    BY WorkerManagerAssumption, Owners DEF Custody
  <2>4. AtMost(NoTask, "worker", NoConn)
    BY <2>1, <2>3, Bounded
  <2> QED  BY <2>2, <2>3, <2>4, BudgetCarried
<1>2. ASSUME NEW c \in Conn, Register(c) \/ Handle(c) \/ Unregister(c) \/ RemoteWorker(c)
      PROVE  Budget'
  BY <1>2, BudgetConnection, BudgetHandler DEF Handle
<1> QED  BY <1>1, <1>2, BudgetApi, BudgetBucket DEF Next

-----------------------------------------------------------------------------
(* The theorems.                                                           *)

\* Without slow sends, custody holds in every state: a task is in one hand at
\* most, each hand is in line with the object and the document it holds, and
\* every session with the task its worker was given.
THEOREM CustodyHolds == ASSUME "slow" \notin Faults  PROVE Spec => []Custody
<1>1. Init => Custody
  BY CustodyInit
<1>2. Custody /\ [Next]_vars => Custody'
  BY CustodyStep
<1> QED  BY <1>1, <1>2, PTL DEF Spec

\* With any number of bucket workers, connections and tasks, and whatever
\* fails but the promptness of a send, no interleaving of dispatch, failure,
\* retry and reconnection leaves a task in two places.
THEOREM TaskInOnePlace == ASSUME "slow" \notin Faults  PROVE Spec => []SingleCustody
<1>1. Custody => SingleCustody
  BY OnePlace DEF SingleCustody
<1> QED  BY <1>1, CustodyHolds, PTL

\* The CurrentTask of every session and the task objects agree in every state,
\* so that no two tasks are ever on one worker's account.
THEOREM SessionsAgree == ASSUME "slow" \notin Faults  PROVE Spec => []SessionAgreement
<1>1. Custody => SessionAgreement
  BY DEF Custody
<1> QED  BY <1>1, CustodyHolds, PTL

\* A document the dispatcher finished is never written again but for a cancel that
\* had read it before, whatever else goes wrong and however many cancels there are.
THEOREM FinishedForGood == ASSUME "slow" \notin Faults  PROVE Spec => FinishedIsFinal
<1> DEFINE Kept ==
        \A t \in Task :
            /\ db[t].present /\ db[t].status = "finished" /\ ~db[t].cancelled
            /\ \A w \in Conn \cup {NoConn} : <<t, w>> \notin cancelling
            => db'[t] = db[t]
<1>1. ASSUME Custody, [Next]_vars  PROVE [Kept]_vars
  <2> SUFFICES ASSUME NEW t \in Task, db[t].present, db[t].status = "finished",
                      ~db[t].cancelled, db'[t] # db[t],
                      \A w \in Conn \cup {NoConn} : <<t, w>> \notin cancelling
               PROVE  FALSE
    OBVIOUS
  <2> QED  BY <1>1, WritersHold, HeldOnce
<1>2. Custody /\ [Next]_vars => [Kept]_vars
  BY <1>1
<1>3. FinishedIsFinal <=> [][Kept]_vars
  BY DEF FinishedIsFinal
<1> HIDE DEF Kept
<1> QED  BY <1>2, <1>3, CustodyHolds, PTL DEF Spec

\* Without slow sends and lost webhooks, a task is never written to a worker
\* more often than one attempt and the retries its failures were granted, and
\* these stay within MaxRetry.
THEOREM AttemptsWithinBudget ==
    ASSUME "slow" \notin Faults, "webhook" \notin Faults
    PROVE  Spec => []AttemptBudget
<1>1. Init => Custody /\ Budget
  BY CustodyInit, BudgetInit
<1>2. Custody /\ Budget /\ [Next]_vars => Custody' /\ Budget'
  BY CustodyStep, BudgetStep
<1>3. Custody /\ Budget => AttemptBudget
  BY DEF Budget
<1> QED  BY <1>1, <1>2, <1>3, PTL DEF Spec
=============================================================================
