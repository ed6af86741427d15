--------------------------- MODULE WorkerPoolProofs ---------------------------
(***************************************************************************)
(* Proofs about WorkerPool, for any number of workers, connections, bucket *)
(* workers and faults: what the connections map and the session documents  *)
(* say of a connection.                                                    *)
(***************************************************************************)
EXTENDS WorkerPool, TLAPS

-----------------------------------------------------------------------------
(* The inductive invariant.                                                *)

\* The connections a worker has yet to make are at no step.
Undialed ==
    \A w \in Worker, l \in Link : serve[w][l] # "none" => l <= dialed[w]

\* A connection under its id in the map since it published itself, unless a
\* former connection of the same provisioned worker is or was there.
ListedOrFormer ==
    \A w \in Worker, l \in Link :
        serve[w][l] \in {"published", "serving"} /\ listed[Id(w, l)] # l =>
            w \in Grown /\ \E m \in Link \ {l} : serve[w][m] # "none"

\* A connection that is over: at its end, or without heartbeats after it, the
\* document of its id goes.
Over == {"removed", "leaked", "closed"}
Live == {"checked", "published", "serving"}
Excused(w) == grow[w] = "failed" \/ \E m \in Link : serve[w][m] \in Over

\* Connections and processes of a provisioned worker come from its Grow.
Started ==
    \A w \in Grown : grow[w] = "idle" =>
        process[w] = "none" /\ \A l \in Link : serve[w][l] = "none"

\* The document of a provisioned worker is there from its Grow on; a connection
\* that needs it and has it not is not over itself, so that another one is.
MissingIsExcused ==
    \A w \in Grown : grow[w] # "idle" /\ Id(w, 0) \notin session => Excused(w)

RefusedIsExcused ==
    \A w \in Worker, l \in Link : serve[w][l] = "refused" => w \in Grown /\ Excused(w)

\* An external connection looks for no document, and that of a live one is there.
ExternalReported ==
    \A w \in Worker \ Grown, l \in Link :
        serve[w][l] # "found" /\ (serve[w][l] \in Live => Id(w, l) \in session)

\* Who gave a document its heartbeat still gives it one, or is over.
BeatenIsLive ==
    \A w \in Grown : Id(w, 0) \in beaten => \E m \in Link : serve[w][m] \in Live \cup Over

Documents ==
    Started /\ MissingIsExcused /\ RefusedIsExcused /\ ExternalReported /\ BeatenIsLive

Registry == Undialed /\ ListedIsServed /\ ListedOrFormer

Inv == TypeOK /\ Registry /\ Documents

-----------------------------------------------------------------------------
(* Lemmas about links, ids and the steps of a connection.                  *)

Stage == Ended \cup {"none", "dialing", "found", "checked", "published", "serving", "removed"}

LEMMA LinkIs ==
    /\ Link \subseteq Nat \ {0}
    /\ \A w \in Worker : MaxLink[w] \in Nat \ {0} /\ \A n \in 1..MaxLink[w] : n \in Link
<1>1. \A w \in Worker : MaxLink[w] \in Nat \ {0}
  BY WorkerPoolAssumption DEF Worker
<1>2. ASSUME NEW l \in Link  PROVE l \in Nat \ {0}
  <2>1. PICK w \in Worker : l \in 1..MaxLink[w]
    BY DEF Link
  <2> QED  BY <1>1, <2>1
<1>3. ASSUME NEW w \in Worker, NEW n \in 1..MaxLink[w]  PROVE n \in Link
  BY DEF Link
<1> QED  BY <1>1, <1>2, <1>3

\* An id belongs to one worker, to one connection of it if it is external.
LEMMA IdIs ==
    ASSUME NEW w \in Worker
    PROVE  /\ \A l \in Link : Id(w, l) \in Ids
           /\ \A v \in Worker, l \in Link, m \in Link :
                 Id(v, m) = Id(w, l) => v = w /\ (w \notin Grown => m = l)
           /\ w \in Grown => Id(w, 0) \in Ids /\ \A l \in Link : Id(w, l) = Id(w, 0)
<1>1. w \in Grown <=> w \notin External
  BY WorkerPoolAssumption DEF Worker
<1>2. \A l \in Link : Id(w, l) \in Ids
  BY DEF Ids
<1>3. ASSUME NEW v \in Worker, NEW l \in Link, NEW m \in Link, Id(v, m) = Id(w, l)
      PROVE  v = w /\ (w \notin Grown => m = l)
  BY <1>1, <1>3 DEF Id
<1>4. w \in Grown => \A l \in Link : Id(w, l) = Id(w, 0)
  BY <1>1 DEF Id
<1>5. 1 \in Link
  <2>1. 1 \in 1..MaxLink[w]
    BY LinkIs
  <2> QED  BY <2>1, LinkIs
<1> QED  BY <1>2, <1>3, <1>4, <1>5

LEMMA StepIs ==
    ASSUME TypeOK, NEW w \in Worker, NEW l \in Link, NEW s \in Stage, Step(w, l, s)
    PROVE  /\ serve' \in [Worker -> [Link -> Stage]] /\ serve'[w][l] = s
           /\ \A v \in Worker, m \in Link : v # w \/ m # l => serve'[v][m] = serve[v][m]
<1>1. serve \in [Worker -> [Link -> Stage]] /\ serve' = [serve EXCEPT ![w][l] = s]
  BY DEF TypeOK, Step, Stage
<1>2. serve' = [serve EXCEPT ![w] = [serve[w] EXCEPT ![l] = s]]
  BY <1>1
<1>3. [serve[w] EXCEPT ![l] = s] \in [Link -> Stage]
  BY <1>1
<1> QED  BY <1>1, <1>2, <1>3

LEMMA DialIs ==
    ASSUME TypeOK, NEW w \in Worker, Dial(w)
    PROVE  /\ dialed[w] + 1 \in Link /\ dialed[w] \in Nat
           /\ dialed'[w] = dialed[w] + 1 /\ linked'[w] = dialed[w] + 1
           /\ \A v \in Worker \ {w} : dialed'[v] = dialed[v] /\ linked'[v] = linked[v]
           /\ dialed' \in [Worker -> {0} \cup Link] /\ linked' \in [Worker -> {0} \cup Link]
           /\ Step(w, dialed[w] + 1, "dialing")
           /\ process[w] = "up" /\ "dialing" \in Stage
<1>1. dialed \in [Worker -> {0} \cup Link] /\ linked \in [Worker -> {0} \cup Link]
  BY DEF TypeOK
<1>2. dialed[w] \in Nat /\ MaxLink[w] \in Nat /\ dialed[w] < MaxLink[w]
  BY <1>1, LinkIs DEF Dial
<1>3. dialed[w] + 1 \in 1..MaxLink[w]
  BY <1>2
<1>4. dialed[w] + 1 \in Link
  BY <1>3, LinkIs
<1>5. /\ dialed' = [dialed EXCEPT ![w] = dialed[w] + 1]
      /\ linked' = [linked EXCEPT ![w] = dialed[w] + 1]
      /\ Step(w, dialed[w] + 1, "dialing") /\ process[w] = "up"
  BY DEF Dial, Step
<1> QED  BY <1>1, <1>2, <1>4, <1>5 DEF Stage

-----------------------------------------------------------------------------
(* Types.                                                                  *)

LEMMA TypeInit == Init => TypeOK
<1> SUFFICES ASSUME Init  PROVE TypeOK
  OBVIOUS
<1>1. /\ grow = [w \in Grown |-> "idle"] /\ dialed = [w \in Worker |-> 0]
      /\ linked = [w \in Worker |-> 0] /\ listed = [k \in Ids |-> 0]
      /\ expired = [w \in Grown |-> FALSE] /\ instance = [w \in Grown |-> FALSE]
      /\ session = {} /\ beaten = {} /\ root = FALSE /\ gone = FALSE
  BY DEF Init
<1>2. process \in [Worker -> {"none", "up", "dead"}]
  BY DEF Init
<1>3. serve \in [Worker -> [Link -> Stage]]
  BY DEF Init, Stage
<1> QED  BY <1>1, <1>2, <1>3 DEF TypeOK, Stage

\* Only the connections and their registry change.
LEMMA TypeKept ==
    ASSUME TypeOK, NEW w \in Worker, NEW l \in Link, NEW s \in Stage, Step(w, l, s),
           UNCHANGED <<grow, expired, instance, root, process, dialed, linked, gone>>,
           listed' \in [Ids -> {0} \cup Link], session' \subseteq Ids, beaten' \subseteq Ids
    PROVE  TypeOK'
BY StepIs DEF TypeOK, Stage

LEMMA TypeGrown ==
    ASSUME TypeOK, NEW w \in Grown,
           Grow(w) \/ GrowFails(w) \/ Expire(w) \/ GrowSteps(w) \/ Keeper(w)
    PROVE  TypeOK'
<1> USE DEF contexts, remote, registry
<1>1. w \in Worker /\ Id(w, 0) \in Ids
  BY IdIs DEF Worker
<1>2. CASE Grow(w)
  <2>1. grow' \in [Grown -> {"idle", "waiting", "assigning", "done", "failed"}]
        /\ process' \in [Worker -> {"none", "up", "dead"}]
        /\ session' \subseteq Ids
    BY <1>1, <1>2 DEF Grow, TypeOK
  <2>2. \A v \in Worker : process[v] = "up" => process'[v] = "up"
    BY <1>1, <1>2 DEF Grow, TypeOK
  <2> QED  BY <1>2, <2>1, <2>2 DEF Grow, TypeOK
<1>3. CASE Expire(w)
  BY <1>3 DEF Expire, TypeOK
<1>4. CASE WaitForWorkerReady(w)
  BY <1>4 DEF WaitForWorkerReady, TypeOK
<1>5. CASE WaitFails(w)
  BY <1>5 DEF WaitFails, Delete, TypeOK
<1>6. CASE Assign(w)
  BY <1>6 DEF Assign, TypeOK
<1>7. CASE AssignPanics(w)
  BY <1>7 DEF AssignPanics, TypeOK
<1>8. CASE CancelInstance(w)
  BY <1>8 DEF CancelInstance, TypeOK
<1>9. CASE Kill(w)
  BY <1>1, <1>9 DEF Kill, Die, TypeOK
<1>10. CASE ShutdownObeyed(w)
  BY <1>1, <1>10 DEF ShutdownObeyed, Die, TypeOK
<1>11. CASE ProcessWaited(w)
  BY <1>11 DEF ProcessWaited, TypeOK
<1>12. CASE GrowFails(w)
  BY <1>1, <1>12 DEF GrowFails, TypeOK
<1> QED
  BY <1>2, <1>3, <1>4, <1>5, <1>6, <1>7, <1>8, <1>9, <1>10, <1>11, <1>12
     DEF GrowSteps, Keeper

LEMMA TypeWorker ==
    ASSUME TypeOK, NEW w \in Worker, ProcessExits(w) \/ Dial(w) \/ Drop(w)
    PROVE  TypeOK'
<1> USE DEF contexts, remote, registry
<1>1. CASE ProcessExits(w)
  BY <1>1 DEF ProcessExits, Die, TypeOK
<1>2. CASE Dial(w)
  <2>1. serve' \in [Worker -> [Link -> Stage]]
    BY <1>2, DialIs, StepIs
  <2>2. \A v \in Worker : linked'[v] # 0 => process[v] = "up" /\ linked'[v] = dialed'[v]
    BY <1>2, DialIs DEF TypeOK
  <2> QED  BY <1>2, <2>1, <2>2, DialIs DEF Dial, TypeOK, Stage
<1>3. CASE Drop(w)
  BY <1>3 DEF Drop, TypeOK
<1> QED  BY <1>1, <1>2, <1>3

LEMMA TypeConnection ==
    ASSUME TypeOK, NEW w \in Worker, NEW l \in Link, Connection(w, l) \/ SessionExpires(w, l)
    PROVE  TypeOK'
<1> USE DEF contexts, remote, registry
<1>1. Id(w, l) \in Ids /\ listed \in [Ids -> {0} \cup Link] /\ session \subseteq Ids
      /\ beaten \subseteq Ids
  BY IdIs DEF TypeOK
<1>2. CASE RegisterCheck(w, l) \/ RegisterUpdate(w, l) \/ DeleteSession(w, l)
  <2>1. PICK s \in Stage : Step(w, l, s)
    BY <1>2 DEF RegisterCheck, RegisterUpdate, DeleteSession, Stage, Ended
  <2>2. session' \subseteq Ids /\ beaten' \subseteq Ids
    BY <1>1, <1>2 DEF RegisterCheck, RegisterUpdate, DeleteSession, Delete
  <2> QED
    BY <1>1, <1>2, <2>1, <2>2, TypeKept DEF RegisterCheck, RegisterUpdate, DeleteSession
<1>3. CASE RegisterPublish(w, l)
  <2>1. "published" \in Stage /\ listed' \in [Ids -> {0} \cup Link]
    BY <1>1, <1>3 DEF RegisterPublish, Stage
  <2> QED  BY <1>1, <1>3, <2>1, TypeKept DEF RegisterPublish
<1>4. CASE Registered(w, l)
  <2>1. PICK s \in Stage : Step(w, l, s)
    BY <1>4 DEF Registered, Stage, Ended
  <2> QED  BY <1>1, <1>4, <2>1, TypeKept DEF Registered
<1>5. CASE RemoveConnection(w, l)
  <2>1. "removed" \in Stage /\ listed' \in [Ids -> {0} \cup Link]
    BY <1>1, <1>5 DEF RemoveConnection, Stage
  <2> QED  BY <1>1, <1>5, <2>1, TypeKept DEF RemoveConnection
<1>6. CASE SessionExpires(w, l)
  BY <1>6 DEF SessionExpires, TypeOK
<1> QED  BY <1>2, <1>3, <1>4, <1>5, <1>6 DEF Connection

LEMMA TypeStep == TypeOK /\ [Next]_vars => TypeOK'
<1> SUFFICES ASSUME TypeOK, [Next]_vars  PROVE TypeOK'
  OBVIOUS
<1>1. CASE RootDone
  BY <1>1 DEF RootDone, TypeOK, contexts, remote, registry
<1>2. CASE Exit
  BY <1>2 DEF Exit, TypeOK, contexts, remote, registry
<1>3. CASE UNCHANGED vars
  BY <1>3 DEF vars, TypeOK, contexts, remote, registry
<1> QED  BY <1>1, <1>2, <1>3, TypeGrown, TypeWorker, TypeConnection DEF Next

-----------------------------------------------------------------------------
(* The connections and the map.                                            *)

LEMMA RegistryInit == Init => Registry
BY LinkIs DEF Init, Registry, Undialed, ListedIsServed, ListedOrFormer, Ids

LEMMA RegistryDial ==
    ASSUME TypeOK, Registry, NEW w \in Worker, Dial(w)
    PROVE  Registry'
<1>1. PICK n \in Link : n = dialed[w] + 1
  BY DialIs
<1>2. /\ serve'[w][n] = "dialing"
      /\ \A v \in Worker, m \in Link : v # w \/ m # n => serve'[v][m] = serve[v][m]
  BY <1>1, DialIs, StepIs
<1>3. UNCHANGED listed
  BY DEF Dial
<1>4. /\ dialed'[w] = n /\ dialed[w] \in Nat /\ n = dialed[w] + 1
      /\ \A v \in Worker \ {w} : dialed'[v] = dialed[v]
      /\ Link \subseteq Nat
  BY <1>1, DialIs, LinkIs
<1>5. serve[w][n] = "none"
  BY <1>4 DEF Registry, Undialed
<1>6. Undialed'
  <2> SUFFICES ASSUME NEW v \in Worker, NEW m \in Link, serve'[v][m] # "none"
               PROVE  m <= dialed'[v]
    BY DEF Undialed
  <2>1. CASE v = w /\ m = n
    BY <1>4, <2>1
  <2>2. CASE v # w
    BY <1>2, <1>4, <2>2 DEF Registry, Undialed
  <2>3. CASE v = w /\ m # n
    <3>1. m <= dialed[w]
      BY <1>2, <2>3 DEF Registry, Undialed
    <3> QED  BY <1>4, <2>3, <3>1
  <2> QED  BY <2>1, <2>2, <2>3
<1>7. ListedIsServed' /\ ListedOrFormer'
  BY <1>2, <1>3, <1>5 DEF Registry, ListedIsServed, ListedOrFormer
<1> QED  BY <1>6, <1>7 DEF Registry

\* The stage of a connection before and after each of its steps.
LEMMA ConnectionIs ==
    ASSUME TypeOK, NEW w \in Worker, NEW l \in Link, Connection(w, l)
    PROVE  \E s \in Stage \ {"none"} :
              /\ Step(w, l, s)
              /\ \/ RegisterCheck(w, l) /\ s \in {"failed", "refused", "found", "checked"}
                 \/ RegisterUpdate(w, l) /\ s \in {"failed", "checked"}
                 \/ RegisterPublish(w, l) /\ s = "published"
                 \/ Registered(w, l) /\ s \in {"serving", "leaked"}
                 \/ RemoveConnection(w, l) /\ s = "removed"
                 \/ DeleteSession(w, l) /\ s = "closed"
<1>1. CASE RegisterCheck(w, l)
  BY <1>1 DEF RegisterCheck, Stage, Ended
<1>2. CASE RegisterUpdate(w, l)
  BY <1>2 DEF RegisterUpdate, Stage, Ended
<1>3. CASE RegisterPublish(w, l)
  BY <1>3 DEF RegisterPublish, Stage
<1>4. CASE Registered(w, l)
  BY <1>4 DEF Registered, Stage, Ended
<1>5. CASE RemoveConnection(w, l)
  BY <1>5 DEF RemoveConnection, Stage
<1>6. CASE DeleteSession(w, l)
  BY <1>6 DEF DeleteSession, Stage, Ended
<1> QED  BY <1>1, <1>2, <1>3, <1>4, <1>5, <1>6 DEF Connection

LEMMA RegistryConnection ==
    ASSUME TypeOK, Registry, NEW w \in Worker, NEW l \in Link, Connection(w, l)
    PROVE  Registry'
<1> USE DEF contexts, remote, registry
<1>1. /\ listed \in [Ids -> {0} \cup Link] /\ \A v \in Worker, m \in Link : Id(v, m) \in Ids
      /\ \A m \in Link : m # 0
      /\ \A v \in Worker, m \in Link : Id(v, m) = Id(w, l) => v = w /\ (m # l => w \in Grown)
  BY IdIs, LinkIs DEF TypeOK
<1>2. PICK s \in Stage \ {"none"} :
         /\ Step(w, l, s)
         /\ \/ RegisterCheck(w, l) /\ s \in {"failed", "refused", "found", "checked"}
            \/ RegisterUpdate(w, l) /\ s \in {"failed", "checked"}
            \/ RegisterPublish(w, l) /\ s = "published"
            \/ Registered(w, l) /\ s \in {"serving", "leaked"}
            \/ RemoveConnection(w, l) /\ s = "removed"
            \/ DeleteSession(w, l) /\ s = "closed"
  BY ConnectionIs
<1>3. /\ serve'[w][l] = s
      /\ \A v \in Worker, m \in Link : v # w \/ m # l => serve'[v][m] = serve[v][m]
  BY <1>2, StepIs
<1>4. Undialed'
  <2>1. serve[w][l] # "none" /\ UNCHANGED dialed
    BY DEF Connection, RegisterCheck, RegisterUpdate, RegisterPublish, Registered,
           ServeEnded, RemoveConnection, DeleteSession
  <2> QED  BY <1>3, <2>1 DEF Registry, Undialed
<1>5. CASE RegisterCheck(w, l) \/ RegisterUpdate(w, l) \/ DeleteSession(w, l)
  <2>1. /\ serve[w][l] \in {"dialing", "found", "removed"} /\ UNCHANGED listed
        /\ s \notin {"published", "serving"}
    BY <1>2, <1>5
       DEF RegisterCheck, RegisterUpdate, DeleteSession, RegisterPublish, Registered
  <2>2. ListedIsServed'
    BY <1>3, <2>1 DEF Registry, ListedIsServed
  <2>3. ListedOrFormer'
    BY <1>2, <1>3, <2>1 DEF Registry, ListedOrFormer
  <2> QED  BY <1>4, <2>2, <2>3 DEF Registry
<1>6. CASE RegisterPublish(w, l)
  <2>1. /\ serve'[w][l] = "published"
        /\ listed' = [listed EXCEPT ![Id(w, l)] = l]
    BY <1>6, StepIs DEF RegisterPublish, Stage
  <2>2. /\ listed'[Id(w, l)] = l
        /\ \A v \in Worker, m \in Link : Id(v, m) # Id(w, l) => listed'[Id(v, m)] = listed[Id(v, m)]
    BY <1>1, <2>1
  <2>3. ListedIsServed'
    <3> SUFFICES ASSUME NEW v \in Worker, NEW m \in Link, listed'[Id(v, m)] = m
                 PROVE  serve'[v][m] \in {"published", "serving", "leaked"}
      BY DEF ListedIsServed
    <3>1. CASE Id(v, m) = Id(w, l)
      BY <1>1, <2>1, <2>2, <3>1
    <3>2. CASE Id(v, m) # Id(w, l)
      BY <1>3, <2>2, <3>2 DEF Registry, ListedIsServed
    <3> QED  BY <3>1, <3>2
  <2>4. ListedOrFormer'
    <3> SUFFICES ASSUME NEW v \in Worker, NEW m \in Link,
                        serve'[v][m] \in {"published", "serving"}, listed'[Id(v, m)] # m
                 PROVE  v \in Grown /\ \E n \in Link \ {m} : serve'[v][n] # "none"
      BY DEF ListedOrFormer
    <3>1. CASE Id(v, m) = Id(w, l)
      BY <1>1, <2>1, <2>2, <3>1
    <3>2. CASE Id(v, m) # Id(w, l)
      BY <1>2, <1>3, <2>2, <3>2 DEF Registry, ListedOrFormer
    <3> QED  BY <3>1, <3>2
  <2> QED  BY <1>4, <2>3, <2>4 DEF Registry
<1>7. CASE Registered(w, l)
  <2>1. /\ serve[w][l] = "published" /\ UNCHANGED listed
        /\ serve'[w][l] \in {"serving", "leaked"}
    <3>1. PICK r \in {"serving", "leaked"} : Step(w, l, r)
      BY <1>7 DEF Registered
    <3>2. serve'[w][l] = r
      BY <3>1, StepIs DEF Stage, Ended
    <3> QED  BY <1>7, <3>2 DEF Registered
  <2>2. ListedIsServed'
    BY <1>3, <2>1 DEF Registry, ListedIsServed
  <2>3. ListedOrFormer'
    BY <1>2, <1>3, <2>1 DEF Registry, ListedOrFormer
  <2> QED  BY <1>4, <2>2, <2>3 DEF Registry
<1>8. CASE RemoveConnection(w, l)
  <2>1. /\ serve'[w][l] = "removed"
        /\ listed' = [listed EXCEPT ![Id(w, l)] = 0]
    BY <1>8, StepIs DEF RemoveConnection, Stage
  <2>2. /\ listed'[Id(w, l)] = 0
        /\ \A v \in Worker, m \in Link : Id(v, m) # Id(w, l) => listed'[Id(v, m)] = listed[Id(v, m)]
    BY <1>1, <2>1
  <2>3. ListedIsServed'
    <3> SUFFICES ASSUME NEW v \in Worker, NEW m \in Link, listed'[Id(v, m)] = m
                 PROVE  serve'[v][m] \in {"published", "serving", "leaked"}
      BY DEF ListedIsServed
    <3>1. Id(v, m) # Id(w, l)
      BY <1>1, <2>2
    <3> QED  BY <1>3, <2>2, <3>1 DEF Registry, ListedIsServed
  <2>4. ListedOrFormer'
    <3> SUFFICES ASSUME NEW v \in Worker, NEW m \in Link,
                        serve'[v][m] \in {"published", "serving"}, listed'[Id(v, m)] # m
                 PROVE  v \in Grown /\ \E n \in Link \ {m} : serve'[v][n] # "none"
      BY DEF ListedOrFormer
    <3>1. CASE Id(v, m) = Id(w, l)
      BY <1>1, <2>1, <3>1
    <3>2. CASE Id(v, m) # Id(w, l)
      BY <1>2, <1>3, <2>2, <3>2 DEF Registry, ListedOrFormer
    <3> QED  BY <3>1, <3>2
  <2> QED  BY <1>4, <2>3, <2>4 DEF Registry
<1> QED  BY <1>5, <1>6, <1>7, <1>8 DEF Connection

LEMMA RegistryStep == TypeOK /\ Registry /\ [Next]_vars => Registry'
<1> SUFFICES ASSUME TypeOK, Registry, [Next]_vars  PROVE Registry'
  OBVIOUS
<1> USE DEF contexts, remote, registry
<1>1. ASSUME UNCHANGED <<serve, listed, dialed>>  PROVE Registry'
  BY <1>1 DEF Registry, Undialed, ListedIsServed, ListedOrFormer
<1>2. CASE RootDone \/ Exit \/ UNCHANGED vars
  BY <1>1, <1>2 DEF RootDone, Exit, vars
<1>3. ASSUME NEW w \in Grown, Grow(w) \/ GrowFails(w) \/ Expire(w) \/ GrowSteps(w) \/ Keeper(w)
      PROVE  Registry'
  BY <1>1, <1>3
     DEF Grow, GrowFails, Expire, GrowSteps, WaitForWorkerReady, WaitFails, Assign,
         AssignPanics, Keeper, CancelInstance, Kill, ShutdownObeyed, ProcessWaited
<1>4. ASSUME NEW w \in Worker, ProcessExits(w) \/ Drop(w)  PROVE Registry'
  BY <1>1, <1>4 DEF ProcessExits, Die, Drop
<1>5. ASSUME NEW w \in Worker, NEW l \in Link, SessionExpires(w, l)  PROVE Registry'
  BY <1>1, <1>5 DEF SessionExpires
<1> QED  BY <1>2, <1>3, <1>4, <1>5, RegistryDial, RegistryConnection DEF Next

-----------------------------------------------------------------------------
(* The session documents.                                                  *)

LEMMA DocumentsInit == Init => Documents
<1> SUFFICES ASSUME Init  PROVE Documents
  OBVIOUS
<1>1. /\ \A w \in Grown : grow[w] = "idle" /\ w \in Worker /\ w \notin External
      /\ \A w \in Worker, l \in Link : serve[w][l] = "none"
      /\ \A w \in Grown : process[w] = "none"
      /\ beaten = {}
  BY WorkerPoolAssumption DEF Init, Worker
<1> QED
  BY <1>1
     DEF Documents, Started, MissingIsExcused, RefusedIsExcused, ExternalReported,
         BeatenIsLive, Live

\* Steps of a Grow, a process or the controller: the connections stay.
LEMMA DocumentsSame ==
    ASSUME Documents, UNCHANGED <<serve, beaten>>,
           \A w \in Grown : grow[w] = "failed" => grow'[w] = "failed",
           \A w \in Grown : grow'[w] = "idle" => grow[w] = "idle" /\ process'[w] = process[w],
           \A w \in Grown : grow'[w] # "idle" /\ Id(w, 0) \notin session' =>
              grow'[w] = "failed" \/ (grow[w] # "idle" /\ Id(w, 0) \notin session),
           \A w \in Worker \ Grown, l \in Link : Id(w, l) \in session => Id(w, l) \in session'
    PROVE  Documents'
<1>1. \A w \in Grown : Excused(w) => Excused(w)'
  BY DEF Excused
<1>2. Started' /\ BeatenIsLive' /\ ExternalReported'
  BY DEF Documents, Started, BeatenIsLive, ExternalReported
<1>3. MissingIsExcused'
  BY <1>1 DEF Documents, MissingIsExcused, Excused
<1>4. RefusedIsExcused'
  BY <1>1 DEF Documents, RefusedIsExcused
<1> QED  BY <1>2, <1>3, <1>4 DEF Documents

LEMMA DocumentsGrown ==
    ASSUME TypeOK, Documents, NEW w \in Grown,
           Grow(w) \/ GrowFails(w) \/ Expire(w) \/ GrowSteps(w) \/ Keeper(w)
    PROVE  Documents'
<1> USE DEF contexts, remote, registry
<1>1. /\ w \in Worker /\ Grown \subseteq Worker
      /\ grow \in [Grown -> {"idle", "waiting", "assigning", "done", "failed"}]
      /\ process \in [Worker -> {"none", "up", "dead"}]
  BY DEF TypeOK, Worker
<1>2. \A v \in Worker, m \in Link : Id(v, m) = Id(w, 0) => v = w
  BY <1>1, IdIs
<1>3. \A v \in Grown : Id(v, 0) = Id(w, 0) => v = w
  BY <1>1, <1>2, IdIs, LinkIs, WorkerPoolAssumption DEF Id, Worker
<1>4. CASE Grow(w)
  BY <1>1, <1>4, DocumentsSame DEF Grow
<1>5. CASE GrowFails(w)
  BY <1>1, <1>5, DocumentsSame DEF GrowFails
<1>6. CASE WaitForWorkerReady(w) \/ Assign(w) \/ AssignPanics(w)
  BY <1>1, <1>6, DocumentsSame DEF WaitForWorkerReady, Assign, AssignPanics
<1>7. CASE WaitFails(w)
  <2>1. /\ grow' = [grow EXCEPT ![w] = "failed"] /\ grow[w] = "waiting"
        /\ session' = session \/ session' = session \ {Id(w, 0)}
        /\ UNCHANGED <<serve, beaten, process>>
    BY <1>7 DEF WaitFails, Delete
  <2> QED  BY <1>1, <1>2, <1>3, <2>1, DocumentsSame
<1>8. CASE Expire(w) \/ CancelInstance(w) \/ ProcessWaited(w)
  BY <1>8, DocumentsSame DEF Expire, CancelInstance, ProcessWaited
<1>9. CASE Kill(w) \/ ShutdownObeyed(w)
  <2>1. grow[w] # "idle"
    BY <1>9 DEF Kill, ShutdownObeyed, Documents, Started
  <2> QED  BY <1>1, <1>9, <2>1, DocumentsSame DEF Kill, ShutdownObeyed, Die
<1> QED  BY <1>4, <1>5, <1>6, <1>7, <1>8, <1>9 DEF GrowSteps, Keeper

LEMMA DocumentsWorker ==
    ASSUME TypeOK, Registry, Documents, NEW w \in Worker, ProcessExits(w) \/ Dial(w) \/ Drop(w)
    PROVE  Documents'
<1> USE DEF contexts, remote, registry
<1>1. CASE ProcessExits(w)
  <2>1. w \in Grown => grow[w] # "idle"
    BY <1>1 DEF ProcessExits, Documents, Started
  <2>2. \A v \in Grown : grow[v] = "idle" => process'[v] = process[v]
    BY <1>1, <2>1 DEF ProcessExits, Die, TypeOK, Worker
  <2> QED  BY <1>1, <2>2, DocumentsSame DEF ProcessExits, Die
<1>2. CASE Drop(w)
  BY <1>2, DocumentsSame DEF Drop
<1>3. CASE Dial(w)
  <2>1. PICK n \in Link : n = dialed[w] + 1
    BY <1>3, DialIs
  <2>2. /\ serve'[w][n] = "dialing"
        /\ \A v \in Worker, m \in Link : v # w \/ m # n => serve'[v][m] = serve[v][m]
    BY <1>3, <2>1, DialIs, StepIs
  <2>3. serve[w][n] = "none"
    BY <1>3, <2>1, DialIs, LinkIs DEF Registry, Undialed
  <2>4. /\ UNCHANGED <<grow, process, session, beaten>>
        /\ w \in Grown => grow[w] # "idle"
    BY <1>3 DEF Dial, Documents, Started
  <2>5. \A v \in Worker, m \in Link :
           serve[v][m] \in Live \cup Over => serve'[v][m] = serve[v][m]
    BY <2>2, <2>3 DEF Live, Over
  <2>6. \A v \in Grown : Excused(v) => Excused(v)'
    BY <2>4, <2>5 DEF Excused, Worker
  <2>7. Started'
    BY <2>2, <2>4 DEF Documents, Started, Worker
  <2>8. MissingIsExcused' /\ RefusedIsExcused'
    BY <2>2, <2>4, <2>6 DEF Documents, MissingIsExcused, RefusedIsExcused
  <2>9. ExternalReported'
    BY <2>2, <2>4 DEF Documents, ExternalReported, Live
  <2>10. BeatenIsLive'
    BY <2>4, <2>5 DEF Documents, BeatenIsLive, Worker
  <2> QED  BY <2>7, <2>8, <2>9, <2>10 DEF Documents
<1> QED  BY <1>1, <1>2, <1>3

LEMMA DocumentsConnection ==
    ASSUME TypeOK, Documents, NEW w \in Worker, NEW l \in Link, Connection(w, l)
    PROVE  Documents'
<1> USE DEF contexts, remote, registry
<1>1. PICK s \in Stage \ {"none"} :
         /\ Step(w, l, s)
         /\ \/ RegisterCheck(w, l) /\ s \in {"failed", "refused", "found", "checked"}
            \/ RegisterUpdate(w, l) /\ s \in {"failed", "checked"}
            \/ RegisterPublish(w, l) /\ s = "published"
            \/ Registered(w, l) /\ s \in {"serving", "leaked"}
            \/ RemoveConnection(w, l) /\ s = "removed"
            \/ DeleteSession(w, l) /\ s = "closed"
  BY ConnectionIs
<1>2. /\ serve'[w][l] = s
      /\ \A v \in Worker, m \in Link : v # w \/ m # l => serve'[v][m] = serve[v][m]
  BY <1>1, StepIs
<1>3. /\ UNCHANGED <<grow, process>> /\ serve[w][l] # "none"
      /\ w \in Grown => grow[w] # "idle"
  BY DEF Connection, RegisterCheck, RegisterUpdate, RegisterPublish, Registered,
         ServeEnded, RemoveConnection, DeleteSession, Documents, Started
<1>4. /\ w \in Grown <=> w \notin External
      /\ Grown \subseteq Worker
      /\ \A v \in Worker, m \in Link : Id(v, m) = Id(w, l) => v = w /\ (m # l => w \in Grown)
      /\ w \in Grown => Id(w, l) = Id(w, 0)
      /\ \A v \in Grown : Id(v, l) = Id(v, 0)
  BY IdIs, WorkerPoolAssumption DEF Worker
\* What a connection was is what it becomes, or more than that.
<1>5. /\ serve[w][l] \in Over => s \in Over
      /\ serve[w][l] \in Live => s \in Live \cup Over
  BY <1>1
     DEF RegisterCheck, RegisterUpdate, RegisterPublish, Registered, ServeEnded,
         RemoveConnection, DeleteSession, Live, Over
<1>6. \A v \in Grown : Excused(v) => Excused(v)'
  BY <1>2, <1>3, <1>4, <1>5 DEF Excused
<1>7. Started'
  BY <1>2, <1>3, <1>4 DEF Documents, Started
<1>8. /\ s = "checked" /\ w \notin Grown => Id(w, l) \in session'
      /\ \A k : k \in session /\ k \notin session' => k = Id(w, l) /\ s = "closed"
      /\ \A k : k \in beaten' /\ k \notin beaten => k = Id(w, l) /\ s = "checked"
      /\ s = "refused" => w \in Grown /\ Id(w, l) \notin session
      /\ s = "found" => w \in Grown
  <2>1. CASE RegisterCheck(w, l)
    <3>1. CASE s = "checked"
      <4>1. \A r \in Stage : Step(w, l, r) => r = s
        BY <1>2, StepIs
      <4>2. "failed" \in Stage /\ "found" \in Stage /\ "refused" \in Stage
        BY DEF Stage, Ended
      <4>3. /\ session' = session \cup {Id(w, l)} /\ beaten' = beaten \cup {Id(w, l)}
        BY <2>1, <3>1, <4>1, <4>2 DEF RegisterCheck
      <4> QED  BY <3>1, <4>3
    <3>2. CASE s # "checked"
      <4>1. \A r \in Stage : Step(w, l, r) => r = s
        BY <1>2, StepIs
      <4>2. {"failed", "found", "refused", "checked"} \subseteq Stage
        BY DEF Stage, Ended
      <4>3. /\ UNCHANGED <<session, beaten>>
            /\ s = "refused" => w \in Grown /\ Id(w, l) \notin session
            /\ s = "found" => w \in Grown
        BY <2>1, <3>2, <4>1, <4>2 DEF RegisterCheck
      <4> QED  BY <3>2, <4>3
    <3> QED  BY <3>1, <3>2
  <2>2. CASE RegisterUpdate(w, l)
    <3>1. \A r \in Stage : Step(w, l, r) => r = s
      BY <1>2, StepIs
    <3>2. {"failed", "checked"} \subseteq Stage
      BY DEF Stage, Ended
    <3>3. /\ UNCHANGED session
          /\ (s = "failed" /\ UNCHANGED beaten)
             \/ (s = "checked" /\ beaten' = beaten \cup (session \cap {Id(w, l)}))
      BY <2>2, <3>1, <3>2 DEF RegisterUpdate
    <3>4. w \in Grown
      BY <2>2 DEF RegisterUpdate, Documents, ExternalReported
    <3> QED  BY <3>3, <3>4
  <2>3. CASE DeleteSession(w, l)
    <3>1. s = "closed" /\ UNCHANGED beaten /\ (session' = session \/ session' = session \ {Id(w, l)})
      BY <1>1, <2>3
         DEF RegisterCheck, RegisterUpdate, RegisterPublish, Registered, ServeEnded,
             RemoveConnection, DeleteSession, Delete
    <3> QED  BY <3>1
  <2>4. CASE RegisterPublish(w, l) \/ Registered(w, l) \/ RemoveConnection(w, l)
    <3>1. UNCHANGED <<session, beaten>> /\ s \notin {"checked", "refused", "found"}
      BY <1>1, <2>4
         DEF RegisterCheck, RegisterUpdate, RegisterPublish, Registered, ServeEnded,
             RemoveConnection, DeleteSession
    <3> QED  BY <3>1
  <2> QED  BY <2>1, <2>2, <2>3, <2>4 DEF Connection
<1>9. MissingIsExcused'
  <2> SUFFICES ASSUME NEW v \in Grown, grow[v] # "idle", Id(v, 0) \notin session'
               PROVE  Excused(v)'
    BY <1>3 DEF MissingIsExcused
  <2>1. CASE Id(v, 0) \notin session
    BY <1>6, <2>1 DEF Documents, MissingIsExcused
  <2>2. CASE Id(v, 0) \in session
    <3>1. Id(v, l) = Id(w, l) /\ s = "closed"
      BY <1>4, <1>8, <2>2
    <3>2. v = w
      BY <1>4, <3>1
    <3> QED  BY <1>2, <3>1, <3>2 DEF Excused, Over
  <2> QED  BY <2>1, <2>2
<1>10. RefusedIsExcused'
  <2> SUFFICES ASSUME NEW v \in Worker, NEW m \in Link, serve'[v][m] = "refused"
               PROVE  v \in Grown /\ Excused(v)'
    BY DEF RefusedIsExcused
  <2>1. CASE v = w /\ m = l
    <3>1. w \in Grown /\ Id(w, 0) \notin session /\ grow[w] # "idle"
      BY <1>2, <1>3, <1>4, <1>8, <2>1
    <3>2. Excused(w)
      BY <3>1 DEF Documents, MissingIsExcused
    <3> QED  BY <1>6, <2>1, <3>1, <3>2
  <2>2. CASE v # w \/ m # l
    BY <1>2, <1>6, <2>2 DEF Documents, RefusedIsExcused
  <2> QED  BY <2>1, <2>2
<1>11. ExternalReported'
  <2> SUFFICES ASSUME NEW v \in Worker \ Grown, NEW m \in Link
               PROVE  serve'[v][m] # "found" /\ (serve'[v][m] \in Live => Id(v, m) \in session')
    BY DEF ExternalReported
  <2>1. CASE v = w /\ m = l
    <3>1. s # "found" /\ (s \in Live \ {"checked"} => serve[w][l] \in Live)
      BY <1>1, <1>2, <1>8, <2>1
         DEF RegisterCheck, RegisterUpdate, RegisterPublish, Registered, ServeEnded,
             RemoveConnection, DeleteSession, Live
    <3>2. CASE s = "checked"
      BY <1>2, <1>8, <2>1, <3>2
    <3>3. CASE s \in Live \ {"checked"}
      <4>1. Id(w, l) \in session /\ s # "closed"
        BY <2>1, <3>1, <3>3 DEF Documents, ExternalReported, Live
      <4> QED  BY <1>2, <1>8, <2>1, <3>1, <4>1
    <3> QED  BY <1>2, <2>1, <3>1, <3>2, <3>3
  <2>2. CASE v # w \/ m # l
    <3>1. serve[v][m] # "found" /\ (serve[v][m] \in Live => Id(v, m) \in session)
      BY DEF Documents, ExternalReported
    <3>2. Id(v, m) # Id(w, l)
      BY <1>4, <2>2
    <3> QED  BY <1>2, <1>8, <2>2, <3>1, <3>2
  <2> QED  BY <2>1, <2>2
<1>12. BeatenIsLive'
  <2> SUFFICES ASSUME NEW v \in Grown, Id(v, 0) \in beaten'
               PROVE  \E m \in Link : serve'[v][m] \in Live \cup Over
    BY DEF BeatenIsLive
  <2>1. CASE Id(v, 0) \in beaten
    <3>1. PICK m \in Link : serve[v][m] \in Live \cup Over
      BY <2>1 DEF Documents, BeatenIsLive
    <3>2. serve'[v][m] \in Live \cup Over
      BY <1>2, <1>4, <1>5, <3>1
    <3> QED  BY <3>2
  <2>2. CASE Id(v, 0) \notin beaten
    <3>1. Id(v, l) = Id(w, l) /\ s = "checked"
      BY <1>4, <1>8, <2>2
    <3>2. v = w
      BY <1>4, <3>1
    <3> QED  BY <1>2, <3>1, <3>2 DEF Live
  <2> QED  BY <2>1, <2>2
<1> QED  BY <1>7, <1>9, <1>10, <1>11, <1>12 DEF Documents

LEMMA DocumentsExpire ==
    ASSUME TypeOK, Documents, NEW w \in Worker, NEW l \in Link, SessionExpires(w, l)
    PROVE  Documents'
<1> USE DEF contexts, remote, registry
<1>1. /\ session' = session \ {Id(w, l)} /\ Id(w, l) \in beaten
      /\ UNCHANGED <<grow, process, serve, beaten>>
      /\ \A m \in Link : Id(w, m) = Id(w, l) => serve[w][m] \notin Live
  BY DEF SessionExpires, Live
<1>2. /\ \A v \in Worker, m \in Link : Id(v, m) = Id(w, l) => v = w
      /\ \A v \in Grown, m \in Link : Id(v, m) = Id(v, 0)
      /\ Grown \subseteq Worker
  BY IdIs DEF Worker
<1>3. \A v \in Grown : Excused(v)' <=> Excused(v)
  BY <1>1 DEF Excused
<1>4. Started' /\ BeatenIsLive'
  BY <1>1 DEF Documents, Started, BeatenIsLive
<1>5. RefusedIsExcused'
  BY <1>1, <1>3 DEF Documents, RefusedIsExcused
<1>6. MissingIsExcused'
  <2> SUFFICES ASSUME NEW v \in Grown, grow[v] # "idle", Id(v, 0) \notin session'
               PROVE  Excused(v)
    BY <1>1, <1>3 DEF MissingIsExcused
  <2>1. CASE Id(v, 0) \notin session
    BY <2>1 DEF Documents, MissingIsExcused
  <2>2. CASE Id(v, 0) \in session
    <3>1. Id(v, l) = Id(w, l)
      BY <1>1, <1>2, <2>2
    <3>2. v = w
      BY <1>2, <3>1
    <3>3. \E m \in Link : serve[w][m] \in Live \cup Over
      BY <1>1, <1>2, <3>2 DEF Documents, BeatenIsLive
    <3>4. \A m \in Link : serve[w][m] \notin Live
      BY <1>1, <1>2, <3>2
    <3> QED  BY <3>2, <3>3, <3>4 DEF Excused
  <2> QED  BY <2>1, <2>2
<1>7. ExternalReported'
  BY <1>1, <1>2 DEF Documents, ExternalReported
<1> QED  BY <1>4, <1>5, <1>6, <1>7 DEF Documents

LEMMA DocumentsStep == TypeOK /\ Registry /\ Documents /\ [Next]_vars => Documents'
<1> SUFFICES ASSUME TypeOK, Registry, Documents, [Next]_vars  PROVE Documents'
  OBVIOUS
<1> USE DEF contexts, remote, registry
<1>1. CASE RootDone \/ Exit \/ UNCHANGED vars
  BY <1>1, DocumentsSame DEF RootDone, Exit, vars
<1> QED
  BY <1>1, DocumentsGrown, DocumentsWorker, DocumentsConnection, DocumentsExpire DEF Next

-----------------------------------------------------------------------------
(* The theorems.                                                           *)

LEMMA InvHolds == Spec => []Inv
<1>1. Init => Inv
  BY TypeInit, RegistryInit, DocumentsInit DEF Inv
<1>2. Inv /\ [Next]_vars => Inv'
  BY TypeStep, RegistryStep, DocumentsStep DEF Inv
<1> QED  BY <1>1, <1>2, PTL DEF Spec

\* Types; a worker holds no connection but the last it made, and none when its
\* process is gone.
THEOREM TypeCorrect == Spec => []TypeOK
BY InvHolds, PTL DEF Inv

\* The map never holds a connection that did not publish itself, and one that
\* ended only when its registration response failed.
THEOREM ListedServed == Spec => []ListedIsServed
BY InvHolds, PTL DEF Inv, Registry

\* A connection is served without being listed only if the provisioned worker it
\* belongs to has another one: RemoveConnection looks at the id only.
THEOREM HiddenIsBlamed == Spec => []HiddenBlamesFormerLink
<1>1. Inv => HiddenBlamesFormerLink
  BY DEF Inv, Registry, ListedOrFormer, HiddenBlamesFormerLink
<1> QED  BY <1>1, InvHolds, PTL

\* A connection is served without its document, or refused for want of it, only
\* if the Grow of its worker failed or another connection of that worker is over.
THEOREM ConnectedReported == Spec => []ConnectedIsReported
<1>1. Inv => ConnectedIsReported
  <2> SUFFICES ASSUME Inv, NEW w \in Worker, NEW l \in Link,
                      \/ serve[w][l] = "serving" /\ Id(w, l) \notin session
                      \/ serve[w][l] = "refused"
               PROVE  Blamed(w, l)
    BY DEF ConnectedIsReported, handleListWorkers
  <2>1. w \in Grown
    BY DEF Inv, Documents, RefusedIsExcused, ExternalReported, Live
  <2>2. Excused(w)
    <3>1. CASE serve[w][l] = "refused"
      BY <3>1 DEF Inv, Documents, RefusedIsExcused
    <3>2. CASE serve[w][l] = "serving" /\ Id(w, l) \notin session
      <4>1. Id(w, l) = Id(w, 0) /\ grow[w] # "idle"
        BY <2>1, <3>2, IdIs DEF Inv, Documents, Started
      <4> QED  BY <2>1, <3>2, <4>1 DEF Inv, Documents, MissingIsExcused
    <3> QED  BY <3>1, <3>2
  <2> QED  BY <2>1, <2>2 DEF Excused, Over, Blamed
<1> QED  BY <1>1, InvHolds, PTL

\* No step brings back a session document that was deleted: the update of a
\* registration that had read it matches nothing, and ids are not used again.
THEOREM DeletedGone == Spec => DeletedStaysDeleted
<1>1. ASSUME TypeOK, [Next]_vars, NEW w \in Worker, NEW l \in Link,
             Made(w, l), Id(w, l) \notin session
      PROVE  Id(w, l) \notin session'
  <2> USE DEF contexts, remote, registry
  <2>1. ASSUME NEW v \in Grown, Grow(v) \/ GrowFails(v)  PROVE Id(w, l) \notin session'
    <3>1. Id(v, l) = Id(v, 0) /\ grow[v] = "idle"
      BY <2>1, IdIs DEF Grow, GrowFails, Worker
    <3>2. Id(w, l) # Id(v, 0)
      BY <1>1, <3>1, IdIs DEF Made, Worker
    <3> QED  BY <1>1, <2>1, <3>2 DEF Grow, GrowFails
  <2>2. ASSUME NEW v \in Worker, NEW m \in Link, RegisterCheck(v, m)
        PROVE  Id(w, l) \notin session'
    <3>1. CASE v \in External
      <4>1. v \notin Grown /\ serve[v][m] = "dialing"
        BY <2>2, <3>1, WorkerPoolAssumption DEF RegisterCheck
      <4>2. Id(w, l) # Id(v, m)
        BY <1>1, <4>1, IdIs DEF Made
      <4> QED  BY <1>1, <2>2, <4>2 DEF RegisterCheck
    <3>2. CASE v \notin External
      BY <1>1, <2>2, <3>2 DEF RegisterCheck
    <3> QED  BY <3>1, <3>2
  <2>3. ASSUME session' \subseteq session  PROVE Id(w, l) \notin session'
    BY <1>1, <2>3
  <2>4. ASSUME NEW v \in Grown, Expire(v) \/ GrowSteps(v) \/ Keeper(v)
        PROVE  session' \subseteq session
    BY <2>4
       DEF Expire, GrowSteps, WaitForWorkerReady, WaitFails, Delete, Assign, AssignPanics,
           Keeper, CancelInstance, Kill, ShutdownObeyed, ProcessWaited
  <2>5. ASSUME NEW v \in Worker, ProcessExits(v) \/ Dial(v) \/ Drop(v)
        PROVE  session' \subseteq session
    BY <2>5 DEF ProcessExits, Dial, Drop
  <2>6. ASSUME NEW v \in Worker, NEW m \in Link,
               \/ RegisterUpdate(v, m) \/ RegisterPublish(v, m) \/ Registered(v, m)
               \/ RemoveConnection(v, m) \/ DeleteSession(v, m) \/ SessionExpires(v, m)
        PROVE  session' \subseteq session
    BY <2>6
       DEF RegisterUpdate, RegisterPublish, Registered, RemoveConnection, DeleteSession,
           Delete, SessionExpires
  <2>7. CASE RootDone \/ Exit \/ UNCHANGED vars
    BY <2>3, <2>7 DEF RootDone, Exit, vars
  <2> QED  BY <1>1, <2>1, <2>2, <2>3, <2>4, <2>5, <2>6, <2>7 DEF Next, Connection
<1>2. TypeOK /\ [Next]_vars =>
         \A w \in Worker, l \in Link :
            Made(w, l) /\ Id(w, l) \notin session => Id(w, l) \notin session'
  BY <1>1
<1> QED  BY <1>2, TypeCorrect, PTL DEF Spec, DeletedStaysDeleted
=============================================================================
