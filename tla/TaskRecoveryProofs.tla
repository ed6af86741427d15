-------------------------- MODULE TaskRecoveryProofs --------------------------
(***************************************************************************)
(* Proofs about TaskRecovery, for any number of tasks, retries, crashes    *)
(* and failures: the budget of every document and object over restarts,    *)
(* that a document the startup has been over is in somebody's hands as     *)
(* long as it is unfinished, that a restart leaves what is finished alone, *)
(* and who may replace a result.                                           *)
(***************************************************************************)
EXTENDS TaskRecovery, FiniteSetTheorems, TLAPS

-----------------------------------------------------------------------------
(* The inductive invariant, task by task.                                  *)

Values(t) == {Absent} \cup {o \in Object : o.retried <= MaxRetry[t]}

Busy(t, k) == <<t, k>> \in enqueuing \cup queued \cup running \cup finishers \cup posting

Unfinished(d) == d.status \in {"pending", "processing"}

Result(d) == d.status \in {"completed", "finished"} /\ d.outcome = "ok"

Typed ==
    /\ phase \in {"down", "cleanup", "serving"}
    /\ toClean \subseteq Task /\ toList \subseteq Task
    /\ doc \in [Task -> Object \cup {Absent}]
    /\ obj \in [Task -> [Maker -> Object \cup {Absent}]]
    /\ cancelling \in [Task -> Object \cup {Absent}]
    /\ cached \in [Task -> Maker \cup {"none"}]
    /\ enqueuing \subseteq Ref /\ queued \subseteq Ref /\ running \subseteq Ref
    /\ finishers \subseteq Ref /\ posting \subseteq Ref
    /\ mishaps \in 0..MaxMishaps
    /\ erred \in BOOLEAN

WithinBudget(t) ==
    /\ doc[t] \in Values(t) /\ cancelling[t] \in Values(t)
    /\ \A k \in Maker : obj[t][k] \in Values(t)

\* An object is with one goroutine, queue or worker at a time.
OneStage(t) ==
    \A k \in Maker :
        LET r == <<t, k>> IN
        /\ r \in enqueuing => r \notin queued \cup running \cup finishers \cup posting
        /\ r \in queued    => r \notin running \cup finishers \cup posting
        /\ r \in running   => r \notin finishers \cup posting
        /\ r \in finishers => r \notin posting

\* What is acted on exists and says what its stage makes of it; the object that
\* GetTaskById answers with is acted on while it is unfinished.
StagesOK(t) ==
    \A k \in Maker :
        /\ Busy(t, k) \/ cached[t] = k => obj[t][k] # Absent
        /\ obj[t][k] # Absent => doc[t] # Absent
        /\ <<t, k>> \in running => obj[t][k].status = "processing" /\ cached[t] # "none"
        /\ <<t, k>> \in posting => obj[t][k].status = "finished"
        /\ cached[t] = k /\ Unfinished(obj[t][k]) => Busy(t, k)

\* What the startup still has to visit, and what it leaves behind.
StartupOK(t) ==
    /\ t \in toClean => obj[t]["clean"] = Absent
    /\ t \in toList \/ phase = "cleanup" => obj[t]["list"] = Absent
    /\ phase = "down" =>
          /\ \A k \in Maker : ~Busy(t, k) /\ obj[t][k] = Absent
          /\ cancelling[t] = Absent
    /\ phase # "serving" => cached[t] = "none"
    /\ phase = "cleanup" /\ t \notin toClean => doc[t].status # "processing"
    /\ phase = "serving" /\ ~erred /\ doc[t].status = "processing" => cached[t] # "none"

\* An unfinished document is with the object that is cached, and with some
\* object once the startup has listed it.
DocumentHeld(t) ==
    ~erred /\ Unfinished(doc[t]) =>
        /\ \A k \in Maker : cached[t] = k => Busy(t, k)
        /\ phase = "serving" /\ t \notin toList => \E k \in Maker : Busy(t, k)

\* The only object of a task with a result has it too, unless it was queued again.
ResultKept(t) ==
    \A k \in Maker :
        /\ Result(doc[t]) /\ obj[t][k] # Absent /\ <<t, k>> \notin queued
        /\ \A j \in Maker \ {k} : obj[t][j] = Absent
        => Result(obj[t][k])

Fine(t) ==
    /\ WithinBudget(t) /\ OneStage(t) /\ StagesOK(t) /\ StartupOK(t)
    /\ DocumentHeld(t) /\ ResultKept(t)

Inv == Typed /\ \A t \in Task : Fine(t)

-----------------------------------------------------------------------------
(* Lemmas.                                                                 *)

LEMMA InvIsTyped == Inv => TypeOK
<1> SUFFICES ASSUME Inv  PROVE TypeOK
  OBVIOUS
<1>1. Typed /\ \A t \in Task : WithinBudget(t)
  BY DEF Inv, Fine
<1>2. ASSUME NEW t \in Task, NEW o \in {doc[t], cancelling[t]} \cup {obj[t][k] : k \in Maker}
      PROVE  o = Absent \/ (o \in Object /\ o.retried <= MaxRetry[t])
  <2>1. doc[t] \in Values(t) /\ cancelling[t] \in Values(t)
        /\ \A k \in Maker : obj[t][k] \in Values(t)
    BY <1>1 DEF WithinBudget
  <2>2. o \in Values(t)
    BY <1>2, <2>1
  <2> QED  BY <2>2 DEF Values
<1> QED  BY <1>1, <1>2 DEF Typed, TypeOK

\* An object says what it says within the budget, and the absent one nothing.
LEMMA ValueIs ==
    ASSUME NEW t \in Task, NEW o \in Values(t)
    PROVE  /\ o # Absent => o \in Object /\ o.retried <= MaxRetry[t] /\ o.retried \in Nat
           /\ o \in Object \cup {Absent}
           /\ o = Absent => o.status = "absent"
           /\ o.status # "absent" => o # Absent
BY DEF Values, Absent, Object

LEMMA SettledIs ==
    ASSUME NEW t \in Task, NEW o \in Object, o.retried <= MaxRetry[t]
    PROVE  /\ Settled(t, o) \in Object /\ Settled(t, o) \in Values(t) /\ Settled(t, o) # Absent
           /\ Settled(t, o).outcome = o.outcome
           /\ Settled(t, o).status \in {"pending", "completed", "finished"}
<1>1. MaxRetry[t] \in Nat /\ o.retried \in Nat
  BY TaskRecoveryAssumption DEF Object
<1>2. CASE o.outcome # "ok" /\ o.retried < MaxRetry[t]
  <2>1. Settled(t, o) = [o EXCEPT !.status = "pending", !.retried = @ + 1]
    BY <1>2 DEF Settled
  <2>2. Settled(t, o) = [status |-> "pending", retried |-> o.retried + 1, outcome |-> o.outcome]
    BY <2>1 DEF Object
  <2>3. o.outcome \in Outcome /\ o.retried + 1 \in Nat /\ o.retried + 1 <= MaxRetry[t]
    BY <1>1, <1>2 DEF Object
  <2>4. Settled(t, o) \in Object
    BY <2>2, <2>3 DEF Object
  <2> QED  BY <2>2, <2>3, <2>4 DEF Values, Absent
<1>3. CASE ~(o.outcome # "ok" /\ o.retried < MaxRetry[t])
  <2>1. Settled(t, o) = [o EXCEPT !.status = IF t \in WebhookTasks THEN "completed" ELSE "finished"]
    BY <1>3 DEF Settled
  <2>2. Settled(t, o) \in Object /\ Settled(t, o).retried = o.retried
        /\ Settled(t, o).outcome = o.outcome
        /\ Settled(t, o).status \in {"completed", "finished"}
    BY <2>1 DEF Object
  <2> QED  BY <2>2 DEF Values, Absent
<1> QED  BY <1>2, <1>3

LEMMA SetIs ==
    ASSUME Typed, NEW t \in Task, NEW k \in Maker, NEW o \in Object, Set(t, k, o)
    PROVE  /\ obj'[t][k] = o
           /\ \A j \in Maker \ {k} : obj'[t][j] = obj[t][j]
           /\ \A s \in Task \ {t} : obj'[s] = obj[s]
           /\ obj' \in [Task -> [Maker -> Object \cup {Absent}]]
<1>1. obj \in [Task -> [Maker -> Object \cup {Absent}]] /\ obj' = [obj EXCEPT ![t][k] = o]
  BY DEF Typed, Set
<1>2. obj[t] \in [Maker -> Object \cup {Absent}]
  BY <1>1
<1>3. obj' = [obj EXCEPT ![t] = [obj[t] EXCEPT ![k] = o]]
  BY <1>1
<1>4. [obj[t] EXCEPT ![k] = o] \in [Maker -> Object \cup {Absent}]
  BY <1>2
<1> QED  BY <1>1, <1>2, <1>3, <1>4

LEMMA UpdateIs ==
    ASSUME Typed, NEW t \in Task, NEW o \in Object, Update(t, o)
    PROVE  /\ doc'[t] = o /\ \A s \in Task \ {t} : doc'[s] = doc[s]
           /\ doc' \in [Task -> Object \cup {Absent}]
BY DEF Typed, Update

LEMMA MishapIs ==
    ASSUME Typed
    PROVE  /\ Calm => mishaps' \in 0..MaxMishaps /\ erred' = erred
           /\ \A kind : Mishap(kind) =>
                 /\ mishaps' \in 0..MaxMishaps /\ erred' \in BOOLEAN
                 /\ erred => erred'
                 /\ kind = "db" => erred'
<1>1. mishaps \in 0..MaxMishaps /\ erred \in BOOLEAN /\ MaxMishaps \in Nat
  BY TaskRecoveryAssumption DEF Typed
<1>2. Calm => mishaps' \in 0..MaxMishaps /\ erred' = erred
  BY <1>1 DEF Calm
<1>3. ASSUME NEW kind, Mishap(kind)
      PROVE  /\ mishaps' \in 0..MaxMishaps /\ erred' \in BOOLEAN
             /\ erred => erred'
             /\ kind = "db" => erred'
  <2>1. mishaps' \in 0..MaxMishaps
    BY <1>1, <1>3 DEF Mishap
  <2>2. erred' = (erred \/ kind = "db")
    BY <1>3 DEF Mishap
  <2> QED  BY <2>1, <2>2
<1> QED  BY <1>2, <1>3

\* A step about t leaves the other tasks alone.
SameFor(s) ==
    /\ doc'[s] = doc[s] /\ obj'[s] = obj[s] /\ cached'[s] = cached[s]
    /\ cancelling'[s] = cancelling[s]
    /\ s \in toList' <=> s \in toList
    /\ s \in toClean' <=> s \in toClean
    /\ \A k \in Maker :
          /\ <<s, k>> \in enqueuing' <=> <<s, k>> \in enqueuing
          /\ <<s, k>> \in queued' <=> <<s, k>> \in queued
          /\ <<s, k>> \in running' <=> <<s, k>> \in running
          /\ <<s, k>> \in finishers' <=> <<s, k>> \in finishers
          /\ <<s, k>> \in posting' <=> <<s, k>> \in posting

LEMMA OtherFine ==
    ASSUME NEW s \in Task, Fine(s), SameFor(s), UNCHANGED phase, erred => erred'
    PROVE  Fine(s)'
<1>1. \A k \in Maker : Busy(s, k)' <=> Busy(s, k)
  BY DEF SameFor, Busy
<1>2. WithinBudget(s)' /\ OneStage(s)'
  BY DEF Fine, WithinBudget, OneStage, SameFor, Values
<1>3. StagesOK(s)'
  BY <1>1 DEF Fine, StagesOK, SameFor, Unfinished
<1>4. StartupOK(s)'
  BY <1>1 DEF Fine, StartupOK, SameFor
<1>5. DocumentHeld(s)'
  BY <1>1 DEF Fine, DocumentHeld, SameFor, Unfinished
<1>6. ResultKept(s)'
  BY DEF Fine, ResultKept, SameFor, Result
<1> QED  BY <1>2, <1>3, <1>4, <1>5, <1>6 DEF Fine

LEMMA InvKept ==
    ASSUME Inv, Typed', NEW t \in Task, \A s \in Task \ {t} : SameFor(s),
           UNCHANGED phase, erred => erred', Fine(t)'
    PROVE  Inv'
BY OtherFine DEF Inv

-----------------------------------------------------------------------------
(* The API.                                                                *)

LEMMA CreateKeeps ==
    ASSUME Inv, NEW t \in Task, CreateTask(t)
    PROVE  Inv'
<1>1. Typed /\ Fine(t)
  BY DEF Inv
<1>2. /\ doc[t] = Absent /\ phase = "serving" /\ Update(t, NewTask) /\ Set(t, "api", NewTask)
      /\ enqueuing' = enqueuing \cup {<<t, "api">>} /\ Calm
      /\ UNCHANGED <<phase, toClean, toList, cached, queued, running, finishers, posting,
                     cancelling>>
  BY DEF CreateTask, startup
<1>3. NewTask \in Object /\ NewTask.retried = 0 /\ NewTask.status = "pending" /\ NewTask # Absent
      /\ NewTask.outcome = "none"
      /\ MaxRetry[t] \in Nat
  BY TaskRecoveryAssumption DEF NewTask, Object, Outcome, Absent
<1>4. /\ doc'[t] = NewTask /\ \A s \in Task \ {t} : doc'[s] = doc[s]
      /\ doc' \in [Task -> Object \cup {Absent}]
  BY <1>1, <1>2, <1>3, UpdateIs
<1>5. /\ obj'[t]["api"] = NewTask /\ \A s \in Task \ {t} : obj'[s] = obj[s]
      /\ \A j \in Maker \ {"api"} : obj'[t][j] = obj[t][j]
      /\ obj' \in [Task -> [Maker -> Object \cup {Absent}]]
  BY <1>1, <1>2, <1>3, SetIs DEF Maker
<1>6. erred' = erred /\ Typed'
  BY <1>1, <1>2, <1>4, <1>5, MishapIs DEF Typed, Ref, Maker
<1>7. \A s \in Task \ {t} : SameFor(s)
  BY <1>2, <1>4, <1>5 DEF SameFor
<1>8. \A k \in Maker : obj[t][k] = Absent /\ ~Busy(t, k) /\ cached[t] # k
  BY <1>1, <1>2 DEF Fine, StagesOK
<1>9. cached'[t] = "none" /\ "api" \in Maker /\ \A k \in Maker : cached'[t] # k
  BY <1>1, <1>2, <1>8 DEF Typed, Maker
<1>10. \A k \in Maker : /\ <<t, k>> \notin queued' \cup running' \cup finishers' \cup posting'
                        /\ k # "api" => obj'[t][k] = Absent
                        /\ Busy(t, k)' <=> k = "api"
  BY <1>2, <1>5, <1>8 DEF Busy
<1>11. WithinBudget(t)'
  BY <1>1, <1>2, <1>3, <1>4, <1>5, <1>10 DEF Fine, WithinBudget, Values
<1>12. OneStage(t)'
  BY <1>10 DEF OneStage
<1>13. StagesOK(t)'
  BY <1>3, <1>4, <1>5, <1>9, <1>10 DEF StagesOK
<1>14. StartupOK(t)'
  BY <1>1, <1>2, <1>3, <1>4, <1>5, <1>6, <1>8, <1>9, <1>10 DEF Fine, StartupOK, Maker
<1>15. DocumentHeld(t)'
  BY <1>9, <1>10 DEF DocumentHeld
<1>16. ResultKept(t)'
  BY <1>3, <1>4 DEF ResultKept, Result
<1> QED
  BY <1>2, <1>6, <1>7, <1>11, <1>12, <1>13, <1>14, <1>15, <1>16, InvKept DEF Fine

LEMMA CancelKeeps ==
    ASSUME Inv, NEW t \in Task, CancelRead(t) \/ CancelWrite(t)
    PROVE  Inv'
<1>1. Typed /\ Fine(t)
  BY DEF Inv
<1>2. UNCHANGED <<phase, toClean, toList, obj, cached, enqueuing, queued, running, finishers,
                posting>>
  BY DEF CancelRead, CancelWrite, startup
<1>3. \A k \in Maker : Busy(t, k)' <=> Busy(t, k)
  BY <1>2 DEF Busy
<1>4. PICK d, o : /\ doc' = [doc EXCEPT ![t] = d] /\ cancelling' = [cancelling EXCEPT ![t] = o]
                  /\ d \in Values(t) /\ o \in Values(t)
                  /\ \/ d = doc[t]
                     \/ /\ d # Absent /\ cancelling[t] # Absent
                        /\ d.status = "finished" /\ d.outcome = "cancelled"
                  /\ o # Absent => phase = "serving"
                  /\ mishaps' \in 0..MaxMishaps /\ erred' \in BOOLEAN /\ (erred => erred')
  <2>1. CASE CancelRead(t)
    <3>1. doc' = [doc EXCEPT ![t] = doc[t]]
      BY <1>1, <2>1 DEF CancelRead, Typed
    <3> QED
      BY <1>1, <2>1, <3>1, MishapIs DEF CancelRead, Fine, WithinBudget, Typed
  <2>2. CASE CancelWrite(t)
    <3> DEFINE c == [cancelling[t] EXCEPT !.status = "finished", !.outcome = "cancelled"]
    <3>1. cancelling[t] \in Object /\ cancelling[t].retried <= MaxRetry[t]
      BY <1>1, <2>2, ValueIs DEF CancelWrite, Fine, WithinBudget
    <3>2. c \in Values(t) /\ c # Absent /\ c.status = "finished" /\ c.outcome = "cancelled"
      BY <3>1 DEF Object, Outcome, Values, Absent
    <3>3. Absent \in Values(t) /\ doc[t] \in Values(t)
      BY <1>1 DEF Values, Fine, WithinBudget
    <3>4. cancelling' = [cancelling EXCEPT ![t] = Absent] /\ cancelling[t] # Absent
      BY <2>2 DEF CancelWrite
    <3>5. mishaps' \in 0..MaxMishaps /\ erred' \in BOOLEAN /\ (erred => erred')
      BY <1>1, <2>2, MishapIs DEF CancelWrite, Typed
    <3>6. CASE Update(t, c)
      BY <3>2, <3>3, <3>4, <3>5, <3>6 DEF Update
    <3>7. CASE doc' = doc
      <4>1. doc' = [doc EXCEPT ![t] = doc[t]]
        BY <1>1, <3>7 DEF Typed
      <4> QED  BY <3>3, <3>4, <3>5, <4>1
    <3> QED  BY <2>2, <3>6, <3>7 DEF CancelWrite
  <2> QED  BY <2>1, <2>2
<1>5. /\ doc'[t] = d /\ cancelling'[t] = o
      /\ \A s \in Task \ {t} : doc'[s] = doc[s] /\ cancelling'[s] = cancelling[s]
  BY <1>1, <1>4 DEF Typed
<1>6. d \in Object \cup {Absent} /\ o \in Object \cup {Absent}
  BY <1>4, ValueIs
<1>7. Typed'
  BY <1>1, <1>2, <1>4, <1>6 DEF Typed
<1>8. \A s \in Task \ {t} : SameFor(s)
  BY <1>2, <1>5 DEF SameFor
<1>9. WithinBudget(t)' /\ OneStage(t)'
  BY <1>1, <1>2, <1>4, <1>5 DEF Fine, WithinBudget, OneStage, Values
<1>10. StagesOK(t)'
  BY <1>1, <1>2, <1>3, <1>4, <1>5 DEF Fine, StagesOK, Unfinished
<1>11. StartupOK(t)'
  BY <1>1, <1>2, <1>3, <1>4, <1>5 DEF Fine, StartupOK
<1>12. DocumentHeld(t)'
  BY <1>1, <1>2, <1>3, <1>4, <1>5 DEF Fine, DocumentHeld, Unfinished
<1>13. ResultKept(t)'
  BY <1>1, <1>2, <1>4, <1>5 DEF Fine, ResultKept, Result
<1> QED  BY <1>2, <1>4, <1>7, <1>8, <1>9, <1>10, <1>11, <1>12, <1>13, InvKept DEF Fine

-----------------------------------------------------------------------------
(* The dispatcher: a step about the object of t made by k.                 *)

\* The other objects of t stay where and what they are.
SameBut(t, k) ==
    \A j \in Maker \ {k} :
        /\ obj'[t][j] = obj[t][j]
        /\ <<t, j>> \in enqueuing' <=> <<t, j>> \in enqueuing
        /\ <<t, j>> \in queued' <=> <<t, j>> \in queued
        /\ <<t, j>> \in running' <=> <<t, j>> \in running
        /\ <<t, j>> \in finishers' <=> <<t, j>> \in finishers
        /\ <<t, j>> \in posting' <=> <<t, j>> \in posting
        /\ Busy(t, j)' <=> Busy(t, j)

LEMMA EnqueueKeeps ==
    ASSUME Inv, NEW t \in Task, NEW k \in Maker, EnqueueTask(t, k)
    PROVE  Inv'
<1>1. Typed /\ Fine(t)
  BY DEF Inv
<1>2. /\ <<t, k>> \in enqueuing /\ enqueuing' = enqueuing \ {<<t, k>>}
      /\ queued' = queued \cup {<<t, k>>} /\ Calm
      /\ UNCHANGED <<doc, phase, toClean, toList, obj, cached, running, finishers, posting,
                     cancelling>>
  BY DEF EnqueueTask, startup
<1>3. erred' = erred /\ Typed'
  BY <1>1, <1>2, MishapIs DEF Typed, Ref
<1>4. (\A s \in Task \ {t} : SameFor(s)) /\ SameBut(t, k)
  BY <1>2 DEF SameFor, SameBut, Busy
<1>5. /\ <<t, k>> \notin queued \cup running \cup finishers \cup posting
      /\ <<t, k>> \notin enqueuing' \cup running' \cup finishers' \cup posting'
      /\ <<t, k>> \in queued' /\ Busy(t, k) /\ Busy(t, k)'
  BY <1>1, <1>2 DEF Fine, OneStage, Busy
<1>6. \A j \in Maker : Busy(t, j)' <=> Busy(t, j)
  BY <1>4, <1>5 DEF SameBut
<1>7. WithinBudget(t)'
  BY <1>1, <1>2 DEF Fine, WithinBudget, Values
<1>8. OneStage(t)'
  BY <1>1, <1>4, <1>5 DEF Fine, OneStage, SameBut
<1>9. StagesOK(t)'
  BY <1>1, <1>2, <1>6 DEF Fine, StagesOK, Unfinished
<1>10. StartupOK(t)'
  BY <1>1, <1>2, <1>3, <1>6 DEF Fine, StartupOK
<1>11. DocumentHeld(t)'
  BY <1>1, <1>2, <1>3, <1>6 DEF Fine, DocumentHeld, Unfinished
<1>12. ResultKept(t)'
  BY <1>1, <1>2, <1>4, <1>5 DEF Fine, ResultKept, Result, SameBut
<1> QED
  BY <1>2, <1>3, <1>4, <1>7, <1>8, <1>9, <1>10, <1>11, <1>12, InvKept DEF Fine

LEMMA AssignKeeps ==
    ASSUME Inv, NEW t \in Task, NEW k \in Maker, Assign(t, k)
    PROVE  Inv'
<1> DEFINE o == [obj[t][k] EXCEPT !.status = "processing"]
<1>1. Typed /\ Fine(t)
  BY DEF Inv
<1>2. /\ <<t, k>> \in queued /\ phase = "serving" /\ Set(t, k, o)
      /\ cached' = [cached EXCEPT ![t] = k]
      /\ UNCHANGED <<phase, toClean, toList, enqueuing, finishers, posting, cancelling>>
      /\ \/ /\ Update(t, o) /\ Calm
            /\ queued' = queued \ {<<t, k>>} /\ running' = running \cup {<<t, k>>}
         \/ Mishap("db") /\ UNCHANGED <<doc, queued, running>>
  BY DEF Assign, startup
<1>3. Busy(t, k) /\ obj[t][k] # Absent /\ doc[t] # Absent /\ obj[t][k] \in Values(t)
  BY <1>1, <1>2 DEF Fine, StagesOK, WithinBudget, Busy
<1>4. PICK p : p = o
  OBVIOUS
<1>5. p \in Object /\ p \in Values(t) /\ p # Absent /\ p.status = "processing"
  BY <1>3, <1>4, ValueIs DEF Object, Values, Absent
<1>6. /\ obj'[t][k] = p
      /\ \A j \in Maker \ {k} : obj'[t][j] = obj[t][j]
      /\ \A s \in Task \ {t} : obj'[s] = obj[s]
      /\ obj' \in [Task -> [Maker -> Object \cup {Absent}]]
  BY <1>1, <1>2, <1>4, <1>5, SetIs
<1>7. /\ doc'[t] # Absent /\ doc'[t] \in Values(t)
      /\ \A s \in Task \ {t} : doc'[s] = doc[s]
      /\ doc' \in [Task -> Object \cup {Absent}]
      /\ doc'[t] = p \/ (erred' /\ doc'[t] = doc[t])
      /\ mishaps' \in 0..MaxMishaps /\ erred' \in BOOLEAN /\ (erred => erred')
  <2>1. CASE Update(t, o) /\ Calm
    BY <1>1, <1>4, <1>5, <2>1, UpdateIs, MishapIs DEF Typed
  <2>2. CASE Mishap("db") /\ doc' = doc
    BY <1>1, <1>3, <2>2, MishapIs DEF Typed, Fine, WithinBudget
  <2> QED  BY <1>2, <2>1, <2>2
<1>8. \/ /\ queued' = queued \ {<<t, k>>} /\ running' = running \cup {<<t, k>>}
         /\ doc'[t] = p
      \/ erred' /\ queued' = queued /\ running' = running
  <2>1. CASE /\ Update(t, o)
             /\ queued' = queued \ {<<t, k>>} /\ running' = running \cup {<<t, k>>}
    BY <1>1, <1>4, <1>5, <2>1, UpdateIs
  <2>2. CASE Mishap("db") /\ UNCHANGED <<doc, queued, running>>
    BY <1>1, <2>2, MishapIs
  <2> QED  BY <1>2, <2>1, <2>2
<1>9. cached'[t] = k /\ k # "none" /\ \A s \in Task \ {t} : cached'[s] = cached[s]
  BY <1>1, <1>2 DEF Typed, Maker
<1>10. Typed'
  BY <1>1, <1>2, <1>6, <1>7, <1>8 DEF Typed, Ref
<1>11. \A s \in Task \ {t} : SameFor(s)
  BY <1>2, <1>6, <1>7, <1>8, <1>9 DEF SameFor
<1>12. SameBut(t, k)
  BY <1>2, <1>6, <1>8 DEF SameBut, Busy
<1>13. /\ <<t, k>> \notin enqueuing' \cup finishers' \cup posting' /\ Busy(t, k)'
       /\ <<t, k>> \in queued' => <<t, k>> \notin running' /\ erred'
       /\ <<t, k>> \in running' => doc'[t] = p
  BY <1>1, <1>2, <1>8 DEF Fine, OneStage, Busy
<1>14. WithinBudget(t)'
  BY <1>1, <1>2, <1>5, <1>6, <1>7 DEF Fine, WithinBudget, Values
<1>15. OneStage(t)'
  BY <1>1, <1>12, <1>13 DEF Fine, OneStage, SameBut
<1>16. StagesOK(t)'
  BY <1>1, <1>5, <1>6, <1>7, <1>9, <1>12, <1>13 DEF Fine, StagesOK, SameBut, Unfinished
<1>17. StartupOK(t)'
  BY <1>1, <1>2, <1>3, <1>6, <1>9 DEF Fine, StartupOK, Maker
<1>18. DocumentHeld(t)'
  BY <1>9, <1>13 DEF DocumentHeld
<1>19. ResultKept(t)'
  BY <1>5, <1>6, <1>8, <1>13 DEF ResultKept, Result, Busy
<1> QED
  BY <1>2, <1>7, <1>10, <1>11, <1>14, <1>15, <1>16, <1>17, <1>18, <1>19, InvKept DEF Fine

LEMMA ProgressKeeps ==
    ASSUME Inv, NEW t \in Task, NEW k \in Maker, Progress(t, k)
    PROVE  Inv'
<1>1. Typed /\ Fine(t)
  BY DEF Inv
<1>2. /\ cached[t] = k /\ k # "none" /\ Update(t, obj[t][k]) /\ Calm
      /\ UNCHANGED <<phase, toClean, toList, obj, cached, enqueuing, queued, running, finishers,
                     posting, cancelling>>
  BY DEF Progress, startup, memory, goroutines, Maker
<1>3. /\ obj[t][k] # Absent /\ obj[t][k] \in Values(t) /\ obj[t][k] \in Object
      /\ Unfinished(obj[t][k]) => Busy(t, k)
      /\ phase = "serving"
  BY <1>1, <1>2, ValueIs DEF Fine, StagesOK, StartupOK, WithinBudget, Typed
<1>4. /\ doc'[t] = obj[t][k] /\ \A s \in Task \ {t} : doc'[s] = doc[s]
      /\ doc' \in [Task -> Object \cup {Absent}]
  BY <1>1, <1>2, <1>3, UpdateIs
<1>5. erred' = erred /\ Typed'
  BY <1>1, <1>2, <1>4, MishapIs DEF Typed
<1>6. \A s \in Task \ {t} : SameFor(s)
  BY <1>2, <1>4 DEF SameFor
<1>7. \A j \in Maker : Busy(t, j)' <=> Busy(t, j)
  BY <1>2 DEF Busy
<1>8. WithinBudget(t)' /\ OneStage(t)'
  BY <1>1, <1>2, <1>3, <1>4 DEF Fine, WithinBudget, OneStage, Values
<1>9. StagesOK(t)'
  BY <1>1, <1>2, <1>3, <1>4, <1>7 DEF Fine, StagesOK, Unfinished
<1>10. StartupOK(t)'
  BY <1>1, <1>2, <1>3, <1>7 DEF Fine, StartupOK
<1>11. DocumentHeld(t)'
  BY <1>2, <1>3, <1>4, <1>7 DEF DocumentHeld, Unfinished
<1>12. ResultKept(t)'
  BY <1>2, <1>3, <1>4 DEF ResultKept, Result
<1> QED
  BY <1>2, <1>5, <1>6, <1>8, <1>9, <1>10, <1>11, <1>12, InvKept DEF Fine

LEMMA ReportKeeps ==
    ASSUME Inv, NEW t \in Task, NEW k \in Maker, NEW outcome \in {"ok", "failed"},
           Report(t, k, outcome)
    PROVE  Inv'
<1>1. Typed /\ Fine(t)
  BY DEF Inv
<1>2. /\ <<t, k>> \in running /\ running' = running \ {<<t, k>>}
      /\ UNCHANGED <<phase, toClean, toList, cached, enqueuing, posting, cancelling>>
  BY DEF Report, startup
<1>3. /\ Busy(t, k) /\ obj[t][k] # Absent /\ doc[t] # Absent /\ obj[t][k] \in Values(t)
      /\ obj[t][k].status = "processing" /\ cached[t] # "none"
      /\ phase = "serving"
      /\ <<t, k>> \notin enqueuing \cup queued \cup finishers \cup posting
  BY <1>1, <1>2 DEF Fine, StagesOK, StartupOK, OneStage, WithinBudget, Busy, Typed
<1>4. CASE cached[t] # k
  <2>1. UNCHANGED <<doc, obj, queued, finishers>> /\ Calm
    BY <1>4 DEF Report
  <2>2. erred' = erred /\ Typed'
    BY <1>1, <1>2, <2>1, MishapIs DEF Typed, Ref
  <2>3. (\A s \in Task \ {t} : SameFor(s)) /\ SameBut(t, k)
    BY <1>2, <2>1 DEF SameFor, SameBut, Busy
  <2>4. <<t, k>> \notin enqueuing' \cup queued' \cup running' \cup finishers' \cup posting'
        /\ ~Busy(t, k)'
    BY <1>2, <1>3, <2>1 DEF Busy
  <2>5. PICK j \in Maker \ {k} : cached[t] = j
    BY <1>1, <1>3, <1>4 DEF Typed
  <2>6. WithinBudget(t)'
    BY <1>1, <1>2, <2>1 DEF Fine, WithinBudget, Values
  <2>7. OneStage(t)'
    BY <1>1, <2>3, <2>4 DEF Fine, OneStage, SameBut
  <2>8. StagesOK(t)'
    BY <1>1, <1>2, <1>4, <2>1, <2>3, <2>4 DEF Fine, StagesOK, Unfinished, SameBut
  <2>9. StartupOK(t)'
    BY <1>1, <1>2, <1>3, <2>1, <2>2 DEF Fine, StartupOK
  <2>10. DocumentHeld(t)'
    BY <1>1, <1>2, <1>4, <2>1, <2>2, <2>3, <2>5 DEF Fine, DocumentHeld, Unfinished, SameBut
  <2>11. ResultKept(t)'
    BY <1>1, <1>3, <2>1 DEF Fine, ResultKept, Result
  <2> QED
    BY <1>2, <2>2, <2>3, <2>6, <2>7, <2>8, <2>9, <2>10, <2>11, InvKept DEF Fine
<1>5. CASE cached[t] = k
  <2>1. PICK q : q = [obj[t][k] EXCEPT !.outcome = outcome]
    OBVIOUS
  <2>2. q \in Object /\ q.retried <= MaxRetry[t]
    BY <1>3, <2>1, ValueIs DEF Object, Outcome
  <2>3. PICK o : o = Settled(t, q)
    OBVIOUS
  <2>4. /\ o \in Object /\ o \in Values(t) /\ o # Absent
        /\ o.status \in {"pending", "completed", "finished"}
    BY <2>2, <2>3, SettledIs
  <2>5. /\ Set(t, k, o)
        /\ \/ Update(t, o) /\ Calm
           \/ UNCHANGED doc /\ Mishap("db")
        /\ queued' = IF o.status = "pending" THEN queued \cup {<<t, k>>} ELSE queued
        /\ finishers' = IF o.status = "completed" THEN finishers \cup {<<t, k>>} ELSE finishers
    BY <1>5, <2>1, <2>3 DEF Report
  <2>6. /\ obj'[t][k] = o
        /\ \A j \in Maker \ {k} : obj'[t][j] = obj[t][j]
        /\ \A s \in Task \ {t} : obj'[s] = obj[s]
        /\ obj' \in [Task -> [Maker -> Object \cup {Absent}]]
    BY <1>1, <2>4, <2>5, SetIs
  <2>7. /\ doc'[t] # Absent /\ doc'[t] \in Values(t)
        /\ \A s \in Task \ {t} : doc'[s] = doc[s]
        /\ doc' \in [Task -> Object \cup {Absent}]
        /\ doc'[t] = o \/ (erred' /\ doc'[t] = doc[t])
        /\ mishaps' \in 0..MaxMishaps /\ erred' \in BOOLEAN /\ (erred => erred')
    <3>1. CASE Update(t, o) /\ Calm
      BY <1>1, <2>4, <3>1, UpdateIs, MishapIs DEF Typed
    <3>2. CASE doc' = doc /\ Mishap("db")
      BY <1>1, <1>3, <3>2, MishapIs DEF Typed, Fine, WithinBudget
    <3> QED  BY <2>5, <3>1, <3>2
  <2>8. queued' \subseteq Ref /\ running' \subseteq Ref /\ finishers' \subseteq Ref
    BY <1>1, <1>2, <2>5 DEF Typed, Ref
  <2>9. Typed'
    BY <1>1, <1>2, <2>6, <2>7, <2>8 DEF Typed
  <2>10. \A s \in Task \ {t} : SameFor(s)
    BY <1>2, <2>5, <2>6, <2>7 DEF SameFor
  <2>11. SameBut(t, k)
    BY <1>2, <2>5, <2>6 DEF SameBut, Busy
  <2>12. /\ <<t, k>> \notin enqueuing' \cup running' \cup posting'
         /\ <<t, k>> \in queued' <=> o.status = "pending"
         /\ <<t, k>> \in finishers' <=> o.status = "completed"
         /\ Unfinished(o) => Busy(t, k)' /\ <<t, k>> \in queued'
    BY <1>2, <1>3, <2>4, <2>5 DEF Busy, Unfinished
  <2>13. WithinBudget(t)'
    BY <1>1, <1>2, <2>4, <2>6, <2>7 DEF Fine, WithinBudget, Values
  <2>14. OneStage(t)'
    BY <1>1, <2>11, <2>12 DEF Fine, OneStage, SameBut
  <2>15. StagesOK(t)'
    BY <1>1, <1>2, <1>3, <1>5, <2>4, <2>6, <2>7, <2>11, <2>12
    DEF Fine, StagesOK, SameBut, Unfinished
  <2>16. StartupOK(t)'
    BY <1>1, <1>2, <1>3, <2>6 DEF Fine, StartupOK, Maker
  <2>17. DocumentHeld(t)'
    BY <1>2, <1>5, <2>7, <2>12 DEF DocumentHeld, Unfinished
  <2>18. ResultKept(t)'
    <3>1. CASE doc'[t] = o
      BY <2>4, <2>6, <3>1 DEF ResultKept, Result
    <3>2. CASE doc'[t] = doc[t]
      BY <1>1, <1>3, <2>4, <2>6, <3>2 DEF Fine, ResultKept, Result
    <3> QED  BY <2>7, <3>1, <3>2
  <2> QED
    BY <1>2, <2>7, <2>9, <2>10, <2>13, <2>14, <2>15, <2>16, <2>17, <2>18, InvKept DEF Fine
<1> QED  BY <1>4, <1>5

LEMMA FinishKeeps ==
    ASSUME Inv, NEW t \in Task, NEW k \in Maker, TaskFinish(t, k)
    PROVE  Inv'
<1>1. Typed /\ Fine(t)
  BY DEF Inv
<1>2. PICK o : o = [obj[t][k] EXCEPT !.status = "finished"]
  OBVIOUS
<1>3. /\ <<t, k>> \in finishers /\ finishers' = finishers \ {<<t, k>>}
      /\ posting' = posting \cup {<<t, k>>} /\ Set(t, k, o) /\ Calm
      /\ UNCHANGED <<doc, phase, toClean, toList, cached, enqueuing, queued, running, cancelling>>
  BY <1>2 DEF TaskFinish, startup
<1>4. /\ Busy(t, k) /\ obj[t][k] # Absent /\ doc[t] # Absent /\ obj[t][k] \in Values(t)
      /\ phase # "down"
      /\ <<t, k>> \notin enqueuing \cup queued \cup running \cup posting
  BY <1>1, <1>3 DEF Fine, StagesOK, StartupOK, OneStage, WithinBudget, Busy
<1>5. /\ o \in Object /\ o \in Values(t) /\ o # Absent
      /\ o.status = "finished" /\ o.outcome = obj[t][k].outcome
  BY <1>2, <1>4, ValueIs DEF Object, Values, Absent
<1>6. /\ obj'[t][k] = o
      /\ \A j \in Maker \ {k} : obj'[t][j] = obj[t][j]
      /\ \A s \in Task \ {t} : obj'[s] = obj[s]
      /\ obj' \in [Task -> [Maker -> Object \cup {Absent}]]
  BY <1>1, <1>3, <1>5, SetIs
<1>7. erred' = erred /\ Typed'
  BY <1>1, <1>3, <1>6, MishapIs DEF Typed, Ref
<1>8. \A s \in Task \ {t} : SameFor(s)
  BY <1>3, <1>6 DEF SameFor
<1>9. SameBut(t, k)
  BY <1>3, <1>6 DEF SameBut, Busy
<1>10. /\ <<t, k>> \notin enqueuing' \cup queued' \cup running' \cup finishers'
       /\ Busy(t, k)'
  BY <1>3, <1>4 DEF Busy
<1>11. \A j \in Maker : Busy(t, j)' <=> Busy(t, j)
  BY <1>4, <1>9, <1>10 DEF SameBut
<1>12. WithinBudget(t)'
  BY <1>1, <1>3, <1>5, <1>6 DEF Fine, WithinBudget, Values
<1>13. OneStage(t)'
  BY <1>1, <1>9, <1>10 DEF Fine, OneStage, SameBut
<1>14. StagesOK(t)'
  BY <1>1, <1>3, <1>4, <1>5, <1>6, <1>9, <1>10 DEF Fine, StagesOK, SameBut, Unfinished
<1>15. StartupOK(t)'
  BY <1>1, <1>3, <1>4, <1>6, <1>7 DEF Fine, StartupOK, Maker
<1>16. DocumentHeld(t)'
  BY <1>1, <1>3, <1>7, <1>11 DEF Fine, DocumentHeld, Unfinished
<1>17. ResultKept(t)'
  BY <1>1, <1>3, <1>4, <1>5, <1>6, <1>9 DEF Fine, ResultKept, Result, SameBut
<1> QED
  BY <1>3, <1>7, <1>8, <1>12, <1>13, <1>14, <1>15, <1>16, <1>17, InvKept DEF Fine

LEMMA FinishedKeeps ==
    ASSUME Inv, NEW t \in Task, NEW k \in Maker, TaskFinished(t, k)
    PROVE  Inv'
<1>1. Typed /\ Fine(t)
  BY DEF Inv
<1>2. /\ <<t, k>> \in posting /\ posting' = posting \ {<<t, k>>} /\ Update(t, obj[t][k]) /\ Calm
      /\ UNCHANGED <<phase, toClean, toList, obj, cached, enqueuing, queued, running, finishers,
                     cancelling>>
  BY DEF TaskFinished, startup
<1>3. /\ Busy(t, k) /\ obj[t][k] # Absent /\ obj[t][k] \in Values(t) /\ obj[t][k] \in Object
      /\ obj[t][k].status = "finished" /\ phase # "down"
      /\ <<t, k>> \notin enqueuing \cup queued \cup running \cup finishers
  BY <1>1, <1>2, ValueIs DEF Fine, StagesOK, StartupOK, OneStage, WithinBudget, Busy
<1>4. /\ doc'[t] = obj[t][k] /\ \A s \in Task \ {t} : doc'[s] = doc[s]
      /\ doc' \in [Task -> Object \cup {Absent}]
  BY <1>1, <1>2, <1>3, UpdateIs
<1>5. erred' = erred /\ Typed'
  BY <1>1, <1>2, <1>4, MishapIs DEF Typed, Ref
<1>6. (\A s \in Task \ {t} : SameFor(s)) /\ SameBut(t, k)
  BY <1>2, <1>4 DEF SameFor, SameBut, Busy
<1>7. <<t, k>> \notin enqueuing' \cup queued' \cup running' \cup finishers' \cup posting'
  BY <1>2, <1>3
<1>8. ~Busy(t, k)'
  BY <1>7 DEF Busy
<1>9. WithinBudget(t)'
  BY <1>1, <1>2, <1>3, <1>4 DEF Fine, WithinBudget, Values
<1>10. OneStage(t)'
  BY <1>1, <1>6, <1>7 DEF Fine, OneStage, SameBut
<1>11. StagesOK(t)'
  BY <1>1, <1>2, <1>3, <1>4, <1>6, <1>7, <1>8 DEF Fine, StagesOK, SameBut, Unfinished
<1>12. StartupOK(t)'
  BY <1>1, <1>2, <1>3, <1>4, <1>5 DEF Fine, StartupOK
<1>13. DocumentHeld(t)'
  BY <1>3, <1>4 DEF DocumentHeld, Unfinished
<1>14. ResultKept(t)'
  BY <1>2, <1>3, <1>4 DEF ResultKept, Result
<1> QED
  BY <1>2, <1>5, <1>6, <1>9, <1>10, <1>11, <1>12, <1>13, <1>14, InvKept DEF Fine

LEMMA FinishFailsKeeps ==
    ASSUME Inv, NEW t \in Task, NEW k \in Maker, TaskFinishFails(t, k)
    PROVE  Inv'
<1>1. Typed /\ Fine(t)
  BY DEF Inv
<1>2. /\ <<t, k>> \in posting /\ posting' = posting \ {<<t, k>>}
      /\ enqueuing' = enqueuing \cup {<<t, k>>}
      /\ Mishap("webhook") \/ Mishap("db")
      /\ UNCHANGED <<doc, phase, toClean, toList, obj, cached, queued, running, finishers,
                     cancelling>>
  BY DEF TaskFinishFails, startup
<1>3. mishaps' \in 0..MaxMishaps /\ erred' \in BOOLEAN /\ (erred => erred')
  BY <1>1, <1>2, MishapIs
<1>4. Typed'
  BY <1>1, <1>2, <1>3 DEF Typed, Ref
<1>5. (\A s \in Task \ {t} : SameFor(s)) /\ SameBut(t, k)
  BY <1>2 DEF SameFor, SameBut, Busy
<1>6. /\ <<t, k>> \notin queued' \cup running' \cup finishers' \cup posting'
      /\ Busy(t, k) /\ Busy(t, k)'
  BY <1>1, <1>2 DEF Fine, OneStage, Busy
<1>7. \A j \in Maker : Busy(t, j)' <=> Busy(t, j)
  BY <1>5, <1>6 DEF SameBut
<1>8. WithinBudget(t)'
  BY <1>1, <1>2 DEF Fine, WithinBudget, Values
<1>9. OneStage(t)'
  BY <1>1, <1>5, <1>6 DEF Fine, OneStage, SameBut
<1>10. StagesOK(t)'
  BY <1>1, <1>2, <1>5, <1>6, <1>7 DEF Fine, StagesOK, Unfinished, SameBut
<1>11. StartupOK(t)'
  BY <1>1, <1>2, <1>3, <1>7 DEF Fine, StartupOK
<1>12. DocumentHeld(t)'
  BY <1>1, <1>2, <1>3, <1>7 DEF Fine, DocumentHeld, Unfinished
<1>13. ResultKept(t)'
  BY <1>1, <1>2 DEF Fine, ResultKept, Result
<1> QED
  BY <1>2, <1>3, <1>4, <1>5, <1>8, <1>9, <1>10, <1>11, <1>12, <1>13, InvKept DEF Fine

-----------------------------------------------------------------------------
(* The startup, task by task.                                              *)

LEMMA CleanKeeps ==
    ASSUME Inv, NEW t \in Task, CleanTask(t)
    PROVE  Inv'
<1>1. Typed /\ Fine(t)
  BY DEF Inv
<1>2. /\ phase = "cleanup" /\ t \in toClean /\ toClean' = toClean \ {t} /\ Calm
      /\ UNCHANGED <<phase, toList, cached, enqueuing, queued, running, posting, cancelling>>
  BY DEF CleanTask
<1>3. /\ cached[t] = "none" /\ cached'[t] = "none" /\ "clean" \in Maker
      /\ \A k \in Maker : k # "none"
      /\ obj[t]["clean"] = Absent /\ obj[t]["list"] = Absent
      /\ <<t, "clean">> \notin enqueuing \cup queued \cup running \cup finishers \cup posting
  BY <1>1, <1>2 DEF Fine, StartupOK, StagesOK, Maker, Busy
<1>4. CASE doc[t].status # "processing"
  <2>1. UNCHANGED <<doc, obj, finishers>>
    BY <1>4 DEF CleanTask
  <2>2. erred' = erred /\ Typed'
    BY <1>1, <1>2, <2>1, MishapIs DEF Typed
  <2>3. \A s \in Task \ {t} : SameFor(s)
    BY <1>2, <2>1 DEF SameFor
  <2>4. \A k \in Maker : Busy(t, k)' <=> Busy(t, k)
    BY <1>2, <2>1 DEF Busy
  <2>5. WithinBudget(t)' /\ OneStage(t)'
    BY <1>1, <1>2, <2>1 DEF Fine, WithinBudget, OneStage, Values
  <2>6. StagesOK(t)'
    BY <1>1, <1>2, <2>1, <2>4 DEF Fine, StagesOK, Unfinished
  <2>7. StartupOK(t)'
    BY <1>1, <1>2, <1>3, <1>4, <2>1, <2>2 DEF Fine, StartupOK
  <2>8. DocumentHeld(t)'
    BY <1>2, <1>3 DEF DocumentHeld
  <2>9. ResultKept(t)'
    BY <1>1, <1>2, <2>1 DEF Fine, ResultKept, Result
  <2> QED
    BY <1>2, <2>2, <2>3, <2>5, <2>6, <2>7, <2>8, <2>9, InvKept DEF Fine
<1>5. CASE doc[t].status = "processing"
  <2>1. PICK q : q = [doc[t] EXCEPT !.outcome = "restarted"]
    OBVIOUS
  <2>2. doc[t] \in Values(t) /\ "processing" # "absent"
    BY <1>1 DEF Fine, WithinBudget
  <2>3. doc[t] \in Object /\ doc[t].retried <= MaxRetry[t]
    BY <1>5, <2>2, ValueIs
  <2>4. q \in Object /\ q.retried <= MaxRetry[t] /\ q.outcome = "restarted"
    BY <2>1, <2>3 DEF Object, Outcome
  <2>5. PICK o : o = Settled(t, q)
    OBVIOUS
  <2>6. /\ o \in Object /\ o \in Values(t) /\ o # Absent /\ o.outcome = "restarted"
        /\ o.status \in {"pending", "completed", "finished"}
    BY <2>4, <2>5, SettledIs
  <2>7. /\ Set(t, "clean", o) /\ Update(t, o)
        /\ finishers' = IF o.status = "finished" THEN finishers
                                                 ELSE finishers \cup {<<t, "clean">>}
    BY <1>5, <2>1, <2>5 DEF CleanTask
  <2>8. /\ obj'[t]["clean"] = o
        /\ \A j \in Maker \ {"clean"} : obj'[t][j] = obj[t][j]
        /\ \A s \in Task \ {t} : obj'[s] = obj[s]
        /\ obj' \in [Task -> [Maker -> Object \cup {Absent}]]
    BY <1>1, <1>3, <2>6, <2>7, SetIs
  <2>9. /\ doc'[t] = o /\ \A s \in Task \ {t} : doc'[s] = doc[s]
        /\ doc' \in [Task -> Object \cup {Absent}]
    BY <1>1, <2>6, <2>7, UpdateIs
  <2>10. finishers' \subseteq Ref
    BY <1>1, <1>3, <2>7 DEF Typed, Ref
  <2>11. erred' = erred /\ Typed'
    BY <1>1, <1>2, <2>8, <2>9, <2>10, MishapIs DEF Typed
  <2>12. \A s \in Task \ {t} : SameFor(s)
    BY <1>2, <2>7, <2>8, <2>9 DEF SameFor
  <2>13. SameBut(t, "clean")
    BY <1>2, <2>7, <2>8 DEF SameBut, Busy
  <2>14. <<t, "clean">> \notin enqueuing' \cup queued' \cup running' \cup posting'
    BY <1>2, <1>3
  <2>15. WithinBudget(t)'
    BY <1>1, <1>2, <2>6, <2>8, <2>9 DEF Fine, WithinBudget, Values
  <2>16. OneStage(t)'
    BY <1>1, <2>13, <2>14 DEF Fine, OneStage, SameBut
  <2>17. StagesOK(t)'
    BY <1>1, <1>3, <2>6, <2>8, <2>9, <2>13, <2>14 DEF Fine, StagesOK, SameBut, Unfinished
  <2>18. StartupOK(t)'
    BY <1>1, <1>2, <1>3, <2>6, <2>8, <2>9 DEF Fine, StartupOK, Maker
  <2>19. DocumentHeld(t)'
    BY <1>2, <1>3 DEF DocumentHeld
  <2>20. ResultKept(t)'
    BY <2>6, <2>9 DEF ResultKept, Result
  <2> QED
    BY <1>2, <2>11, <2>12, <2>15, <2>16, <2>17, <2>18, <2>19, <2>20, InvKept DEF Fine
<1> QED  BY <1>4, <1>5

LEMMA ListKeeps ==
    ASSUME Inv, NEW t \in Task, ListPending(t)
    PROVE  Inv'
<1>1. Typed /\ Fine(t)
  BY DEF Inv
<1>2. /\ phase = "serving" /\ t \in toList /\ toList' = toList \ {t} /\ Calm
      /\ UNCHANGED <<doc, phase, toClean, cached, queued, running, finishers, posting, cancelling>>
  BY DEF ListPending
<1>3. /\ "list" \in Maker /\ obj[t]["list"] = Absent /\ cached[t] # "list"
      /\ <<t, "list">> \notin enqueuing \cup queued \cup running \cup finishers \cup posting
  BY <1>1, <1>2 DEF Fine, StartupOK, StagesOK, Maker, Busy
<1>4. CASE doc[t].status # "pending"
  <2>1. UNCHANGED <<obj, enqueuing>>
    BY <1>4 DEF ListPending
  <2>2. erred' = erred /\ Typed'
    BY <1>1, <1>2, <2>1, MishapIs DEF Typed
  <2>3. \A s \in Task \ {t} : SameFor(s)
    BY <1>2, <2>1 DEF SameFor
  <2>4. \A k \in Maker : Busy(t, k)' <=> Busy(t, k)
    BY <1>2, <2>1 DEF Busy
  <2>5. WithinBudget(t)' /\ OneStage(t)'
    BY <1>1, <1>2, <2>1 DEF Fine, WithinBudget, OneStage, Values
  <2>6. StagesOK(t)'
    BY <1>1, <1>2, <2>1, <2>4 DEF Fine, StagesOK, Unfinished
  <2>7. StartupOK(t)'
    BY <1>1, <1>2, <2>1, <2>2 DEF Fine, StartupOK
  <2>8. ~erred /\ Unfinished(doc[t]) => \E k \in Maker : Busy(t, k)
    <3>1. ~erred /\ Unfinished(doc[t]) => cached[t] # "none"
      BY <1>1, <1>2, <1>4 DEF Fine, StartupOK, Unfinished
    <3>2. cached[t] \in Maker \cup {"none"}
      BY <1>1 DEF Typed
    <3> QED  BY <1>1, <3>1, <3>2 DEF Fine, DocumentHeld
  <2>9. DocumentHeld(t)'
    BY <1>1, <1>2, <2>2, <2>4, <2>8 DEF Fine, DocumentHeld, Unfinished
  <2>10. ResultKept(t)'
    BY <1>1, <1>2, <2>1 DEF Fine, ResultKept, Result
  <2> QED
    BY <1>2, <2>2, <2>3, <2>5, <2>6, <2>7, <2>9, <2>10, InvKept DEF Fine
<1>5. CASE doc[t].status = "pending"
  <2>1. doc[t] \in Values(t) /\ "pending" # "absent"
    BY <1>1 DEF Fine, WithinBudget
  <2>2. doc[t] \in Object /\ doc[t] # Absent
    BY <1>5, <2>1, ValueIs
  <2>3. Set(t, "list", doc[t]) /\ enqueuing' = enqueuing \cup {<<t, "list">>}
    BY <1>5 DEF ListPending
  <2>4. /\ obj'[t]["list"] = doc[t]
        /\ \A j \in Maker \ {"list"} : obj'[t][j] = obj[t][j]
        /\ \A s \in Task \ {t} : obj'[s] = obj[s]
        /\ obj' \in [Task -> [Maker -> Object \cup {Absent}]]
    BY <1>1, <1>3, <2>2, <2>3, SetIs
  <2>5. enqueuing' \subseteq Ref
    BY <1>1, <1>3, <2>3 DEF Typed, Ref
  <2>6. erred' = erred /\ Typed'
    BY <1>1, <1>2, <2>4, <2>5, MishapIs DEF Typed
  <2>7. \A s \in Task \ {t} : SameFor(s)
    BY <1>2, <2>3, <2>4 DEF SameFor
  <2>8. SameBut(t, "list")
    BY <1>2, <2>3, <2>4 DEF SameBut, Busy
  <2>9. /\ <<t, "list">> \notin queued' \cup running' \cup finishers' \cup posting'
        /\ Busy(t, "list")'
    BY <1>2, <1>3, <2>3 DEF Busy
  <2>10. WithinBudget(t)'
    BY <1>1, <1>2, <2>1, <2>4 DEF Fine, WithinBudget, Values
  <2>11. OneStage(t)'
    BY <1>1, <2>8, <2>9 DEF Fine, OneStage, SameBut
  <2>12. StagesOK(t)'
    BY <1>1, <1>2, <1>3, <2>2, <2>4, <2>8, <2>9 DEF Fine, StagesOK, SameBut, Unfinished
  <2>13. StartupOK(t)'
    BY <1>1, <1>2, <1>3, <1>5, <2>4 DEF Fine, StartupOK, Maker
  <2>14. DocumentHeld(t)'
    BY <1>1, <1>2, <1>3, <2>6, <2>8, <2>9 DEF Fine, DocumentHeld, Unfinished, SameBut
  <2>15. ResultKept(t)'
    BY <1>2, <1>5 DEF ResultKept, Result
  <2> QED
    BY <1>2, <2>6, <2>7, <2>10, <2>11, <2>12, <2>13, <2>14, <2>15, InvKept DEF Fine
<1> QED  BY <1>4, <1>5

-----------------------------------------------------------------------------
(* Starting, serving and crashing: all tasks at once.                      *)

LEMMA StartKeeps ==
    ASSUME Inv, Start
    PROVE  Inv'
<1>1. Typed
  BY DEF Inv
<1>2. /\ phase = "down" /\ phase' = "cleanup" /\ toClean' = Task /\ Calm
      /\ UNCHANGED <<doc, toList, obj, cached, enqueuing, queued, running, finishers, posting,
                     cancelling>>
  BY DEF Start, memory, goroutines
<1>3. erred' = erred /\ Typed'
  BY <1>1, <1>2, MishapIs DEF Typed
<1>4. ASSUME NEW t \in Task
      PROVE  Fine(t)'
  <2>1. Fine(t)
    BY DEF Inv
  <2>2. \A k \in Maker : (Busy(t, k)' <=> Busy(t, k)) /\ obj[t][k] = Absent /\ k # "none"
    BY <1>2, <2>1 DEF Busy, Fine, StartupOK, Maker
  <2>3. WithinBudget(t)' /\ OneStage(t)'
    BY <1>2, <2>1 DEF Fine, WithinBudget, OneStage, Values
  <2>4. StagesOK(t)'
    BY <1>2, <2>1, <2>2 DEF Fine, StagesOK, Unfinished
  <2>5. StartupOK(t)'
    BY <1>2, <2>1, <2>2 DEF Fine, StartupOK, Maker
  <2>6. DocumentHeld(t)' /\ ResultKept(t)'
    BY <1>2, <2>1, <2>2 DEF Fine, StartupOK, DocumentHeld, ResultKept
  <2> QED  BY <2>3, <2>4, <2>5, <2>6 DEF Fine
<1> QED  BY <1>3, <1>4 DEF Inv

LEMMA ServeKeeps ==
    ASSUME Inv, Serve \/ CleanupFails
    PROVE  Inv'
<1>1. Typed
  BY DEF Inv
<1>2. /\ phase = "cleanup" /\ phase' = "serving" /\ toList' = Task /\ toClean' = {}
      /\ UNCHANGED <<doc, obj, cached, enqueuing, queued, running, finishers, posting, cancelling>>
      /\ (Calm /\ toClean = {}) \/ Mishap("db")
  BY DEF Serve, CleanupFails, memory, goroutines
<1>3. /\ mishaps' \in 0..MaxMishaps /\ erred' \in BOOLEAN
      /\ toClean = {} \/ erred'
  <2>1. CASE Calm /\ toClean = {}
    BY <1>1, <2>1, MishapIs DEF Typed
  <2>2. CASE Mishap("db")
    BY <1>1, <2>2, MishapIs
  <2> QED  BY <1>2, <2>1, <2>2
<1>4. Typed'
  BY <1>1, <1>2, <1>3 DEF Typed
<1>5. ASSUME NEW t \in Task
      PROVE  Fine(t)'
  <2>1. Fine(t)
    BY DEF Inv
  <2>2. \A k \in Maker : Busy(t, k)' <=> Busy(t, k)
    BY <1>2 DEF Busy
  <2>3. cached'[t] = "none" /\ t \in toList' /\ \A k \in Maker : k # "none"
    BY <1>2, <2>1 DEF Fine, StartupOK, Maker
  <2>4. WithinBudget(t)' /\ OneStage(t)'
    BY <1>2, <2>1 DEF Fine, WithinBudget, OneStage, Values
  <2>5. StagesOK(t)'
    BY <1>2, <2>1, <2>2 DEF Fine, StagesOK, Unfinished
  <2>6. StartupOK(t)'
    BY <1>2, <1>3, <2>1 DEF Fine, StartupOK
  <2>7. DocumentHeld(t)'
    BY <2>3 DEF DocumentHeld
  <2>8. ResultKept(t)'
    BY <1>2, <2>1 DEF Fine, ResultKept, Result
  <2> QED  BY <2>4, <2>5, <2>6, <2>7, <2>8 DEF Fine
<1> QED  BY <1>4, <1>5 DEF Inv

LEMMA ListFailsKeeps ==
    ASSUME Inv, ListFails
    PROVE  Inv'
<1>1. Typed
  BY DEF Inv
<1>2. /\ phase = "serving" /\ toList' = {} /\ Mishap("db")
      /\ UNCHANGED <<doc, phase, toClean, obj, cached, enqueuing, queued, running, finishers,
                     posting, cancelling>>
  BY DEF ListFails, memory, goroutines
<1>3. mishaps' \in 0..MaxMishaps /\ erred' = TRUE
  BY <1>1, <1>2, MishapIs
<1>4. Typed'
  BY <1>1, <1>2, <1>3 DEF Typed
<1>5. ASSUME NEW t \in Task
      PROVE  Fine(t)'
  <2>1. Fine(t)
    BY DEF Inv
  <2>2. \A k \in Maker : Busy(t, k)' <=> Busy(t, k)
    BY <1>2 DEF Busy
  <2>3. WithinBudget(t)' /\ OneStage(t)'
    BY <1>2, <2>1 DEF Fine, WithinBudget, OneStage, Values
  <2>4. StagesOK(t)'
    BY <1>2, <2>1, <2>2 DEF Fine, StagesOK, Unfinished
  <2>5. StartupOK(t)'
    BY <1>2, <1>3, <2>1 DEF Fine, StartupOK
  <2>6. DocumentHeld(t)'
    BY <1>3 DEF DocumentHeld
  <2>7. ResultKept(t)'
    BY <1>2, <2>1 DEF Fine, ResultKept, Result
  <2> QED  BY <2>3, <2>4, <2>5, <2>6, <2>7 DEF Fine
<1> QED  BY <1>4, <1>5 DEF Inv

\* Nothing in memory: what a process that is gone leaves, and the initial state.
Blank ==
    /\ phase = "down" /\ toClean = {} /\ toList = {}
    /\ obj = NoObjects /\ cached = [t \in Task |-> "none"]
    /\ enqueuing = {} /\ queued = {} /\ running = {}
    /\ finishers = {} /\ posting = {}
    /\ cancelling = [t \in Task |-> Absent]

LEMMA BlankIsFine ==
    ASSUME Blank, doc \in [Task -> Object \cup {Absent}], \A t \in Task : doc[t] \in Values(t),
           mishaps \in 0..MaxMishaps, erred \in BOOLEAN
    PROVE  Inv
<1>1. Typed
  BY DEF Typed, Blank, NoObjects
<1>2. ASSUME NEW t \in Task
      PROVE  Fine(t)
  <2>1. \A k \in Maker : ~Busy(t, k) /\ obj[t][k] = Absent /\ k # "none"
    BY DEF Blank, Busy, NoObjects, Maker
  <2>2. WithinBudget(t) /\ OneStage(t)
    BY <2>1 DEF WithinBudget, OneStage, Blank, Values
  <2>3. StagesOK(t)
    BY <2>1 DEF StagesOK, Blank
  <2>4. StartupOK(t)
    BY <2>1 DEF StartupOK, Blank
  <2>5. DocumentHeld(t) /\ ResultKept(t)
    BY <2>1 DEF DocumentHeld, ResultKept, Blank
  <2> QED  BY <2>2, <2>3, <2>4, <2>5 DEF Fine
<1> QED  BY <1>1, <1>2 DEF Inv

LEMMA CrashKeeps ==
    ASSUME Inv, Crash
    PROVE  Inv'
<1>1. Typed /\ \A t \in Task : doc[t] \in Values(t)
  BY DEF Inv, Fine, WithinBudget
<1>2. Blank' /\ doc' = doc /\ Mishap("crash")
  BY DEF Crash, Blank
<1>3. mishaps' \in 0..MaxMishaps /\ erred' \in BOOLEAN
  BY <1>1, <1>2, MishapIs
<1>4. (/\ Blank /\ doc \in [Task -> Object \cup {Absent}]
       /\ (\A t \in Task : doc[t] \in Values(t))
       /\ mishaps \in 0..MaxMishaps /\ erred \in BOOLEAN
       => Inv)'
  BY BlankIsFine, PTL
<1>5. (\A t \in Task : doc[t] \in Values(t))'
  BY <1>1, <1>2 DEF Values
<1>6. doc' \in [Task -> Object \cup {Absent}]
  BY <1>1, <1>2 DEF Typed
<1> QED  BY <1>2, <1>3, <1>4, <1>5, <1>6

LEMMA InvInit == Init => Inv
<1> SUFFICES ASSUME Init  PROVE Inv
  OBVIOUS
<1>1. Blank /\ doc = [t \in Task |-> Absent] /\ mishaps = 0 /\ erred = FALSE /\ MaxMishaps \in Nat
  BY TaskRecoveryAssumption DEF Init, Blank
<1>2. \A t \in Task : doc[t] \in Values(t)
  BY <1>1 DEF Values
<1>3. doc \in [Task -> Object \cup {Absent}] /\ mishaps \in 0..MaxMishaps
  BY <1>1
<1> QED  BY <1>1, <1>2, <1>3, BlankIsFine

LEMMA InvStutter ==
    ASSUME Inv, UNCHANGED vars
    PROVE  Inv'
<1>1. UNCHANGED <<doc, phase, toClean, toList, obj, cached, enqueuing, queued, running, finishers,
                  posting, cancelling, mishaps, erred>>
  BY DEF vars, startup, memory, goroutines
<1>2. Typed'
  BY <1>1 DEF Inv, Typed
<1>3. \A t \in Task : SameFor(t) /\ Fine(t)
  BY <1>1 DEF SameFor, Inv
<1> QED  BY <1>1, <1>2, <1>3, OtherFine DEF Inv

LEMMA InvStep == Inv /\ [Next]_vars => Inv'
<1> SUFFICES ASSUME Inv, [Next]_vars  PROVE Inv'
  OBVIOUS
<1>1. CASE Start  BY <1>1, StartKeeps
<1>2. CASE Serve \/ CleanupFails  BY <1>2, ServeKeeps
<1>3. CASE ListFails  BY <1>3, ListFailsKeeps
<1>4. CASE Crash  BY <1>4, CrashKeeps
<1>5. ASSUME NEW t \in Task, CleanTask(t) \/ ListPending(t)  PROVE Inv'
  BY <1>5, CleanKeeps, ListKeeps
<1>6. ASSUME NEW t \in Task, CreateTask(t) \/ CancelRead(t) \/ CancelWrite(t)  PROVE Inv'
  BY <1>6, CreateKeeps, CancelKeeps
<1>7. ASSUME NEW t \in Task, NEW k \in Maker, Goroutine(t, k)  PROVE Inv'
  BY <1>7, EnqueueKeeps, AssignKeeps, ReportKeeps, FinishKeeps, FinishedKeeps, FinishFailsKeeps
     DEF Goroutine
<1>8. ASSUME NEW t \in Task, NEW k \in Maker, Progress(t, k)  PROVE Inv'
  BY <1>8, ProgressKeeps
<1>9. CASE UNCHANGED vars  BY <1>9, InvStutter
<1> QED
  BY <1>1, <1>2, <1>3, <1>4, <1>5, <1>6, <1>7, <1>8, <1>9 DEF Next, Startup

LEMMA InvHolds == Spec => []Inv
BY InvInit, InvStep, PTL DEF Spec

-----------------------------------------------------------------------------
(* The theorems.                                                           *)

\* Types, and the retry budget of every document and object, over any number of
\* restarts: Settled counts up only below MaxRetry, and what is read from a
\* document was within its budget already.
THEOREM TypeCorrect == Spec => []TypeOK
BY InvHolds, InvIsTyped, PTL

\* Once assignPendingTasks has been over the documents, a document that says
\* pending or processing is with a queue, a worker or a goroutine, unless the
\* database failed, whatever crashes, cancels and double listings there were.
THEOREM HeldUntilFinished == Spec => []UnfinishedIsHeld
<1>1. Inv => UnfinishedIsHeld
  <2> SUFFICES ASSUME Inv, NEW t \in Task, phase = "serving", t \notin toList, ~erred,
                      Unfinished(doc[t])
               PROVE  Live(t) # {}
    BY DEF UnfinishedIsHeld, Unfinished
  <2>1. PICK k \in Maker : Busy(t, k)
    BY DEF Inv, Fine, DocumentHeld
  <2> QED  BY <2>1 DEF Live, Busy
<1> QED  BY <1>1, InvHolds, PTL

\* What a process that is gone has left finished, and nobody has in hand.
Done(t, outcome) == doc[t].status = "finished" /\ doc[t].outcome = outcome

LeftDone(t, outcome) ==
    /\ Done(t, outcome) /\ cached[t] = "none" /\ cancelling[t] = Absent
    /\ \A k \in Maker : ~Busy(t, k)

LEMMA LeftDoneStep ==
    ASSUME NEW t \in Task, NEW outcome \in Outcome, Inv, LeftDone(t, outcome), [Next]_vars
    PROVE  LeftDone(t, outcome)'
<1> DEFINE Kept == /\ doc'[t] = doc[t] /\ cached'[t] = "none" /\ cancelling'[t] = Absent
                   /\ \A k \in Maker : ~Busy(t, k)'
<1>1. Typed /\ Fine(t) /\ doc[t] # Absent
  BY DEF Inv, LeftDone, Done, Absent
<1>2. SUFFICES Kept
  BY DEF LeftDone, Done
<1>3. CASE Start \/ Serve \/ CleanupFails \/ ListFails
  BY <1>3 DEF Start, Serve, CleanupFails, ListFails, memory, goroutines, Busy, LeftDone
<1>4. CASE Crash
  BY <1>4 DEF Crash, Busy
<1>5. ASSUME NEW s \in Task, CleanTask(s)  PROVE Kept
  BY <1>1, <1>5 DEF CleanTask, Set, Update, Busy, LeftDone, Done, Typed
<1>6. ASSUME NEW s \in Task, ListPending(s)  PROVE Kept
  BY <1>1, <1>6 DEF ListPending, Set, Busy, LeftDone, Done, Typed
<1>7. ASSUME NEW s \in Task, CreateTask(s)  PROVE Kept
  BY <1>1, <1>7 DEF CreateTask, Set, Update, Busy, LeftDone, Done, Typed
<1>8. ASSUME NEW s \in Task, CancelRead(s)  PROVE Kept
  BY <1>1, <1>8 DEF CancelRead, Busy, LeftDone, Done, Typed
<1>9. ASSUME NEW s \in Task, CancelWrite(s)  PROVE Kept
  BY <1>1, <1>9 DEF CancelWrite, Update, Busy, LeftDone, Done, Typed
<1>10. ASSUME NEW s \in Task, NEW j \in Maker, EnqueueTask(s, j)  PROVE Kept
  BY <1>1, <1>10 DEF EnqueueTask, Busy, LeftDone, Done
<1>11. ASSUME NEW s \in Task, NEW j \in Maker, Assign(s, j)  PROVE Kept
  BY <1>1, <1>11 DEF Assign, Update, Busy, LeftDone, Done, Typed
<1>12. ASSUME NEW s \in Task, NEW j \in Maker, NEW out, Report(s, j, out)  PROVE Kept
  BY <1>1, <1>12 DEF Report, Update, Busy, LeftDone, Done, Typed
<1>13. ASSUME NEW s \in Task, NEW j \in Maker, TaskFinish(s, j)  PROVE Kept
  BY <1>1, <1>13 DEF TaskFinish, Busy, LeftDone, Done
<1>14. ASSUME NEW s \in Task, NEW j \in Maker, TaskFinished(s, j)  PROVE Kept
  BY <1>1, <1>14 DEF TaskFinished, Update, Busy, LeftDone, Done, Typed
<1>15. ASSUME NEW s \in Task, NEW j \in Maker, TaskFinishFails(s, j)  PROVE Kept
  BY <1>1, <1>15 DEF TaskFinishFails, Busy, LeftDone, Done
<1>16. ASSUME NEW s \in Task, NEW j \in Maker, Progress(s, j)  PROVE Kept
  BY <1>1, <1>16 DEF Progress, Update, Busy, LeftDone, Done, Typed, memory, goroutines, Maker
<1>17. CASE UNCHANGED vars
  BY <1>17 DEF vars, memory, goroutines, Busy, LeftDone
<1> HIDE DEF Kept
<1> QED
  BY <1>3, <1>4, <1>5, <1>6, <1>7, <1>8, <1>9, <1>10, <1>11, <1>12, <1>13, <1>14, <1>15, <1>16,
     <1>17 DEF Next, Startup, Goroutine

\* A document that is finished when the process is gone is never changed again:
\* no restart, however many there are, runs or settles the task once more.
THEOREM RestartKeepsFinished == Spec => FinishedSurvivesRestart
<1>1. ASSUME NEW t \in Task, NEW outcome \in Outcome
      PROVE  Spec => [](phase = "down" /\ Done(t, outcome) => []Done(t, outcome))
  <2>1. Inv /\ phase = "down" /\ Done(t, outcome) => LeftDone(t, outcome)
    BY DEF Inv, Fine, StartupOK, LeftDone
  <2>2. Inv /\ LeftDone(t, outcome) /\ [Next]_vars => LeftDone(t, outcome)'
    BY LeftDoneStep
  <2>3. LeftDone(t, outcome) => Done(t, outcome)
    BY DEF LeftDone
  <2> QED  BY <2>1, <2>2, <2>3, InvHolds, PTL DEF Spec
<1> QED  BY <1>1 DEF FinishedSurvivesRestart, Done

LEMMA TwoObjects ==
    ASSUME NEW t \in Task, NEW k \in Maker, NEW j \in Maker \ {k},
           obj[t][k] # Absent, obj[t][j] # Absent
    PROVE  Cardinality({m \in Maker : obj[t][m] # Absent}) > 1
<1> DEFINE S == {m \in Maker : obj[t][m] # Absent}
<1>1. IsFiniteSet({"api"}) /\ IsFiniteSet({"api", "list"}) /\ IsFiniteSet(Maker)
  <2>1. IsFiniteSet({"api"})
    BY FS_Singleton
  <2>2. IsFiniteSet({"api"} \cup {"list"})
    BY <2>1, FS_AddElement
  <2>3. IsFiniteSet({"api", "list"} \cup {"clean"})
    <3>1. {"api"} \cup {"list"} = {"api", "list"}
      OBVIOUS
    <3> QED  BY <2>2, <3>1, FS_AddElement
  <2>4. {"api", "list"} \cup {"clean"} = Maker /\ {"api"} \cup {"list"} = {"api", "list"}
    BY DEF Maker
  <2> QED  BY <2>1, <2>2, <2>3, <2>4
<1>2. IsFiniteSet(S) /\ k \in S /\ j \in S
  BY <1>1, FS_Subset
<1>3. Cardinality(S) \in Nat /\ Cardinality(S) # 0 /\ Cardinality(S) # 1
  <2>1. Cardinality(S) \in Nat
    BY <1>2, FS_CardinalityType
  <2>2. Cardinality(S) # 0
    BY <1>2, FS_EmptySet
  <2>3. Cardinality(S) # 1
    <3>1. \A x : S # {x}
      BY <1>2
    <3> QED  BY <1>2, <3>1, FS_Singleton
  <2> QED  BY <2>1, <2>2, <2>3
<1> QED  BY <1>3

\* What the step would have to be for a result to be lost with nobody to blame.
Unblamed(t) ==
    /\ cancelling[t] = Absent /\ \A k \in Maker : <<t, k>> \notin queued
    /\ \A k \in Maker : obj[t][k] # Absent => \A j \in Maker \ {k} : obj[t][j] = Absent

LEMMA ResultStays ==
    ASSUME NEW t \in Task, Inv, Unblamed(t), Result(doc[t]), [Next]_vars
    PROVE  Result(doc'[t])
<1>1. Typed /\ Fine(t) /\ doc[t] # Absent
  BY DEF Inv, Result, Absent
<1>2. \A k \in Maker : obj[t][k] # Absent => Result(obj[t][k])
  BY <1>1 DEF Fine, ResultKept, Unblamed
<1>3. CASE UNCHANGED doc
  BY <1>3
<1>4. ASSUME NEW s \in Task, s # t, NEW o, Update(s, o)  PROVE Result(doc'[t])
  BY <1>1, <1>4 DEF Update, Typed
<1>5. ASSUME NEW k \in Maker, obj[t][k] # Absent, Update(t, obj[t][k])  PROVE Result(doc'[t])
  BY <1>1, <1>2, <1>5 DEF Update, Typed
<1>6. ASSUME NEW s \in Task, CleanTask(s)  PROVE Result(doc'[t])
  <2>1. s = t => UNCHANGED doc
    BY <1>6 DEF CleanTask, Result
  <2> QED  BY <1>3, <1>4, <1>6, <2>1 DEF CleanTask
<1>7. ASSUME NEW s \in Task, CreateTask(s)  PROVE Result(doc'[t])
  BY <1>1, <1>4, <1>7 DEF CreateTask
<1>8. ASSUME NEW s \in Task, CancelWrite(s)  PROVE Result(doc'[t])
  BY <1>3, <1>4, <1>8 DEF CancelWrite, Unblamed
<1>9. ASSUME NEW s \in Task, NEW k \in Maker, Assign(s, k)  PROVE Result(doc'[t])
  BY <1>3, <1>4, <1>9 DEF Assign, Unblamed
<1>10. ASSUME NEW s \in Task, NEW k \in Maker, NEW out, Report(s, k, out)  PROVE Result(doc'[t])
  <2>1. s # t
    <3>1. s = t => obj[t][k].status = "processing" /\ obj[t][k] # Absent
      BY <1>1, <1>10 DEF Report, Fine, StagesOK, Busy
    <3> QED  BY <1>2, <3>1 DEF Result
  <2> QED  BY <1>3, <1>4, <1>10, <2>1 DEF Report
<1>11. ASSUME NEW s \in Task, NEW k \in Maker, TaskFinished(s, k)  PROVE Result(doc'[t])
  <2>1. s = t => obj[t][k] # Absent
    BY <1>1, <1>11 DEF TaskFinished, Fine, StagesOK, Busy
  <2> QED  BY <1>4, <1>5, <1>11, <2>1 DEF TaskFinished
<1>12. ASSUME NEW s \in Task, NEW k \in Maker, Progress(s, k)  PROVE Result(doc'[t])
  <2>1. s = t => obj[t][k] # Absent
    BY <1>1, <1>12 DEF Progress, Fine, StagesOK
  <2> QED  BY <1>4, <1>5, <1>12, <2>1 DEF Progress
<1>13. CASE UNCHANGED vars
  BY <1>3, <1>13 DEF vars
<1> QED
  BY <1>3, <1>6, <1>7, <1>8, <1>9, <1>10, <1>11, <1>12, <1>13
     DEF Next, Startup, Goroutine, Start, Serve, CleanupFails, ListFails, Crash, ListPending,
         CancelRead, EnqueueTask, TaskFinish, TaskFinishFails

\* A stored result is only replaced by a cancel that read the document before, by
\* a second object of the task, or by one that was queued again: no report,
\* progress message, finished webhook or startup step alone replaces it.
THEOREM ResultLoss == Spec => ResultLossIsBlamed
<1>1. ASSUME Inv, [Next]_vars, NEW t \in Task, Result(doc[t]), ~Result(doc'[t])
      PROVE  \/ cancelling[t] # Absent
             \/ Cardinality({k \in Maker : obj[t][k] # Absent}) > 1
             \/ \E k \in Maker : <<t, k>> \in queued
  <2>1. ~Unblamed(t)
    BY <1>1, ResultStays
  <2> QED  BY <2>1, TwoObjects DEF Unblamed
<1>2. Inv /\ [Next]_vars =>
        [\A t \in Task :
           LET IsResult(d) == d.status \in {"completed", "finished"} /\ d.outcome = "ok"
           IN IsResult(doc[t]) /\ ~IsResult(doc[t])' =>
                 \/ cancelling[t] # Absent
                 \/ Cardinality({k \in Maker : obj[t][k] # Absent}) > 1
                 \/ \E k \in Maker : <<t, k>> \in queued]_vars
  BY <1>1 DEF Result
<1> QED  BY <1>2, InvHolds, PTL DEF Spec, ResultLossIsBlamed
=============================================================================
