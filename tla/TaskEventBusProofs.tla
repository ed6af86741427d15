------------------------- MODULE TaskEventBusProofs -------------------------
(***************************************************************************)
(* Proofs about TaskEventBus, for any retry budget, any number of progress *)
(* messages and all faults: the types, the order of a stream, that a       *)
(* client that waits has a topic that Finish will find, and that a topic   *)
(* in the map has a Finish ahead of it.                                    *)
(***************************************************************************)
EXTENDS TaskEventBus, SequenceTheorems, TLAPS

\* What was sent is the progress up to the index, element by element.
Streamed ==
    /\ Len(received) = stream.index
    /\ \A i \in 1..Len(received) : received[i] = progress[i]

\* A client that waits is on the topic in the map, or its topic is done. Until
\* the task is handed to the dispatcher nothing has told the bus of it.
TopicFound ==
    /\ kind = "wait" /\ client \in {"listening", "submitted"} => mapped \/ done
    /\ client \in {"new", "listening"} => ~settled /\ status = "new"

IInv == TypeOK /\ Streamed

\* Told of nothing before the task is submitted, the bus is told only of what is
\* settled; only a client that streams has a goroutine that could answer it.
SettledFirst ==
    /\ client \in {"new", "listening"} => ~settled /\ ~done /\ status = "new"
    /\ settled \/ done => status = "finished" \/ tries > 0
    /\ kind # "stream" => stream.pc = "off"
    /\ WaitMeansSettled

\* A task the dispatcher still has to finish, or of which it has to tell the bus.
Unfinished == settled \/ status \in {"pending", "processing"}

\* A topic that is done is out of the map for good. One in the map waits for its
\* client to submit, or for a task that is not finished, unless it was left behind
\* by a document that could not be inserted. A stream that runs on is on a topic
\* in the map.
TopicHasEnd ==
    /\ done => ~mapped
    /\ mapped => client \in {"listening", "failed"} \/ Unfinished
    /\ stream.pc \notin {"off", "closed"} => mapped \/ done

\* TopicHasEnd, with how far the client is.
TopicEnds ==
    /\ TopicHasEnd
    /\ client = "new" => ~mapped
    /\ client \in {"new", "listening"} => ~done /\ stream.pc = "off"
    /\ kind # "none" /\ client \in {"listening", "submitted", "left", "answered"}
           => mapped \/ done
    /\ kind = "none" => stream.pc = "off" /\ ~mapped
    /\ client = "failed" => stream.pc = "off" /\ status = "new" /\ ~settled /\ ~done

-----------------------------------------------------------------------------
(* Types.                                                                  *)

LEMMA InitTyped == Init => TypeOK
<1> SUFFICES ASSUME Init PROVE TypeOK
  OBVIOUS
<1>1. /\ stream \in [pc : StreamStep, index : Nat, size : Nat]
      /\ stream.index = 0 /\ stream.size = 0
  BY DEF Init, StreamStep
<1>2. /\ progress \in Seq(Nat) /\ received \in Seq(Nat)
      /\ Len(progress) = 0
  BY DEF Init
<1>3. tries \in 0..MaxRetry
  BY TaskEventBusAssumption DEF Init
<1>4. stream.size <= Len(progress) /\ stream.index <= stream.size
  BY <1>1, <1>2
<1>5. /\ kind \in {"wait", "stream", "none"} /\ client \in ClientStep
      /\ result \in Status /\ status \in Status
      /\ settled \in BOOLEAN /\ mapped \in BOOLEAN /\ done \in BOOLEAN
      /\ growing \in BOOLEAN /\ crashed \in BOOLEAN
  BY DEF Init, ClientStep, Status
<1> QED
  BY <1>1, <1>2, <1>3, <1>4, <1>5 DEF TypeOK

\* The handler of the client keeps the types.
LEMMA HandlerTyped ==
    ASSUME TypeOK, Handler \/ ClientLeaves
    PROVE  TypeOK'
<1>1. CASE Listener
  BY <1>1 DEF Listener, TypeOK, task, ClientStep
<1>2. CASE Submit
  BY <1>2 DEF Submit, TypeOK, topic, ClientStep, Status, StreamStep
<1>3. CASE SubmitFails
  BY <1>3 DEF SubmitFails, TypeOK, topic, task, ClientStep
<1>4. CASE WaitReturns
  BY <1>4 DEF WaitReturns, TypeOK, topic, task, ClientStep
<1>5. CASE ClientLeaves
  BY <1>5 DEF ClientLeaves, TypeOK, topic, task, ClientStep
<1> QED
  BY <1>1, <1>2, <1>3, <1>4, <1>5 DEF Handler

\* The goroutine of Progress keeps the types.
LEMMA StreamerTyped ==
    ASSUME TypeOK, Streamer
    PROVE  TypeOK'
<1>1. CASE CheckDone
  BY <1>1 DEF CheckDone, TypeOK, topic, task, At, ClientStep, StreamStep
<1>2. CASE ReadSize
  <2>1. Len(progress) \in Nat
    BY DEF TypeOK
  <2>2. stream' = [pc |-> "send", index |-> stream.index, size |-> Len(progress)]
    BY <1>2 DEF ReadSize, TypeOK
  <2>3. stream.index \in Nat /\ stream.index <= Len(progress)
    BY <2>1 DEF TypeOK
  <2> QED
    BY <1>2, <2>1, <2>2, <2>3 DEF ReadSize, TypeOK, StreamStep, topic, task
<1>3. CASE SendProgress
  <2>1. progress[stream.index + 1] \in Nat
    BY <1>3 DEF SendProgress, TypeOK
  <2>2. received' \in Seq(Nat)
    BY <1>3, <2>1 DEF SendProgress, TypeOK
  <2>3. stream.index + 1 <= stream.size
    BY <1>3 DEF SendProgress, TypeOK
  <2>4. stream' = [pc |-> stream.pc, index |-> stream.index + 1,
                    size |-> stream.size]
    BY <1>3 DEF SendProgress, TypeOK
  <2>5. stream' \in [pc : StreamStep, index : Nat, size : Nat]
    BY <2>4 DEF TypeOK
  <2>6. stream'.index <= stream'.size /\ stream'.size <= Len(progress)
    BY <2>3, <2>4 DEF TypeOK
  <2> QED
    BY <1>3, <2>2, <2>5, <2>6 DEF SendProgress, TypeOK, topic, task
<1>4. CASE SendTorn
  BY <1>4 DEF SendTorn, TypeOK, topic, task
<1>5. CASE AllSent
  BY <1>5 DEF AllSent, TypeOK, topic, task, StreamStep
<1>6. CASE FallAsleep
  BY <1>6 DEF FallAsleep, TypeOK, topic, task, StreamStep
<1> QED
  BY <1>1, <1>2, <1>3, <1>4, <1>5, <1>6 DEF Streamer

\* A broadcast moves the goroutine and leaves what it has read alone.
LEMMA BroadcastTyped ==
    ASSUME TypeOK, Broadcast \/ UNCHANGED stream
    PROVE  /\ stream' \in [pc : StreamStep, index : Nat, size : Nat]
           /\ stream'.index = stream.index
           /\ stream'.size = stream.size
  BY DEF Broadcast, TypeOK, StreamStep, At

\* The dispatcher keeps the types.
LEMMA DispatcherTyped ==
    ASSUME TypeOK, Dispatcher
    PROVE  TypeOK'
<1>1. CASE Dispatch
  BY <1>1 DEF Dispatch, TypeOK, topic, Status
<1>2. CASE EmitProgress
  <2>1. progress' \in Seq(Nat) /\ Len(progress') = Len(progress) + 1
    BY <1>2 DEF EmitProgress, TypeOK
  <2> QED
    BY <1>2, <2>1 DEF EmitProgress, TypeOK, task
<1>3. CASE EmitBroadcast
  BY <1>3, BroadcastTyped DEF EmitBroadcast, TypeOK, task
<1>4. CASE Settle
  BY <1>4, TaskEventBusAssumption DEF Settle, TypeOK, topic, Status
<1>5. CASE Finish
  BY <1>5, BroadcastTyped DEF Finish, TypeOK
<1> QED
  BY <1>1, <1>2, <1>3, <1>4, <1>5 DEF Dispatcher

LEMMA StepTyped == TypeOK /\ [Next]_vars => TypeOK'
<1> SUFFICES ASSUME TypeOK, [Next]_vars PROVE TypeOK'
  OBVIOUS
<1>1. CASE UNCHANGED vars
  BY <1>1 DEF vars, task, topic, TypeOK
<1> QED
  BY <1>1, HandlerTyped, StreamerTyped, DispatcherTyped DEF Next

-----------------------------------------------------------------------------
(* The order of a stream.                                                  *)

\* A step that extends the progress at most, and leaves what was sent and the
\* index alone, keeps Streamed.
LEMMA StreamedKept ==
    ASSUME TypeOK, Streamed,
           UNCHANGED received, stream'.index = stream.index,
           Len(progress) <= Len(progress'),
           \A i \in 1..Len(progress) : progress'[i] = progress[i]
    PROVE  Streamed'
  BY DEF Streamed, TypeOK

\* The only step that sends something sends the next message.
LEMMA StepStreamed == IInv /\ [Next]_vars => Streamed'
<1> SUFFICES ASSUME TypeOK, Streamed, [Next]_vars PROVE Streamed'
  BY DEF IInv
<1>1. CASE Handler \/ ClientLeaves \/ UNCHANGED vars
  BY <1>1, StreamedKept
  DEF Handler, Listener, Submit, SubmitFails, WaitReturns, ClientLeaves, topic,
      task, vars, TypeOK
<1>2. CASE CheckDone \/ ReadSize \/ SendTorn \/ AllSent \/ FallAsleep
  <2>1. stream'.index = stream.index
    BY <1>2 DEF CheckDone, ReadSize, SendTorn, AllSent, FallAsleep, TypeOK
  <2>2. UNCHANGED <<received, progress>>
    BY <1>2 DEF CheckDone, ReadSize, SendTorn, AllSent, FallAsleep, topic
  <2> QED
    BY <2>1, <2>2 DEF Streamed
<1>3. CASE SendProgress
  <2>1. /\ Len(received') = Len(received) + 1
        /\ \A i \in 1..Len(received) : received'[i] = received[i]
        /\ received'[Len(received) + 1] = progress[stream.index + 1]
        /\ Len(received) \in Nat
    BY <1>3 DEF SendProgress, TypeOK
  <2>2. stream'.index = stream.index + 1 /\ progress' = progress
    BY <1>3 DEF SendProgress, TypeOK, topic
  <2> QED
    BY <2>1, <2>2 DEF Streamed, TypeOK
<1>4. CASE Dispatch \/ Settle
  BY <1>4, StreamedKept DEF Dispatch, Settle, topic, TypeOK
<1>5. CASE EmitProgress
  <2>1. /\ Len(progress') = Len(progress) + 1 /\ Len(progress) \in Nat
        /\ \A i \in 1..Len(progress) : progress'[i] = progress[i]
    BY <1>5 DEF EmitProgress, TypeOK
  <2> QED
    BY <1>5, <2>1, StreamedKept DEF EmitProgress
<1>6. CASE EmitBroadcast \/ Finish
  BY <1>6, StreamedKept, BroadcastTyped DEF EmitBroadcast, Finish, TypeOK
<1> QED
  BY <1>1, <1>2, <1>3, <1>4, <1>5, <1>6 DEF Next, Streamer, Dispatcher

LEMMA StreamedIsPrefix == IInv => StreamIsPrefix
<1> SUFFICES ASSUME TypeOK, Streamed PROVE StreamIsPrefix
  BY DEF IInv
<1> DEFINE sent == SubSeq(progress, 1, Len(received))
<1>1. Len(received) \in Nat /\ Len(received) <= Len(progress)
  BY DEF TypeOK, Streamed
<1>2. \A i \in 1..Len(received) : progress[i] \in Nat
  BY <1>1 DEF TypeOK
<1>3. /\ sent \in Seq(Nat)
      /\ Len(sent) = Len(received)
      /\ \A i \in 1..Len(received) : sent[i] = progress[i]
  BY <1>1, <1>2, SubSeqProperties
<1> QED
  BY <1>3, SeqEqual DEF StreamIsPrefix, TypeOK, Streamed

-----------------------------------------------------------------------------
(* The topic of a client that waits.                                       *)

\* Only Finish takes a topic out of the map, and it marks it done; the dispatcher
\* has no task to finish before the client has its topic.
LEMMA StepTopicFound == TypeOK /\ TopicFound /\ [Next]_vars => TopicFound'
<1> SUFFICES ASSUME TypeOK, TopicFound, [Next]_vars PROVE TopicFound'
  OBVIOUS
<1>1. CASE Listener
  BY <1>1 DEF Listener, TopicFound, task
<1>2. CASE Submit
  BY <1>2 DEF Submit, TopicFound, topic
<1>3. CASE SubmitFails \/ WaitReturns \/ ClientLeaves \/ UNCHANGED vars
  BY <1>3
  DEF SubmitFails, WaitReturns, ClientLeaves, TopicFound, topic, task, vars
<1>4. CASE CheckDone
  BY <1>4 DEF CheckDone, TopicFound, topic, task
<1>5. CASE ReadSize \/ SendProgress \/ SendTorn \/ AllSent \/ FallAsleep
  BY <1>5
  DEF ReadSize, SendProgress, SendTorn, AllSent, FallAsleep, TopicFound, topic,
      task
<1>6. CASE Dispatch \/ Settle
  BY <1>6 DEF Dispatch, Settle, TopicFound, topic
<1>7. CASE EmitProgress \/ EmitBroadcast
  BY <1>7 DEF EmitProgress, EmitBroadcast, TopicFound, task
<1>8. CASE Finish
  BY <1>8 DEF Finish, TopicFound
<1> QED
  BY <1>1, <1>2, <1>3, <1>4, <1>5, <1>6, <1>7, <1>8
  DEF Next, Handler, Streamer, Dispatcher

\* The status a waiter is answered with is read after the bus was told, and the
\* bus is told after it was set.
LEMMA StepSettledFirst == TypeOK /\ SettledFirst /\ [Next]_vars => SettledFirst'
<1> SUFFICES ASSUME TypeOK, SettledFirst, [Next]_vars PROVE SettledFirst'
  OBVIOUS
<1>1. tries \in Nat /\ stream \in [pc : StreamStep, index : Nat, size : Nat]
  BY TaskEventBusAssumption DEF TypeOK
<1> USE DEF SettledFirst, WaitMeansSettled
<1>2. CASE Listener
  BY <1>2 DEF Listener, task
<1>3. CASE Submit
  BY <1>1, <1>3 DEF Submit, topic
<1>4. CASE SubmitFails \/ ClientLeaves \/ UNCHANGED vars
  BY <1>4 DEF SubmitFails, ClientLeaves, topic, task, vars
<1>5. CASE WaitReturns
  BY <1>5 DEF WaitReturns, topic, task
<1>6. CASE CheckDone
  BY <1>1, <1>6 DEF CheckDone, At, topic, task
<1>7. CASE ReadSize \/ SendProgress \/ SendTorn \/ AllSent \/ FallAsleep
  BY <1>1, <1>7
  DEF ReadSize, SendProgress, SendTorn, AllSent, FallAsleep, At, topic, task
<1>8. CASE Dispatch
  BY <1>8 DEF Dispatch, topic
<1>9. CASE Settle
  <2>1. status' = "finished" \/ tries' > 0
    BY <1>1, <1>9 DEF Settle
  <2>2. tries' >= tries /\ tries' \in Nat
    BY <1>1, <1>9 DEF Settle
  <2> QED  BY <1>1, <1>9, <2>1, <2>2 DEF Settle, topic
<1>10. CASE EmitProgress
  BY <1>10 DEF EmitProgress, task
<1>11. CASE EmitBroadcast
  BY <1>1, <1>11 DEF EmitBroadcast, Broadcast, At, task
<1>12. CASE Finish
  BY <1>1, <1>12 DEF Finish, Broadcast, At
<1> QED
  BY <1>2, <1>3, <1>4, <1>5, <1>6, <1>7, <1>8, <1>9, <1>10, <1>11, <1>12
  DEF Next, Handler, Streamer, Dispatcher

\* Only Finish releases a topic, and only it leaves the task with nothing to do:
\* the steps of the client and of the dispatcher keep the two together.
LEMMA StepTopicEnds ==
    TypeOK /\ TopicFound /\ TopicEnds /\ [Next]_vars => TopicEnds'
<1> SUFFICES ASSUME TypeOK, TopicFound, TopicEnds, [Next]_vars PROVE TopicEnds'
  OBVIOUS
<1>1. /\ stream \in [pc : StreamStep, index : Nat, size : Nat]
      /\ client \in ClientStep
      /\ kind \in {"wait", "stream", "none"}
  BY DEF TypeOK
<1> USE DEF TopicFound, TopicEnds, TopicHasEnd, Unfinished
<1>2. CASE Listener
  BY <1>1, <1>2 DEF Listener, task
<1>3. CASE Submit
  BY <1>1, <1>3 DEF Submit, topic
<1>4. CASE SubmitFails
  BY <1>1, <1>4 DEF SubmitFails, topic, task
<1>5. CASE WaitReturns \/ ClientLeaves \/ UNCHANGED vars
  BY <1>1, <1>5 DEF WaitReturns, ClientLeaves, topic, task, vars
<1>6. CASE CheckDone
  BY <1>1, <1>6 DEF CheckDone, At, topic, task
<1>7. CASE ReadSize \/ SendProgress \/ SendTorn \/ AllSent \/ FallAsleep
  BY <1>1, <1>7
  DEF ReadSize, SendProgress, SendTorn, AllSent, FallAsleep, At, topic, task
<1>8. CASE Dispatch \/ Settle
  BY <1>1, <1>8 DEF Dispatch, Settle, topic
<1>9. CASE EmitProgress
  BY <1>1, <1>9 DEF EmitProgress, task
<1>10. CASE EmitBroadcast
  BY <1>1, <1>10 DEF EmitBroadcast, Broadcast, At, task
<1>11. CASE Finish
  BY <1>1, <1>11 DEF Finish, Broadcast, At
<1> QED
  BY <1>2, <1>3, <1>4, <1>5, <1>6, <1>7, <1>8, <1>9, <1>10, <1>11
  DEF Next, Handler, Streamer, Dispatcher

-----------------------------------------------------------------------------
\* Type correctness: the goroutine of Progress never reads past the slice, and
\* the task is retried within its budget.
THEOREM TypeCorrect == Spec => []TypeOK
  BY InitTyped, StepTyped, PTL DEF Spec

\* A streaming client is sent the progress of its task without gaps, doubles or
\* changes of order, however appends and reads interleave.
THEOREM StreamInOrder == Spec => []StreamIsPrefix
<1>1. Init => IInv
  BY InitTyped DEF Init, IInv, Streamed
<1>2. IInv /\ [Next]_vars => IInv'
  BY StepTyped, StepStreamed DEF IInv
<1> QED
  BY <1>1, <1>2, StreamedIsPrefix, PTL DEF Spec

\* A client that waits always has its topic in the map or done: no Finish misses
\* it, which is the safety half of WaiterIsAnswered.
THEOREM WaiterHasTopic == Spec => []TopicFound
<1>1. Init => TopicFound
  BY DEF Init, TopicFound
<1>2. TypeOK /\ TopicFound /\ [Next]_vars => TopicFound'
  BY StepTopicFound
<1> QED
  BY <1>1, <1>2, TypeCorrect, PTL DEF Spec

\* A client that waits is answered with a task that is finished or was sent into
\* a retry: no answer overtakes the status it reports.
THEOREM WaiterSeesSettled == Spec => []WaitMeansSettled
<1>1. Init => SettledFirst
  BY DEF Init, SettledFirst, WaitMeansSettled
<1>2. TypeOK /\ SettledFirst /\ [Next]_vars => SettledFirst'
  BY StepSettledFirst
<1>3. SettledFirst => WaitMeansSettled
  BY DEF SettledFirst
<1> QED
  BY <1>1, <1>2, <1>3, TypeCorrect, PTL DEF Spec

\* A topic in the map always has a Finish ahead of it: its client has not submitted
\* yet, or its task is not finished. The safety half of TopicIsReleased, and with
\* the stream on such a topic that of SleeperIsWoken.
THEOREM TopicNeverStranded == Spec => []TopicHasEnd
<1>1. Init => TopicEnds
  BY DEF Init, TopicEnds, TopicHasEnd
<1>2. TypeOK /\ TopicFound /\ TopicEnds /\ [Next]_vars => TopicEnds'
  BY StepTopicEnds
<1>3. TopicEnds => TopicHasEnd
  BY DEF TopicEnds
<1> QED
  BY <1>1, <1>2, <1>3, TypeCorrect, WaiterHasTopic, PTL DEF Spec
=============================================================================
