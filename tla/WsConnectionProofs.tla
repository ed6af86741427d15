------------------------- MODULE WsConnectionProofs -------------------------
(***************************************************************************)
(* Proofs about WsConnection, for any number of callers, any capacity of   *)
(* the send channel and all faults: nothing follows an abandoned message,  *)
(* the connection implements the contract of SendPayload, no caller that   *)
(* waits is forgotten, and what is shut is not in the map.                 *)
(***************************************************************************)
EXTENDS WsConnection, TLAPS

Active == sender.pc \in {"writing", "written", "failed"}

\* A message the channel or the sender still has to deal with.
Open(m) == call[m] \in {"waiting", "timeout"}

\* What the sender and the channel hold is open, and no two of them are the
\* same message.
InFlight ==
    /\ Active => Open(sender.msg)
    /\ \A i \in DOMAIN channel : Open(channel[i])
    /\ Active => \A i \in DOMAIN channel : channel[i] # sender.msg
    /\ \A i, j \in DOMAIN channel : i # j => channel[i] # channel[j]

\* All that was written is acknowledged, but for the message whose result the
\* sender is trying to hand over, which is the last.
Acknowledged ==
    \A i \in DOMAIN wire :
        \/ call[wire[i]] = "ok"
        \/ i = Len(wire) /\ sender.pc = "written" /\ sender.msg = wire[i]

\* A result to hand over is that of a message that was written.
ResultIsWritten ==
    sender.pc = "written" => \E i \in DOMAIN wire : wire[i] = sender.msg

\* A caller that waits has its message with the sender or in the channel.
WaitingIsHeld ==
    \A m \in Msg : call[m] = "waiting" =>
        (Active /\ sender.msg = m) \/ \E i \in DOMAIN channel : channel[i] = m

\* A connection that serveConnection is through with is not in the map any more,
\* unless its response failed: then nothing ever removes it.
ShutIsUnlisted ==
    listed /\ serve \in {"removed", "shut", "closed"} =>
        call[Response] \in {"full", "failed", "timeout"}

IInv == TypeOK /\ InFlight /\ Acknowledged /\ ResultIsWritten

-----------------------------------------------------------------------------
(* Types.                                                                  *)

LEMMA InitTyped == Init => TypeOK
<1> SUFFICES ASSUME Init PROVE TypeOK
  OBVIOUS
<1>1. call \in [Msg -> CallStep]
  BY DEF Init, CallStep
<1>2. channel \in Seq(Msg) /\ Len(channel) <= ChannelCap /\ wire \in Seq(Msg)
  BY WsConnectionAssumption DEF Init
<1>3. sender \in [pc : SenderStep, msg : Msg \cup {NoMsg}] /\ sender.pc = "idle"
  BY DEF Init, SenderStep
<1> QED
  BY <1>1, <1>2, <1>3 DEF Init, TypeOK, ServeStep

\* SendPayload and its callers keep the types.
LEMMA CallsTyped ==
    ASSUME TypeOK, NEW m \in Msg, Pick(m) \/ SendPayload(m)
    PROVE  TypeOK'
<1>1. CASE Pick(m)
  BY <1>1 DEF Pick, TypeOK, CallStep
<1>2. CASE Offer(m)
  <2>1. channel' \in Seq(Msg) /\ Len(channel') = Len(channel) + 1
    BY <1>2 DEF Offer, TypeOK
  <2> QED
    BY <1>2, <2>1, WsConnectionAssumption DEF Offer, TypeOK, CallStep
<1>3. CASE OfferFull(m)
  BY <1>3 DEF OfferFull, TypeOK, CallStep
<1>4. CASE OfferPanics(m)
  BY <1>4 DEF OfferPanics, TypeOK
<1>5. CASE TimeOut(m)
  BY <1>5 DEF TimeOut, TypeOK, CallStep
<1> QED
  BY <1>1, <1>2, <1>3, <1>4, <1>5 DEF SendPayload

\* The sender keeps the types.
LEMMA SenderTyped ==
    ASSUME TypeOK, Sender
    PROVE  TypeOK'
<1>1. CASE SenderTake
  <2>1. /\ Head(channel) \in Msg
        /\ Tail(channel) \in Seq(Msg)
        /\ Len(Tail(channel)) = Len(channel) - 1
        /\ Len(channel) \in Nat
    BY <1>1 DEF SenderTake, TypeOK
  <2> QED
    BY <1>1, <2>1, WsConnectionAssumption DEF SenderTake, TypeOK, SenderStep
<1>2. CASE SenderQuit
  BY <1>2 DEF SenderQuit, TypeOK, SenderStep
<1>3. CASE WriteOk
  BY <1>3 DEF WriteOk, TypeOK, SenderStep
<1>4. CASE WriteFails
  BY <1>4 DEF WriteFails, TypeOK, SenderStep
<1>5. CASE Report
  BY <1>5 DEF Report, TypeOK, SenderStep, CallStep
<1> QED
  BY <1>1, <1>2, <1>3, <1>4, <1>5 DEF Sender

\* The serve goroutine and the socket keep the types.
LEMMA ServeTyped ==
    ASSUME TypeOK, serveConnection \/ Handling \/ SocketEnds
    PROVE  TypeOK'
  BY DEF serveConnection, HandleRegister, RegisterFails, Registered,
         ResponseFails, ServeEnds, RemoveConnection, CloseChannel, CloseSocket,
         Handling, HandleMessage, HandlerReturns, SocketEnds, TypeOK, ServeStep

LEMMA StepTyped == TypeOK /\ [Next]_vars => TypeOK'
<1> SUFFICES ASSUME TypeOK, [Next]_vars PROVE TypeOK'
  OBVIOUS
<1>1. CASE UNCHANGED vars
  BY <1>1 DEF vars, TypeOK
<1> QED
  BY <1>1, CallsTyped, SenderTyped, ServeTyped DEF Next, Handling

-----------------------------------------------------------------------------
(* Messages in flight.                                                     *)

LEMMA InitInv == Init => IInv
<1> SUFFICES ASSUME Init PROVE IInv
  OBVIOUS
<1>1. TypeOK
  BY InitTyped
<1> QED
  BY <1>1 DEF IInv, Init, InFlight, Acknowledged, ResultIsWritten, Active

\* A call that begins is of a message that is nowhere yet.
LEMMA CallsKeep ==
    ASSUME IInv, NEW m \in Msg, Pick(m) \/ SendPayload(m)
    PROVE  InFlight' /\ Acknowledged'
<1> USE DEF IInv
<1>t. /\ call \in [Msg -> CallStep] /\ channel \in Seq(Msg) /\ wire \in Seq(Msg)
      /\ Active => sender.msg \in Msg
  BY DEF TypeOK, Active
<1>1. CASE ~Open(m) /\ call[m] # "ok" /\ call' = [call EXCEPT ![m] = call'[m]]
           /\ UNCHANGED <<channel, sender, wire>>
  <2>1. /\ \A i \in DOMAIN channel : channel[i] # m /\ channel[i] \in Msg
        /\ Active => sender.msg # m
    BY <1>1, <1>t DEF InFlight, Open
  <2>2. \A i \in DOMAIN wire : wire[i] # m /\ wire[i] \in Msg
    BY <1>1, <1>t, <2>1 DEF Acknowledged, Active
  <2>3. \A n \in Msg : n # m => call'[n] = call[n]
    BY <1>1, <1>t
  <2>4. InFlight'
    BY <1>1, <1>t, <2>1, <2>3 DEF InFlight, Open, Active
  <2>5. Acknowledged'
    BY <1>1, <2>2, <2>3 DEF Acknowledged
  <2> QED
    BY <2>4, <2>5
<1>2. CASE Offer(m)
  <2>1. ~Open(m) /\ call[m] # "ok"
    BY <1>2 DEF Offer, Sending, Open
  <2>2. /\ call' = [call EXCEPT ![m] = "waiting"]
        /\ channel' = Append(channel, m)
        /\ UNCHANGED <<sender, wire>>
    BY <1>2 DEF Offer
  <2>3. /\ \A i \in DOMAIN channel : channel[i] # m /\ channel[i] \in Msg
        /\ Active => sender.msg # m
    BY <1>t, <2>1 DEF InFlight, Open
  <2>4. \A i \in DOMAIN wire : wire[i] # m /\ wire[i] \in Msg
    BY <1>t, <2>1, <2>3 DEF Acknowledged, Active
  <2>5. call'[m] = "waiting" /\ \A n \in Msg : n # m => call'[n] = call[n]
    BY <1>t, <2>2
  <2>6. /\ Len(channel) \in Nat /\ DOMAIN channel' = 1..(Len(channel) + 1)
        /\ DOMAIN channel = 1..Len(channel)
        /\ channel'[Len(channel) + 1] = m
        /\ \A i \in DOMAIN channel : channel'[i] = channel[i]
    BY <1>t, <2>2
  <2>7. \A i \in DOMAIN channel' : i \in DOMAIN channel \/ i = Len(channel) + 1
    BY <2>6
  <2>8. InFlight'
    <3>1. Active' => Open(sender.msg)'
      BY <1>t, <2>2, <2>3, <2>5 DEF InFlight, Open, Active
    <3>2. \A i \in DOMAIN channel' : call'[channel'[i]] \in {"waiting", "timeout"}
      BY <2>3, <2>5, <2>6, <2>7 DEF InFlight, Open
    <3>3. Active' => \A i \in DOMAIN channel' : channel'[i] # sender'.msg
      BY <2>2, <2>3, <2>6, <2>7 DEF InFlight, Active
    <3>4. \A i, j \in DOMAIN channel' : i # j => channel'[i] # channel'[j]
      BY <2>3, <2>6, <2>7 DEF InFlight
    <3> QED
      BY <3>1, <3>2, <3>3, <3>4 DEF InFlight, Open
  <2>9. Acknowledged'
    BY <2>2, <2>4, <2>5 DEF Acknowledged
  <2> QED
    BY <2>8, <2>9
<1>3. CASE TimeOut(m)
  <2>1. /\ call[m] = "waiting" /\ call' = [call EXCEPT ![m] = "timeout"]
        /\ UNCHANGED <<channel, sender, wire>>
    BY <1>3 DEF TimeOut
  <2>2. \A n \in Msg : /\ Open(n) => Open(n)'
                       /\ call[n] = "ok" => call'[n] = "ok"
    BY <1>t, <2>1 DEF Open
  <2>3. InFlight'
    BY <1>t, <2>1, <2>2 DEF InFlight, Open, Active
  <2>4. Acknowledged'
    BY <1>t, <2>1, <2>2 DEF Acknowledged
  <2> QED
    BY <2>3, <2>4
<1>4. CASE OfferPanics(m)
  BY <1>4 DEF OfferPanics, InFlight, Acknowledged, Open, Active
<1>5. CASE Pick(m) \/ OfferFull(m)
  BY <1>1, <1>5, <1>t DEF Pick, OfferFull, Sending, Open
<1> QED
  BY <1>2, <1>3, <1>4, <1>5 DEF SendPayload

\* The sender takes, writes and reports one message at a time.
LEMMA SenderKeeps ==
    ASSUME IInv, Sender
    PROVE  InFlight' /\ Acknowledged'
<1> USE DEF IInv
<1>t. /\ call \in [Msg -> CallStep] /\ channel \in Seq(Msg) /\ wire \in Seq(Msg)
      /\ sender \in [pc : SenderStep, msg : Msg \cup {NoMsg}]
      /\ Active => sender.msg \in Msg
  BY DEF TypeOK, Active
<1>1. CASE SenderTake
  <2>1. /\ Len(channel) \in Nat \ {0}
        /\ sender'.pc = "writing" /\ sender'.msg = channel[1]
        /\ channel' = Tail(channel) /\ UNCHANGED <<call, wire>>
        /\ sender.pc = "idle"
    BY <1>1, <1>t DEF SenderTake
  <2>2. /\ DOMAIN channel = 1..Len(channel)
        /\ DOMAIN channel' = 1..(Len(channel) - 1)
        /\ \A i \in DOMAIN channel' : channel'[i] = channel[i + 1]
    BY <1>t, <2>1
  <2>3. \A i \in DOMAIN channel' : i + 1 \in DOMAIN channel /\ i + 1 # 1
    BY <2>1, <2>2
  <2>4. 1 \in DOMAIN channel
    BY <2>1, <2>2
  <2>5. InFlight'
    <3>1. Open(sender.msg)'
      BY <2>1, <2>4 DEF InFlight, Open
    <3>2. \A i \in DOMAIN channel' : call'[channel'[i]] \in {"waiting", "timeout"}
      BY <2>1, <2>2, <2>3 DEF InFlight, Open
    <3>3. \A i \in DOMAIN channel' : channel'[i] # sender'.msg
      BY <2>1, <2>2, <2>3, <2>4 DEF InFlight
    <3>4. \A i, j \in DOMAIN channel' : i # j => channel'[i] # channel'[j]
      <4> SUFFICES ASSUME NEW i \in DOMAIN channel', NEW j \in DOMAIN channel', i # j
                   PROVE  channel'[i] # channel'[j]
        OBVIOUS
      <4>1. i \in Nat /\ j \in Nat
        BY <2>1, <2>2
      <4>2. i + 1 # j + 1
        BY <4>1
      <4> QED
        BY <2>2, <2>3, <4>2 DEF InFlight
    <3> QED
      BY <3>1, <3>2, <3>3, <3>4 DEF InFlight, Open
  <2>6. Acknowledged'
    BY <2>1 DEF Acknowledged
  <2> QED
    BY <2>5, <2>6
<1>2. CASE SenderQuit
  BY <1>2, <1>t DEF SenderQuit, InFlight, Acknowledged, Open, Active
<1>3. CASE WriteOk
  <2>1. /\ sender.pc = "writing" /\ sender'.pc = "written"
        /\ sender'.msg = sender.msg /\ sender.msg \in Msg
        /\ wire' = Append(wire, sender.msg) /\ UNCHANGED <<call, channel>>
    BY <1>3, <1>t DEF WriteOk, Active
  <2>2. /\ Len(wire) \in Nat /\ DOMAIN wire = 1..Len(wire)
        /\ DOMAIN wire' = 1..(Len(wire) + 1) /\ Len(wire') = Len(wire) + 1
        /\ wire'[Len(wire) + 1] = sender.msg
        /\ \A i \in DOMAIN wire : wire'[i] = wire[i]
    BY <1>t, <2>1
  <2>3. \A i \in DOMAIN wire' : i \in DOMAIN wire \/ i = Len(wire) + 1
    BY <2>2
  <2>4. Acknowledged'
    BY <2>1, <2>2, <2>3 DEF Acknowledged
  <2>5. InFlight'
    BY <2>1 DEF InFlight, Open, Active
  <2> QED
    BY <2>4, <2>5
<1>4. CASE WriteFails
  BY <1>4, <1>t DEF WriteFails, InFlight, Acknowledged, Open, Active
<1>5. CASE Report
  <2> DEFINE m == sender.msg
  <2>1. /\ Active /\ m \in Msg /\ call[m] = "waiting"
        /\ sender'.pc \in {"idle", "stopped"}
        /\ UNCHANGED <<channel, wire>>
    BY <1>5, <1>t DEF Report, Active
  <2>2. /\ \A n \in Msg : n # m => call'[n] = call[n]
        /\ sender.pc = "written" => call'[m] = "ok"
    <3>1. CASE sender.pc = "written"
      <4>1. call' = [call EXCEPT ![m] = "ok"]
        BY <1>5, <3>1 DEF Report
      <4> QED
        BY <1>t, <2>1, <4>1
    <3>2. CASE sender.pc # "written"
      <4>1. call' = [call EXCEPT ![m] = "failed"]
        BY <1>5, <3>2 DEF Report
      <4> QED
        BY <1>t, <2>1, <3>2, <4>1
    <3> QED
      BY <3>1, <3>2
  <2>3. InFlight'
    BY <1>t, <2>1, <2>2 DEF InFlight, Open, Active
  <2>4. Acknowledged'
    <3> SUFFICES ASSUME NEW i \in DOMAIN wire PROVE call'[wire[i]] = "ok"
      BY <2>1 DEF Acknowledged
    <3>1. wire[i] \in Msg
      BY <1>t
    <3>2. CASE wire[i] = m
      BY <2>1, <2>2, <3>2 DEF Acknowledged
    <3>3. CASE wire[i] # m
      BY <2>2, <3>1, <3>3 DEF Acknowledged
    <3> QED
      BY <3>2, <3>3
  <2> QED
    BY <2>3, <2>4
<1> QED
  BY <1>1, <1>2, <1>3, <1>4, <1>5 DEF Sender

\* Only a write makes a result of a written message.
LEMMA ResultKept ==
    ASSUME IInv, [Next]_vars
    PROVE  ResultIsWritten'
<1>1. CASE UNCHANGED <<sender, wire>>
  BY <1>1 DEF IInv, ResultIsWritten
<1>2. CASE Sender
  <2>1. CASE WriteOk
    <3>1. /\ wire' = Append(wire, sender.msg) /\ sender'.msg = sender.msg
          /\ wire \in Seq(Msg)
      BY <2>1 DEF WriteOk, IInv, TypeOK
    <3>2. Len(wire) + 1 \in DOMAIN wire' /\ wire'[Len(wire) + 1] = sender.msg
      BY <3>1
    <3> QED
      BY <3>1, <3>2 DEF ResultIsWritten
  <2>2. CASE SenderTake \/ SenderQuit \/ WriteFails \/ Report
    <3>1. sender'.pc # "written"
      BY <2>2 DEF SenderTake, SenderQuit, WriteFails, Report, IInv, TypeOK
    <3> QED
      BY <3>1 DEF ResultIsWritten
  <2> QED
    BY <1>2, <2>1, <2>2 DEF Sender
<1>3. CASE serveConnection \/ Handling \/ SocketEnds \/ UNCHANGED vars
  BY <1>1, <1>3 DEF serveConnection, HandleRegister, RegisterFails, Registered,
       ResponseFails, ServeEnds, RemoveConnection, CloseChannel, CloseSocket,
       Handling, HandleMessage, HandlerReturns, SocketEnds, vars
<1>4. CASE \E m \in Msg : Pick(m) \/ SendPayload(m)
  BY <1>1, <1>4 DEF Pick, SendPayload, Offer, OfferFull, OfferPanics, TimeOut
<1> QED
  BY <1>2, <1>3, <1>4 DEF Next

LEMMA StepInv == IInv /\ [Next]_vars => IInv'
<1> SUFFICES ASSUME IInv, [Next]_vars PROVE IInv'
  OBVIOUS
<1>1. TypeOK' /\ ResultIsWritten'
  BY StepTyped, ResultKept DEF IInv
<1>2. CASE serveConnection \/ Handling \/ SocketEnds \/ UNCHANGED vars
  <2>1. UNCHANGED <<call, channel, sender, wire>>
    BY <1>2 DEF serveConnection, HandleRegister, RegisterFails, Registered,
         ResponseFails, ServeEnds, RemoveConnection, CloseChannel, CloseSocket,
         Handling, HandleMessage, HandlerReturns, SocketEnds, vars
  <2> QED
    BY <1>1, <2>1 DEF IInv, InFlight, Acknowledged, Open, Active
<1>3. CASE Sender
  BY <1>1, <1>3, SenderKeeps DEF IInv
<1>4. CASE \E m \in Msg : Pick(m) \/ SendPayload(m)
  BY <1>1, <1>4, CallsKeep DEF IInv
<1> QED
  BY <1>2, <1>3, <1>4 DEF Next

LEMMA Inductive == Spec => []IInv
  BY InitInv, StepInv, PTL DEF Spec

\* Type correctness: the channel never holds more than its capacity, and the
\* sender only ever has a message that a caller gave it.
THEOREM TypeCorrect == Spec => []TypeOK
<1>1. IInv => TypeOK
  BY DEF IInv
<1> QED
  BY <1>1, Inductive, PTL

\* Nothing is written to a connection after a message whose caller was told
\* that it timed out, whatever the capacity and the faults are.
THEOREM NothingAfterAbandoned == Spec => []AbandonedIsLast
<1>1. IInv => AbandonedIsLast
  <2> SUFFICES ASSUME IInv, NEW i \in 1..(Len(wire) - 1)
               PROVE  call[wire[i]] # "timeout"
    BY DEF AbandonedIsLast
  <2>1. i \in DOMAIN wire /\ i # Len(wire)
    BY DEF IInv, TypeOK
  <2> QED
    BY <2>1 DEF IInv, Acknowledged
<1> QED
  BY <1>1, Inductive, PTL

-----------------------------------------------------------------------------
(* Callers that wait.                                                      *)

LEMMA CallsHold ==
    ASSUME TypeOK, WaitingIsHeld, NEW m \in Msg, Pick(m) \/ SendPayload(m)
    PROVE  WaitingIsHeld'
<1>1. call \in [Msg -> CallStep] /\ channel \in Seq(Msg)
  BY DEF TypeOK
<1>2. CASE Offer(m)
  <2>1. /\ call' = [call EXCEPT ![m] = "waiting"] /\ channel' = Append(channel, m)
        /\ sender' = sender
    BY <1>2 DEF Offer
  <2>2. /\ Len(channel) + 1 \in DOMAIN channel' /\ channel'[Len(channel) + 1] = m
        /\ \A i \in DOMAIN channel : i \in DOMAIN channel' /\ channel'[i] = channel[i]
    BY <1>1, <2>1
  <2>3. \A n \in Msg : n # m => call'[n] = call[n]
    BY <1>1, <2>1
  <2> QED
    BY <2>1, <2>2, <2>3 DEF WaitingIsHeld, Active
<1>3. CASE ~Offer(m)
  <2>1. UNCHANGED <<channel, sender>>
    BY <1>3 DEF Pick, SendPayload, OfferFull, OfferPanics, TimeOut
  <2>2. \A n \in Msg : call'[n] = "waiting" => call[n] = "waiting"
    BY <1>1, <1>3 DEF Pick, SendPayload, OfferFull, OfferPanics, TimeOut
  <2> QED
    BY <2>1, <2>2 DEF WaitingIsHeld, Active
<1> QED
  BY <1>2, <1>3

\* The sender drops a message only with a report to its caller.
LEMMA SenderHolds ==
    ASSUME TypeOK, WaitingIsHeld, Sender
    PROVE  WaitingIsHeld'
<1>1. /\ call \in [Msg -> CallStep] /\ channel \in Seq(Msg)
      /\ sender \in [pc : SenderStep, msg : Msg \cup {NoMsg}]
  BY DEF TypeOK
<1>2. CASE SenderTake
  <2>1. /\ Len(channel) \in Nat \ {0} /\ DOMAIN channel = 1..Len(channel)
        /\ DOMAIN channel' = 1..(Len(channel) - 1)
        /\ \A i \in DOMAIN channel' : channel'[i] = channel[i + 1]
        /\ ~Active /\ Active' /\ sender'.msg = channel[1] /\ call' = call
    BY <1>1, <1>2 DEF SenderTake, Active
  <2>2. ASSUME NEW i \in DOMAIN channel, i # 1
        PROVE  i - 1 \in DOMAIN channel' /\ channel'[i - 1] = channel[i]
    BY <2>1, <2>2
  <2> QED
    BY <2>1, <2>2 DEF WaitingIsHeld
<1>3. CASE Report
  <2>1. /\ channel' = channel /\ sender.msg \in Msg /\ Active
        /\ call' = [call EXCEPT ![sender.msg] =
                      IF sender.pc = "written" THEN "ok" ELSE "failed"]
    BY <1>3 DEF Report, TypeOK, Active
  <2>2. /\ call'[sender.msg] # "waiting"
        /\ \A n \in Msg : n # sender.msg => call'[n] = call[n]
    BY <1>1, <2>1
  <2> QED
    BY <2>1, <2>2 DEF WaitingIsHeld
<1>4. CASE SenderQuit \/ WriteOk \/ WriteFails
  <2>1. /\ UNCHANGED <<call, channel>> /\ sender'.msg = sender.msg
        /\ Active => Active'
    BY <1>1, <1>4 DEF SenderQuit, WriteOk, WriteFails, Active
  <2> QED
    BY <2>1 DEF WaitingIsHeld
<1> QED
  BY <1>2, <1>3, <1>4 DEF Sender

LEMMA StepHolds == TypeOK /\ WaitingIsHeld /\ [Next]_vars => WaitingIsHeld'
<1> SUFFICES ASSUME TypeOK, WaitingIsHeld, [Next]_vars PROVE WaitingIsHeld'
  OBVIOUS
<1>1. CASE serveConnection \/ Handling \/ SocketEnds \/ UNCHANGED vars
  <2>1. UNCHANGED <<call, channel, sender>>
    BY <1>1 DEF serveConnection, HandleRegister, RegisterFails, Registered,
         ResponseFails, ServeEnds, RemoveConnection, CloseChannel, CloseSocket,
         Handling, HandleMessage, HandlerReturns, SocketEnds, vars
  <2> QED
    BY <2>1 DEF WaitingIsHeld, Active
<1> QED
  BY <1>1, CallsHold, SenderHolds DEF Next

\* A caller that waits has its message with the sender or in the channel, at any
\* capacity and under all faults: an answer or the time-out is still to come for
\* it. The safety half of CallersReturn.
THEOREM NoCallForgotten == Spec => []WaitingIsHeld
<1>1. Init => WaitingIsHeld
  BY DEF Init, WaitingIsHeld
<1> QED
  BY <1>1, StepHolds, TypeCorrect, PTL DEF Spec

\* It is listed by its registration, and register() alone sends the response.
OnceListed ==
    /\ ShutIsUnlisted
    /\ serve = "registering" => ~listed
    /\ call[Response] # "picked"

\* What a call has ended with stays.
LEMMA StepListed == TypeOK /\ OnceListed /\ [Next]_vars => OnceListed'
<1> SUFFICES ASSUME TypeOK, OnceListed, [Next]_vars PROVE OnceListed'
  OBVIOUS
<1> USE DEF OnceListed, ShutIsUnlisted
<1>1. call \in [Msg -> CallStep] /\ Response \in Msg
  BY WsConnectionAssumption DEF TypeOK
<1>2. ASSUME NEW m \in Msg, Pick(m) \/ SendPayload(m)
      PROVE  OnceListed'
  <2>1. UNCHANGED <<serve, listed>>
    BY <1>2 DEF Pick, SendPayload, Offer, OfferFull, OfferPanics, TimeOut
  <2>2. call[Response] \in {"full", "failed", "timeout"} => call'[Response] = call[Response]
    BY <1>1, <1>2 DEF Pick, SendPayload, Offer, OfferFull, OfferPanics, TimeOut, Sending
  <2>3. call'[Response] # "picked"
    BY <1>1, <1>2 DEF Pick, SendPayload, Offer, OfferFull, OfferPanics, TimeOut
  <2> QED
    BY <2>1, <2>2, <2>3
<1>3. CASE Report
  <2>1. /\ UNCHANGED <<serve, listed>> /\ call[sender.msg] = "waiting"
        /\ \E s \in {"ok", "failed"} : call' = [call EXCEPT ![sender.msg] = s]
    BY <1>3 DEF Report
  <2> QED
    BY <1>1, <2>1
<1>4. CASE SenderTake \/ SenderQuit \/ WriteOk \/ WriteFails \/ SocketEnds
           \/ Handling \/ UNCHANGED vars
  BY <1>4 DEF SenderTake, SenderQuit, WriteOk, WriteFails, SocketEnds, Handling,
       HandleMessage, HandlerReturns, vars
<1>5. CASE serveConnection
  BY <1>5 DEF serveConnection, HandleRegister, RegisterFails, Registered,
     ResponseFails, ServeEnds, RemoveConnection, CloseChannel, CloseSocket
<1> QED
  BY <1>2, <1>3, <1>4, <1>5 DEF Next, Sender

\* Whatever ends a connection, it is out of the map before its channel is closed,
\* unless register() could not send its response. The safety half of
\* DeadLinkIsRemoved.
THEOREM UnlistedBeforeShut == Spec => []ShutIsUnlisted
<1>1. Init => OnceListed
  BY WsConnectionAssumption DEF Init, OnceListed, ShutIsUnlisted
<1>2. OnceListed => ShutIsUnlisted
  BY DEF OnceListed
<1> QED
  BY <1>1, <1>2, StepListed, TypeCorrect, PTL DEF Spec

-----------------------------------------------------------------------------
(* The contract.                                                           *)

\* A step of one call is a step of what its caller was told.
LEMMA Tells ==
    ASSUME TypeOK, NEW m \in Msg, NEW step \in CallStep,
           call' = [call EXCEPT ![m] = step]
    PROVE  outcome' = [outcome EXCEPT ![m] = Told(step)]
<1>1. call \in [Msg -> CallStep]
  BY DEF TypeOK
<1> QED
  BY <1>1 DEF outcome

\* Before the write of a message all that was written is acknowledged.
LEMMA WriteImplements ==
    ASSUME IInv, WriteOk
    PROVE  \E m \in Msg : Contract!Write(m)
<1> DEFINE m == sender.msg
<1>1. /\ m \in Msg /\ Open(m) /\ sender.pc = "writing"
      /\ wire' = Append(wire, m) /\ call' = call
      /\ wire \in Seq(Msg)
  BY DEF WriteOk, IInv, TypeOK, InFlight, Active
<1>2. \A i \in DOMAIN wire : call[wire[i]] = "ok" /\ wire[i] \in Msg
  BY <1>1 DEF IInv, Acknowledged
<1>3. outcome[m] \in {"pending", "timeout"}
  BY <1>1 DEF outcome, Told, Open
<1>4. m \notin Contract!Written
  BY <1>1, <1>2 DEF Contract!Written, Open
<1>5. \A n \in Contract!Written : outcome[n] = "ok"
  BY <1>2 DEF Contract!Written, outcome, Told
<1>6. outcome' = outcome
  BY <1>1 DEF outcome
<1> QED
  BY <1>1, <1>3, <1>4, <1>5, <1>6 DEF Contract!Write

\* What the sender reports is what the contract lets the call return.
LEMMA ReportImplements ==
    ASSUME IInv, Report
    PROVE  \E m \in Msg, o \in Contract!Outcome : Contract!Return(m, o)
<1> DEFINE m == sender.msg
<1>1. /\ m \in Msg /\ call[m] = "waiting" /\ wire' = wire /\ TypeOK
      /\ sender.pc \in {"written", "failed"}
  BY DEF Report, IInv, TypeOK
<1>2. outcome[m] = "pending"
  BY <1>1 DEF outcome, Told
<1>3. CASE sender.pc = "written"
  <2>1. call' = [call EXCEPT ![m] = "ok"]
    BY <1>3 DEF Report
  <2>2. outcome' = [outcome EXCEPT ![m] = "ok"]
    BY <1>1, <2>1, Tells DEF CallStep, Told
  <2>3. m \in Contract!Written
    BY <1>3 DEF IInv, ResultIsWritten, Contract!Written
  <2> QED
    BY <1>1, <1>2, <2>2, <2>3 DEF Contract!Return, Contract!Outcome
<1>4. CASE sender.pc = "failed"
  <2>1. call' = [call EXCEPT ![m] = "failed"]
    BY <1>4 DEF Report
  <2>2. outcome' = [outcome EXCEPT ![m] = "refused"]
    BY <1>1, <2>1, Tells DEF CallStep, Told
  <2>3. m \notin Contract!Written
    BY <1>1, <1>4 DEF IInv, Acknowledged, Contract!Written
  <2> QED
    BY <1>1, <1>2, <2>2, <2>3 DEF Contract!Return, Contract!Outcome
<1> QED
  BY <1>1, <1>3, <1>4

\* A call begins, is refused or gives up.
LEMMA CallImplements ==
    ASSUME IInv, NEW m \in Msg, Pick(m) \/ SendPayload(m)
    PROVE  Contract!Next \/ UNCHANGED <<outcome, wire>>
<1>1. TypeOK /\ wire' = wire /\ call \in [Msg -> CallStep]
  BY DEF IInv, TypeOK, Pick, SendPayload, Offer, OfferFull, OfferPanics, TimeOut
<1>2. outcome \in [Msg -> Contract!Outcome]
  BY <1>1 DEF outcome, Told, CallStep, Contract!Outcome
<1>3. CASE Offer(m) \/ OfferFull(m)
  <2>1. outcome[m] = "idle"
    BY <1>1, <1>3 DEF Offer, OfferFull, Sending, outcome, Told
  <2>2. \/ call' = [call EXCEPT ![m] = "waiting"]
        \/ call' = [call EXCEPT ![m] = "full"]
    BY <1>3 DEF Offer, OfferFull
  <2>3. \/ outcome' = [outcome EXCEPT ![m] = "pending"]
        \/ outcome' = [outcome EXCEPT ![m] = "refused"]
    BY <1>1, <2>2, Tells DEF CallStep, Told
  <2>4. Contract!Call(m)
    BY <1>1, <2>1, <2>3 DEF Contract!Call
  <2> QED
    BY <2>4 DEF Contract!Next
<1>4. CASE TimeOut(m)
  <2>1. outcome[m] = "pending" /\ call' = [call EXCEPT ![m] = "timeout"]
    BY <1>4 DEF TimeOut, outcome, Told
  <2>2. outcome' = [outcome EXCEPT ![m] = "timeout"]
    BY <1>1, <2>1, Tells DEF CallStep, Told
  <2>3. Contract!Return(m, "timeout")
    BY <1>1, <2>1, <2>2 DEF Contract!Return
  <2> QED
    BY <2>3 DEF Contract!Next, Contract!Outcome
<1>5. CASE Pick(m)
  <2>1. outcome[m] = "idle" /\ call' = [call EXCEPT ![m] = "picked"]
    BY <1>5 DEF Pick, outcome, Told
  <2>2. outcome' = [outcome EXCEPT ![m] = "idle"]
    BY <1>1, <2>1, Tells DEF CallStep, Told
  <2> QED
    BY <1>1, <1>2, <2>1, <2>2
<1>6. CASE OfferPanics(m)
  BY <1>6 DEF OfferPanics, outcome
<1> QED
  BY <1>3, <1>4, <1>5, <1>6 DEF SendPayload

\* The connection implements the contract of SendPayload: what is ok was
\* written, what is refused never is, what timed out is written last or never.
THEOREM ContractKept == Spec => ImplementsSendContract
<1>1. Init => Contract!Init
  BY DEF Init, Contract!Init, outcome, Told
<1>2. IInv /\ [Next]_vars => [Contract!Next]_<<outcome, wire>>
  <2> SUFFICES ASSUME IInv, [Next]_vars
               PROVE  Contract!Next \/ UNCHANGED <<outcome, wire>>
    OBVIOUS
  <2>1. CASE WriteOk
    BY <2>1, WriteImplements DEF Contract!Next
  <2>2. CASE Report
    BY <2>2, ReportImplements DEF Contract!Next
  <2>3. CASE \E m \in Msg : Pick(m) \/ SendPayload(m)
    BY <2>3, CallImplements
  <2>4. CASE \/ SenderTake \/ SenderQuit \/ WriteFails \/ serveConnection
             \/ Handling \/ SocketEnds \/ UNCHANGED vars
    BY <2>4 DEF SenderTake, SenderQuit, WriteFails, serveConnection,
         HandleRegister, RegisterFails, Registered, ResponseFails, ServeEnds,
         RemoveConnection, CloseChannel, CloseSocket, Handling, HandleMessage,
         HandlerReturns, SocketEnds, vars, outcome
  <2> QED
    BY <2>1, <2>2, <2>3, <2>4 DEF Next, Sender
<1> QED
  BY <1>1, <1>2, Inductive, PTL DEF Spec, Contract!Spec, ImplementsSendContract
=============================================================================
