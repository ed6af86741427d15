---------------------------- MODULE WsConnection ----------------------------
(***************************************************************************)
(* One websocket connection of the controller:                             *)
(* go/pkg/controller/worker/websocket/connection.go and listener.go.       *)
(*                                                                         *)
(* The serve goroutine (serveConnection) registers the worker, reads until *)
(* the socket ends, and cleans up in the order of its defers. The sender   *)
(* goroutine takes messages from the send channel, writes them and hands   *)
(* the result to the caller over a channel that nobody buffers. Callers of *)
(* SendPayload are the bucket workers that found the connection in the map *)
(* of the manager, and register() itself for its response.                 *)
(***************************************************************************)
EXTENDS Naturals, Sequences

CONSTANTS
    Msg,        \* the messages that callers try to send
    Response,   \* the one that register() sends
    ChannelCap, \* the capacity of sendChannel, 10 in the code
    Faults,     \* what may go wrong in this instance, see FaultKinds
    NoMsg

(* slow:   a write takes longer than SendPayload waits, 3 s of the 10 s    *)
(*         that SendTimeout grants it;                                     *)
(* write:  a write fails on a socket that looked open;                     *)
(* drop:   the socket ends: the peer leaves, or Close is called;           *)
(* refuse: register() fails before the connection is published.            *)
FaultKinds == {"slow", "write", "drop", "refuse"}

ASSUME WsConnectionAssumption ==
    /\ Response \in Msg
    /\ NoMsg \notin Msg
    /\ ChannelCap \in Nat \ {0}
    /\ Faults \subseteq FaultKinds

VARIABLES
    call,    \* how far the SendPayload call of each message got
    channel, \* sendChannel
    shut,    \* sendChannel is closed
    sender,  \* what the sender goroutine is doing
    wire,    \* the messages written to the socket
    socket,  \* the state of the socket
    serve,   \* how far the serve goroutine got
    listed,  \* the connection is in the map of the manager
    crashed  \* a goroutine panicked: the controller process is gone

vars == <<call, channel, shut, sender, wire, socket, serve, listed, crashed>>

-----------------------------------------------------------------------------
\* none: no caller yet; picked: a caller holds the connection; waiting: in the
\* second select; full and failed: an error, never written; timeout: errTimeout.
CallStep == {"none", "picked", "waiting", "ok", "full", "failed", "timeout"}

SenderStep == {"idle", "writing", "written", "failed", "stopped"}

ServeStep == {"registering", "responding", "serving", "handling", "ended",
              "removed", "shut", "closed"}

\* Callers, channel, sender and serveConnection are at a step of their code, and
\* the channel holds no more than its capacity.
TypeOK ==
    /\ call \in [Msg -> CallStep]
    /\ channel \in Seq(Msg)
    /\ Len(channel) <= ChannelCap
    /\ shut \in BOOLEAN
    /\ sender \in [pc : SenderStep, msg : Msg \cup {NoMsg}]
    /\ sender.pc \in {"writing", "written", "failed"} => sender.msg \in Msg
    /\ wire \in Seq(Msg)
    /\ socket \in {"open", "broken", "closed"}
    /\ serve \in ServeStep
    /\ listed \in BOOLEAN
    /\ crashed \in BOOLEAN

\* newConnection, and the sender goroutine of serveConnection.
Init ==
    /\ call = [m \in Msg |-> "none"]
    /\ channel = <<>>
    /\ shut = FALSE
    /\ sender = [pc |-> "idle", msg |-> NoMsg]
    /\ wire = <<>>
    /\ socket = "open"
    /\ serve = "registering"
    /\ listed = FALSE
    /\ crashed = FALSE

-----------------------------------------------------------------------------
(* SendPayload.                                                            *)

\* A caller takes the connection from the map. AssignTask of its session lets
\* in one caller at a time; the response of register() does not ask.
Pick(m) ==
    /\ listed
    /\ m # Response
    /\ call[m] = "none"
    /\ \A n \in Msg \ {Response} : call[n] \notin {"picked", "waiting"}
    /\ call' = [call EXCEPT ![m] = "picked"]
    /\ UNCHANGED <<channel, shut, sender, wire, socket, serve, listed, crashed>>

\* The caller is at SendPayload: register() for its response, or a bucket worker.
Sending(m) == call[m] = "picked" \/ (m = Response /\ call[m] = "none"
                                     /\ serve = "responding")

\* Mutant of Offer: the channel grows without a limit.
OfferUnbounded(m) ==
    /\ Sending(m)
    /\ ~shut
    /\ channel' = Append(channel, m)
    /\ call' = [call EXCEPT ![m] = "waiting"]
    /\ UNCHANGED <<shut, sender, wire, socket, serve, listed, crashed>>

Offer(m) ==
    /\ Sending(m)
    /\ ~shut
    /\ Len(channel) < ChannelCap
    /\ channel' = Append(channel, m)
    /\ call' = [call EXCEPT ![m] = "waiting"]
    /\ UNCHANGED <<shut, sender, wire, socket, serve, listed, crashed>>

\* errSendFull.
OfferFull(m) ==
    /\ Sending(m)
    /\ ~shut
    /\ Len(channel) = ChannelCap
    /\ call' = [call EXCEPT ![m] = "full"]
    /\ UNCHANGED <<channel, shut, sender, wire, socket, serve, listed, crashed>>

\* A send on a closed channel panics, a default case or not.
OfferPanics(m) ==
    /\ Sending(m)
    /\ shut
    /\ crashed' = TRUE
    /\ UNCHANGED <<call, channel, shut, sender, wire, socket, serve, listed>>

\* The sender waits for a caller that has given up: it will wait for ever.
Stuck == /\ sender.pc \in {"written", "failed"}
         /\ call[sender.msg] = "timeout"

\* Mutant of TimeOut: SendPayload waits for the result only.
TimeOutNever(m) == call[m] = "waiting" /\ UNCHANGED vars

\* errTimeout after 3 s: the write is slow, or no sender serves the channel.
TimeOut(m) ==
    /\ call[m] = "waiting"
    /\ "slow" \in Faults \/ sender.pc = "stopped" \/ Stuck
    /\ call' = [call EXCEPT ![m] = "timeout"]
    /\ UNCHANGED <<channel, shut, sender, wire, socket, serve, listed, crashed>>

-----------------------------------------------------------------------------
(* sender().                                                               *)

SenderTake ==
    /\ sender.pc = "idle"
    /\ channel # <<>>
    /\ sender' = [pc |-> "writing", msg |-> Head(channel)]
    /\ channel' = Tail(channel)
    /\ UNCHANGED <<call, shut, wire, socket, serve, listed, crashed>>

\* The channel is closed and drained.
SenderQuit ==
    /\ sender.pc = "idle"
    /\ channel = <<>>
    /\ shut
    /\ sender' = [sender EXCEPT !.pc = "stopped"]
    /\ UNCHANGED <<call, channel, shut, wire, socket, serve, listed, crashed>>

\* WriteMessage returns nil; a peer that is gone may go unnoticed.
WriteOk ==
    /\ sender.pc = "writing"
    /\ socket # "closed"
    /\ wire' = Append(wire, sender.msg)
    /\ sender' = [sender EXCEPT !.pc = "written"]
    /\ UNCHANGED <<call, channel, shut, socket, serve, listed, crashed>>

WriteFails ==
    /\ sender.pc = "writing"
    /\ "write" \in Faults \/ socket # "open"
    /\ sender' = [sender EXCEPT !.pc = "failed"]
    /\ UNCHANGED <<call, channel, shut, wire, socket, serve, listed, crashed>>

\* Mutant of Report: the result channel is buffered, so nobody has to listen.
ReportBuffered ==
    /\ sender.pc \in {"written", "failed"}
    /\ call' = IF call[sender.msg] = "waiting"
               THEN [call EXCEPT ![sender.msg] =
                       IF sender.pc = "written" THEN "ok" ELSE "failed"]
               ELSE call
    /\ sender' = [pc |-> IF sender.pc = "written" THEN "idle" ELSE "stopped",
                  msg |-> NoMsg]
    /\ UNCHANGED <<channel, shut, wire, socket, serve, listed, crashed>>

\* Mutant of Report: a failed write is reported as nil.
ReportAlwaysOk ==
    /\ sender.pc \in {"written", "failed"}
    /\ call[sender.msg] = "waiting"
    /\ call' = [call EXCEPT ![sender.msg] = "ok"]
    /\ sender' = [pc |-> IF sender.pc = "written" THEN "idle" ELSE "stopped",
                  msg |-> NoMsg]
    /\ UNCHANGED <<channel, shut, wire, socket, serve, listed, crashed>>

\* "s.result <- err": the caller has to be there. After an error the sender returns.
Report ==
    /\ sender.pc \in {"written", "failed"}
    /\ call[sender.msg] = "waiting"
    /\ call' = [call EXCEPT ![sender.msg] =
                  IF sender.pc = "written" THEN "ok" ELSE "failed"]
    /\ sender' = [pc |-> IF sender.pc = "written" THEN "idle" ELSE "stopped",
                  msg |-> NoMsg]
    /\ UNCHANGED <<channel, shut, wire, socket, serve, listed, crashed>>

-----------------------------------------------------------------------------
(* serveConnection().                                                      *)

\* HandleRegister puts the connection into the map.
HandleRegister ==
    /\ serve = "registering"
    /\ listed' = TRUE
    /\ serve' = "responding"
    /\ UNCHANGED <<call, channel, shut, sender, wire, socket, crashed>>

\* No message in time, not a registration, or HandleRegister refuses it.
RegisterFails ==
    /\ serve = "registering"
    /\ "refuse" \in Faults \/ socket # "open"
    /\ serve' = "removed"
    /\ UNCHANGED <<call, channel, shut, sender, wire, socket, listed, crashed>>

Registered ==
    /\ serve = "responding"
    /\ call[Response] = "ok"
    /\ serve' = "serving"
    /\ UNCHANGED <<call, channel, shut, sender, wire, socket, listed, crashed>>

\* serveConnection returns before it deferred removeConnection: still listed.
ResponseFails ==
    /\ serve = "responding"
    /\ call[Response] \in {"full", "failed", "timeout"}
    /\ serve' = "removed"
    /\ UNCHANGED <<call, channel, shut, sender, wire, socket, listed, crashed>>

\* A message of the worker: serve reads nothing while its handler runs, which may
\* wait for room in a bucket (WorkerManager).
HandleMessage ==
    /\ serve = "serving"
    /\ serve' = "handling"
    /\ UNCHANGED <<call, channel, shut, sender, wire, socket, listed, crashed>>

HandlerReturns ==
    /\ serve = "handling"
    /\ serve' = "serving"
    /\ UNCHANGED <<call, channel, shut, sender, wire, socket, listed, crashed>>

\* Mutant of ServeEnds: no read deadline.
ServeEndsOnClose ==
    /\ serve = "serving"
    /\ socket # "open"
    /\ serve' = "ended"
    /\ UNCHANGED <<call, channel, shut, sender, wire, socket, listed, crashed>>

\* ReadMessage fails: the socket ended, or the read deadline of 15 s passed.
\* Pongs keep it away; a sender that is stuck or gone sends no pings, and the
\* heartbeats of an idle worker are 30 s apart.
ServeEnds ==
    /\ serve = "serving"
    /\ socket # "open" \/ Stuck \/ sender.pc = "stopped"
    /\ serve' = "ended"
    /\ UNCHANGED <<call, channel, shut, sender, wire, socket, listed, crashed>>

RemoveConnection ==
    /\ serve = "ended"
    /\ listed' = FALSE
    /\ serve' = "removed"
    /\ UNCHANGED <<call, channel, shut, sender, wire, socket, crashed>>

CloseChannel ==
    /\ serve = "removed"
    /\ shut' = TRUE
    /\ serve' = "shut"
    /\ UNCHANGED <<call, channel, sender, wire, socket, listed, crashed>>

CloseSocket ==
    /\ serve = "shut"
    /\ socket' = "closed"
    /\ serve' = "closed"
    /\ UNCHANGED <<call, channel, shut, sender, wire, listed, crashed>>

\* The peer leaves, or Close is called on the connection: by the health ticker
\* of the manager, or by Shutdown.
SocketEnds ==
    /\ "drop" \in Faults
    /\ socket = "open"
    /\ socket' = "broken"
    /\ UNCHANGED <<call, channel, shut, sender, wire, serve, listed, crashed>>

-----------------------------------------------------------------------------
SendPayload(m) == Offer(m) \/ OfferFull(m) \/ OfferPanics(m) \/ TimeOut(m)

Sender == SenderTake \/ SenderQuit \/ WriteOk \/ WriteFails \/ Report

serveConnection ==
    \/ HandleRegister \/ RegisterFails \/ Registered \/ ResponseFails
    \/ ServeEnds \/ RemoveConnection \/ CloseChannel \/ CloseSocket

Handling == HandleMessage \/ HandlerReturns

Next ==
    /\ ~crashed
    /\ \/ \E m \in Msg : Pick(m) \/ SendPayload(m)
       \/ Sender \/ serveConnection \/ Handling \/ SocketEnds

Spec == Init /\ [][Next]_vars

\* Every goroutine that can take a step takes one: each caller, the sender and
\* the serve goroutine, but for the return of its handlers. The worker of a dead
\* link is silent for 15 s in the end, however often its messages are handled.
Fairness ==
    /\ \A m \in Msg : WF_vars(~crashed /\ SendPayload(m))
    /\ WF_vars(~crashed /\ Sender)
    /\ WF_vars(~crashed /\ serveConnection)
    /\ SF_vars(~crashed /\ ServeEnds)

FairSpec == Spec /\ Fairness

-----------------------------------------------------------------------------
\* Nothing is written after a message whose caller was told "timeout": a worker
\* that gets an assignment the controller has taken back gets no other one
\* over this connection.
AbandonedIsLast ==
    \A i \in 1..(Len(wire) - 1) : call[wire[i]] # "timeout"

\* SendPayload always returns, or ends the process: what it was told to send
\* never keeps a bucket worker.
CallersReturn ==
    \A m \in Msg : call[m] = "waiting" ~> (call[m] # "waiting" \/ crashed)

\* A connection whose sender is stuck or gone leaves the map after a while, if
\* it was registered: it gets no pongs, and serve ends it. Unless serve stays in a
\* message handler for ever: then the map keeps a connection nobody can use.
DeadLinkIsRemoved ==
    (serve \in {"serving", "handling"} /\ (Stuck \/ sender.pc = "stopped"))
        ~> (~listed \/ crashed \/ [](serve = "handling"))

\* transport.go: "SendPayload must check sent successfully". What it did not
\* report as sent was not sent.
ErrorMeansUnsent ==
    \A i \in DOMAIN wire : call[wire[i]] \notin {"full", "failed", "timeout"}

-----------------------------------------------------------------------------
(* The connection implements the contract WorkerManager relies on.         *)

\* What the caller knows by how far its call got.
Told(step) ==
    CASE step \in {"none", "picked"} -> "idle"
      [] step = "waiting"            -> "pending"
      [] step \in {"full", "failed"} -> "refused"
      [] OTHER                       -> step

outcome == [m \in Msg |-> Told(call[m])]

Contract == INSTANCE SendContract WITH outcome <- outcome, wire <- wire

\* What is ok was written, what is refused never is, and what timed out is
\* written last or never.
ImplementsSendContract == Contract!Spec
=============================================================================
