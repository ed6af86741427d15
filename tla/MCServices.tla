----------------------------- MODULE MCServices -----------------------------
(***************************************************************************)
(* One run for the parts of Services: a behaviour is one of one part, and  *)
(* the others stay as they start. A day of three ticks lets the clocks     *)
(* pass midnight twice.                                                    *)
(***************************************************************************)
EXTENDS Services

VARIABLE part

Part == {"worker", "storage", "health", "auth", "server"}

ServicesInit ==
    /\ part \in Part
    /\ Init /\ Storage!Init /\ Health!Init /\ Auth!Init /\ Server!Init
    /\ part = "storage" \/ (backend = "local" /\ name = "plain")
    /\ \/ part = "server"
       \/ /\ \A q \in Queue : queues[q] = "none"
          /\ \A r \in Request : target[r] = "other"
          /\ config = "local" /\ ttl = "none"

ServicesNext ==
    \/ part = "worker"  /\ Next         /\ UNCHANGED <<part, storage, health, auth, server>>
    \/ part = "storage" /\ Storage!Next /\ UNCHANGED <<part, vars, health, auth, server>>
    \/ part = "health"  /\ Health!Next  /\ UNCHANGED <<part, vars, storage, auth, server>>
    \/ part = "auth"    /\ Auth!Next    /\ UNCHANGED <<part, vars, storage, health, server>>
    \/ part = "server"  /\ Server!Next  /\ UNCHANGED <<part, vars, storage, health, auth>>

services == <<part, vars, storage, health, auth, server>>

\* The event loop of the worker process is the only scheduler assumed fair.
ServicesSpec ==
    /\ ServicesInit /\ [][ServicesNext]_services
    /\ WF_vars(EventLoop)
=============================================================================
