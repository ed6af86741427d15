---------------------------- MODULE SendContract ----------------------------
(***************************************************************************)
(* What SendPayload promises its callers about one connection. A message   *)
(* whose call returned ok was written. One whose call was refused (channel *)
(* full, or a failed write) never is. One whose call timed out may have    *)
(* been written, or be written later, but then it is the last the          *)
(* connection ever carries.                                                *)
(***************************************************************************)
EXTENDS Naturals, Sequences

CONSTANT Msg

VARIABLES
    outcome, \* what the caller of SendPayload knows of each message
    wire     \* the messages written to the connection, in order

Outcome == {"idle", "pending", "ok", "refused", "timeout"}

\* Every message has one outcome, and only messages are written.
TypeOK == outcome \in [Msg -> Outcome] /\ wire \in Seq(Msg)

Init == outcome = [m \in Msg |-> "idle"] /\ wire = <<>>

Written == {wire[i] : i \in DOMAIN wire}

Call(m) ==
    /\ outcome[m] = "idle"
    /\ \E o \in {"pending", "refused"} : outcome' = [outcome EXCEPT ![m] = o]
    /\ UNCHANGED wire

\* Messages are written one at a time: the next one after the last one's caller
\* was told so. One that was told "timeout" has no next.
Write(m) ==
    /\ outcome[m] \in {"pending", "timeout"}
    /\ m \notin Written
    /\ \A n \in Written : outcome[n] = "ok"
    /\ wire' = Append(wire, m)
    /\ UNCHANGED outcome

Return(m, o) ==
    /\ outcome[m] = "pending"
    /\ \/ o = "ok" /\ m \in Written
       \/ o = "refused" /\ m \notin Written
       \/ o = "timeout"
    /\ outcome' = [outcome EXCEPT ![m] = o]
    /\ UNCHANGED wire

Next == \E m \in Msg :
    \/ Call(m) \/ Write(m)
    \/ \E o \in Outcome : Return(m, o)

Spec == Init /\ [][Next]_<<outcome, wire>>
=============================================================================
