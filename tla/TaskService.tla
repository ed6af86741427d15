----------------------------- MODULE TaskService -----------------------------
(***************************************************************************)
(* What the controller promises about a task, whatever happens to workers  *)
(* and connections as long as sends answer in time: a submitted task is    *)
(* started at most once more than it may be retried, never twice at a      *)
(* time, and is done for good once it is done. A task on its way to or     *)
(* back from a worker may be lost with the worker; a waiting one may not.  *)
(***************************************************************************)
EXTENDS Naturals

CONSTANTS Task, MaxRetry

VARIABLES
    phase,  \* where each task is in its life
    tries   \* how often each task was started

Phase == {"unknown", "waiting", "executing", "done", "lost"}

\* Every task is in one phase, with a count of its starts.
TypeOK == phase \in [Task -> Phase] /\ tries \in [Task -> Nat]

\* Tasks a former run of the controller left pending are waiting already.
Init == /\ phase \in [Task -> {"unknown", "waiting"}]
        /\ tries = [t \in Task |-> 0]

Submit(t) ==
    /\ phase[t] = "unknown"
    /\ phase' = [phase EXCEPT ![t] = "waiting"]
    /\ UNCHANGED tries

\* The task is written to a worker, and reaches it or is lost on the way.
Start(t) ==
    /\ phase[t] = "waiting"
    /\ tries[t] <= MaxRetry[t]
    /\ \E p \in {"executing", "lost"} : phase' = [phase EXCEPT ![t] = p]
    /\ tries' = [tries EXCEPT ![t] = @ + 1]

Retry(t) ==
    /\ phase[t] = "executing"
    /\ tries[t] <= MaxRetry[t]
    /\ phase' = [phase EXCEPT ![t] = "waiting"]
    /\ UNCHANGED tries

Finish(t) ==
    /\ phase[t] = "executing"
    /\ phase' = [phase EXCEPT ![t] = "done"]
    /\ UNCHANGED tries

\* A connection is lost with all that was on it.
Lose(S) ==
    /\ \A t \in S : phase[t] = "executing"
    /\ phase' = [t \in Task |-> IF t \in S THEN "lost" ELSE phase[t]]
    /\ UNCHANGED tries

Next ==
    \/ \E t \in Task : Submit(t) \/ Start(t) \/ Retry(t) \/ Finish(t)
    \/ \E S \in SUBSET Task : Lose(S)

Spec == Init /\ [][Next]_<<phase, tries>>
=============================================================================
