---------------------------- MODULE HealthCheck -----------------------------
(***************************************************************************)
(* One GET /health (handlers.go, check.go): a goroutine per feature asks   *)
(* it and sets the status they share without the mutex. A string is two    *)
(* words, its text and its length, and each is stored on its own.          *)
(***************************************************************************)
CONSTANTS
    Feature,
    Required,   \* some of Feature, "Requirement": without them the system is down
    Feasible    \* what a feature may answer: "ok", "error"

VARIABLES
    check,    \* the step of each goroutine
    text,     \* the words of status
    length,
    failed,   \* the features whose goroutine got an error
    details,  \* the features whose detail is in the map
    answer    \* the status that was sent

vars == <<check, text, length, failed, details, answer>>

HealthStatus == {"up", "down", "degraded"}

\* Each word of the status is one of a status, and only the answer can be torn.
TypeOK ==
    /\ check \in [Feature -> {"asking", "failed", "text", "length", "judged", "done"}]
    /\ text \in HealthStatus /\ length \in HealthStatus
    /\ failed \subseteq Feature /\ details \subseteq Feature
    /\ answer \in HealthStatus \cup {"none", "torn"}

Init ==
    /\ check = [f \in Feature |-> "asking"]
    /\ text = "up" /\ length = "up"
    /\ failed = {} /\ details = {}
    /\ answer = "none"

-----------------------------------------------------------------------------
\* feature.Health(subCtx); its time-out is an error.
Ask(f) ==
    /\ check[f] = "asking"
    /\ \/ /\ "ok" \in Feasible
          /\ check' = [check EXCEPT ![f] = "judged"]
          /\ UNCHANGED failed
       \/ /\ "error" \in Feasible
          /\ check' = [check EXCEPT ![f] = "failed"]
          /\ failed' = failed \cup {f}
    /\ UNCHANGED <<text, length, details, answer>>

\* Mutant of Severity: the requirement is looked at the wrong way round.
SeverityReversed(f) == IF f \in Required THEN "degraded" ELSE "down"

Severity(f) == IF f \in Required THEN "down" ELSE "degraded"

\* status = ..., word by word and in either order.
StoreText(f) ==
    /\ check[f] \in {"failed", "length"}
    /\ text' = Severity(f)
    /\ check' = [check EXCEPT ![f] = IF @ = "failed" THEN "text" ELSE "judged"]
    /\ UNCHANGED <<length, failed, details, answer>>

StoreLength(f) ==
    /\ check[f] \in {"failed", "text"}
    /\ length' = Severity(f)
    /\ check' = [check EXCEPT ![f] = IF @ = "failed" THEN "length" ELSE "judged"]
    /\ UNCHANGED <<text, failed, details, answer>>

\* The detail goes into the map under the mutex.
PutDetail(f) ==
    /\ check[f] = "judged"
    /\ check' = [check EXCEPT ![f] = "done"]
    /\ details' = details \cup {f}
    /\ UNCHANGED <<text, length, failed, answer>>

\* wg.Wait, and 503 for "down" only: a torn status goes out with 200.
handleHealth ==
    /\ answer = "none"
    /\ \A f \in Feature : check[f] = "done"
    /\ answer' = IF text = length THEN text ELSE "torn"
    /\ UNCHANGED <<check, text, length, failed, details>>

Next ==
    \/ \E f \in Feature : Ask(f) \/ StoreText(f) \/ StoreLength(f) \/ PutDetail(f)
    \/ handleHealth

Spec == Init /\ [][Next]_vars

-----------------------------------------------------------------------------
Worst ==
    IF failed \cap Required # {} THEN "down" ELSE IF failed # {} THEN "degraded" ELSE "up"

\* /health answers the worst of what it has found, with every detail; only when
\* a required and an optional feature fail together may the status be anything
\* else, torn included.
HealthIsWorst ==
    answer # "none" =>
        /\ details = Feature
        /\ answer = Worst \/ (failed \cap Required # {} /\ failed \ Required # {})
=============================================================================
