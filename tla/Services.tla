------------------------------ MODULE Services ------------------------------
(***************************************************************************)
(* The parts of the system that share no state with the others: the worker *)
(* process, the file storage, the health check, the signatures and the     *)
(* process of the controller. Each is an instance of its module; their     *)
(* properties have one name each for the runs and proofs.                  *)
(***************************************************************************)
EXTENDS PythonWorker

CONSTANTS
    Backend, Name, StorageFaults,
    Feature, Required, Feasible,
    Token, WorkerToken, Window, Day, MaxTime, MaxSkew,
    Request, Queue, Configured, ServerFaults

VARIABLES
    backend, name, dir, data, meta, upload, download, delete,
    check, text, length, failed, details, answer,
    now, request, verdict,
    config, phase, ttl, todo, queues, database, stop, deadline, handler, target, missed, deleted

storage == <<backend, name, dir, data, meta, upload, download, delete>>
health  == <<check, text, length, failed, details, answer>>
auth    == <<now, request, verdict>>
server  == <<config, phase, ttl, todo, queues, database, stop, deadline, handler, target, missed, deleted>>

Storage == INSTANCE FileStorage WITH Faults <- StorageFaults

Health == INSTANCE HealthCheck

Auth == INSTANCE Signatures

Server == INSTANCE ControllerServer WITH Faults <- ServerFaults

-----------------------------------------------------------------------------
\* The state of every part has the values its code gives it.
ServicesTypeOK ==
    /\ TypeOK /\ Storage!TypeOK /\ Health!TypeOK /\ Auth!TypeOK /\ Server!TypeOK

\* What Upload has accepted is what Download serves (FileStorage).
ServedIsUploaded == Storage!ServedIsUploaded

\* /health answers the worst of what it has found (HealthCheck).
HealthIsWorst == Health!HealthIsWorst

\* The right token within the window is accepted, over midnight too (Signatures).
SignedIsAccepted == Auth!SignedIsAccepted

\* A handler finds the server whole, through startup and shutdown (ControllerServer).
ServerIsWhole == Server!ServerIsWhole
=============================================================================
