---------------------------- MODULE MCTaskRecovery ----------------------------
(***************************************************************************)
(* Instances of TaskRecovery for TLC.                                      *)
(***************************************************************************)
EXTENDS TaskRecovery

CONSTANTS t1, t2

\* t1 may be retried once, the other tasks never.
MCRetryFirst == [t \in Task |-> IF t = t1 THEN 1 ELSE 0]
=============================================================================
