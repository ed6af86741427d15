----------------------------- MODULE MCWorkerPool -----------------------------
(***************************************************************************)
(* Instances of WorkerPool for TLC.                                        *)
(***************************************************************************)
EXTENDS WorkerPool

CONSTANTS g1, g2, x1

\* The provisioned worker g1 may come back once, the others connect once.
MCLinks == [w \in Grown \cup External |-> IF w = g1 THEN 2 ELSE 1]
=============================================================================
