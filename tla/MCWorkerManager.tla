--------------------------- MODULE MCWorkerManager ---------------------------
(***************************************************************************)
(* Instances of WorkerManager for TLC: a few tasks and workers.             *)
(***************************************************************************)
EXTENDS WorkerManager, TLC

CONSTANTS t1, t2, t3, c1, c2, c3, q1, q2, b1, b2

MCNoRetry == [t \in Task |-> 0]
MCOneRetry == [t \in Task |-> 1]
\* t1 may be retried once, the other tasks never.
MCRetryFirst == [t \in Task |-> IF t = t1 THEN 1 ELSE 0]

\* Each task in a queue of its own, each queue in a bucket of its own.
MCTwoQueues == [t \in Task |-> IF t = t1 THEN q1 ELSE q2]
MCTwoBuckets == [q \in Queue |-> IF q = q1 THEN b1 ELSE b2]

\* All tasks in one queue, served by one bucket worker.
MCOneQueue == [t \in Task |-> q1]
MCOneBucket == [q \in Queue |-> b1]

\* Every worker serves every queue.
MCAllQueues == [c \in Conn |-> Queue]

\* Workers that serve the same queues are interchangeable.
MCSymmetry == Permutations(Conn)
=============================================================================
