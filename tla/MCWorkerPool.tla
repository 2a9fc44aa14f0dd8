--------------------------- MODULE MCWorkerPool ---------------------------
(* Instances of WorkerPool for TLC. *)
EXTENDS WorkerPool

\* One object waits in the first schedule queue.
OneObject == [q \in Queue |-> IF q = 0 THEN 1 ELSE 0]
=============================================================================
