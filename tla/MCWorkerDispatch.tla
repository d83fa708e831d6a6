-------------------------- MODULE MCWorkerDispatch --------------------------
(* Instances of WorkerDispatch for TLC. *)
EXTENDS WorkerDispatch, TLC

CONSTANTS l1, l2, m1, m2, w1, w2, w3, x1, rc1, rc2, rc3, rq1, rq2, gmail, c1, c2

(* Masters of one thread and one route. *)
OneRoute == [m \in Masters |-> gmail]
OneThread == [m \in Masters |-> c1]

Interchangeable == Permutations(Lanes) \cup Permutations(Workers) \cup Permutations(Receipts)
==============================================================================
