----------------------------- MODULE MCWorkerPool -----------------------------
(***************************************************************************)
(* Small instances of WorkerPool: two callers and two or three workers.    *)
(***************************************************************************)
EXTENDS WorkerPool, TLC

CONSTANTS w1, w2, w3, a, b

MCWorkers2 == {w1, w2}
MCWorkers3 == {w1, w2, w3}
MCCallers  == {a, b}
=============================================================================
