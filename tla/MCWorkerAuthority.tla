-------------------------- MODULE MCWorkerAuthority --------------------------
(* Three processes, enough for an owner, its successor and a third that     *)
(* starts while both still run.                                             *)
EXTENDS WorkerAuthority
CONSTANTS w1, w2, w3
ThreeWorkers == {w1, w2, w3}
=============================================================================
