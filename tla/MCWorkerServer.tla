--------------------------- MODULE MCWorkerServer ---------------------------
(* Finite instances of WorkerServer for TLC. *)
EXTENDS WorkerServer, TLC

Perms == Permutations(Requests)
=============================================================================
