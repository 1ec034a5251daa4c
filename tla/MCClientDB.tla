----------------------------- MODULE MCClientDB -----------------------------
(* Finite instances of ClientDB.  The field Id, asked of WorkerMarussia,   *)
(* is a field of WorkerLU too; the fields of WorkerLU are its own.         *)
EXTENDS ClientDB

CONSTANTS WorkerMarussia, WorkerLU

MCTables == <<WorkerMarussia, WorkerLU>>
MCFits == {<<WorkerMarussia, WorkerMarussia>>, <<WorkerLU, WorkerLU>>,
           <<WorkerMarussia, WorkerLU>>}
=============================================================================
