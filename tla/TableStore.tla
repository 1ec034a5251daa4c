----------------------------- MODULE TableStore -----------------------------
(***************************************************************************)
(* What the programs that live on tables of the data base promise: a       *)
(* program has no tables until a complete set is there, starts its         *)
(* services once, with that set, and from then on replaces its tables as a *)
(* whole.  What the services were started with never changes.              *)
(*                                                                         *)
(* ClientDB (the main server) and LiftWorker implement it.                 *)
(***************************************************************************)
EXTENDS Naturals

CONSTANTS
    Parts,      \* the names of the tables
    Missing     \* in the place of a table that is not there

VARIABLES
    store,      \* the tables of the program
    inUse,      \* the tables its services were started with
    starts      \* times they were started

vars == <<store, inUse, starts>>

None == [p \in Parts |-> Missing]

Whole(tables) == \A p \in Parts : tables[p] # Missing

Init == store = None /\ inUse = None /\ starts = 0

Start ==
    /\ starts = 0 /\ starts' = 1
    /\ Whole(store') /\ inUse' = store'

Refresh ==
    /\ starts = 1
    /\ Whole(store')
    /\ UNCHANGED <<inUse, starts>>

Next == Start \/ Refresh

Spec == Init /\ [][Next]_vars
=============================================================================
