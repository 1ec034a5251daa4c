---------------------------- MODULE MCLiftWorker ----------------------------
(* A finite instance of LiftWorker: two lift blocks with a login each, and *)
(* a controller may log in with either.                                    *)
EXTENDS LiftWorker, TLC

CONSTANTS l1, l2, u1, u2

MCLogin == (l1 :> u1) @@ (l2 :> u2)

(* Requests are alike, and so are the lift blocks with their logins.       *)
Swapped == (l1 :> l2) @@ (l2 :> l1) @@ (u1 :> u2) @@ (u2 :> u1)

Symmetric == Permutations(Requests) \cup {Swapped}
=============================================================================
