---------------------------- MODULE MCHTTPSServer ----------------------------
(* Finite instances of HTTPSServer: two registered stations with a lift    *)
(* block and a lift worker each, one that is not registered, and a Marusia *)
(* worker that both stations share.                                        *)
EXTENDS HTTPSServer, TLC

CONSTANTS h1, h2, s1, s2, s3, b1, b2, m1, l1, l2, x1, x2, y1, y2

MCStationWorkers == [s \in Registered |-> {m1}]
MCStationBlock == [s \in Registered |-> IF s = s1 THEN b1 ELSE b2]
MCBlockWorkers == (b1 :> {l1}) @@ (b2 :> {l2})
MCWorkers == (x1 :> m1) @@ (x2 :> m1) @@ (y1 :> l1) @@ (y2 :> l2)
MCWorkerOf == [x \in Links |-> MCWorkers[x]]

Perms == Permutations(Https)
=============================================================================
