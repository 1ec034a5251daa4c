---------------------------- MODULE MCMSWorker ----------------------------
EXTENDS MSWorker

(* A receive and a send complete one after the other, so few messages wait *)
(* at once; longer queues only repeat what overlapping sends do.           *)
Bounded == together => Len(s.pend) + Len(s.ready) <= 3 /\ Len(s.toServer) <= 2
=============================================================================
