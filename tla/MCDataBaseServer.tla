-------------------------- MODULE MCDataBaseServer --------------------------
(* The instance of DataBaseServer: two clients, told apart.                *)
EXTENDS DataBaseServer
=============================================================================
