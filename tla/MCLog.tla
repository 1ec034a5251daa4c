-------------------------------- MODULE MCLog --------------------------------
(* A finite instance of Log: a file is full after two or three lines.      *)
EXTENDS Log
=============================================================================
