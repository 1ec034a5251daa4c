---------------------------- MODULE MCResurrector ----------------------------
(* Two of the four programs, with a full configuration, one that has no    *)
(* path for the last program, one that is refused, and one for which the   *)
(* timers are not read.                                                    *)
EXTENDS Resurrector

MCFields == <<"Time_check", "Time_reset", "ServerDB", "Worker", "Count_threads">>

AllKeys == {MCFields[i] : i \in DOMAIN MCFields}

MCConfigs == {AllKeys, AllKeys \ {"Worker"}, AllKeys \ {"ServerDB"},
              AllKeys \ {"Count_threads"}}
=============================================================================
