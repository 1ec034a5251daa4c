----------------------------- MODULE Resurrector -----------------------------
(***************************************************************************)
(* The process that keeps the others running: Resurrector/Resurrector.cpp. *)
(*                                                                         *)
(* Every Time_check seconds it looks through /proc for the four programs   *)
(* and starts those of which no process has the name.  Every Time_reset    *)
(* hours it kills all of them.  Both handlers run in one thread, while the *)
(* programs crash, hang and come up by themselves.                         *)
(***************************************************************************)
EXTENDS Naturals, Sequences, FiniteSets

CONSTANTS
    Programs,   \* __fields: the programs kept running, by name
    Fields,     \* CONFIG_FIELDS, in order
    Configs,    \* the sets of keys a configuration file may hold
    MaxEarly    \* bound: checks of a program that is still starting

ASSUME ConstantsAssumption ==
    /\ IsFiniteSet(Programs)
    /\ Fields \in Seq(STRING)
    /\ \A k \in Configs : IsFiniteSet(k) /\ k \subseteq STRING
    /\ MaxEarly \in Nat

(* The name of a program is not that of another file with -cf after it.    *)
ASSUME NamesAssumption == \A p \in Programs : <<p, "-cf">> # p

VARIABLES
    keys,   \* the keys of __config_info
    pc,     \* what the one thread is doing
    left,   \* programs whose entries of /proc are still to be read
    count,  \* __db_count, __ms_count, __worker_count, __mqtt_count
    proc,   \* the processes of every program, by their state
    early   \* history: checks that came while a program was starting

vars == <<keys, pc, left, count, proc, early>>

-----------------------------------------------------------------------------
(* The processes of one program.  One that was started runs a shell and    *)
(* nohup first and has their names.  One that has ended is listed under    *)
(* its name until it is reaped.                                            *)
States == {"starting", "running", "hung", "ended"}

Processes == [States -> Nat]

None == [s \in States |-> 0]

One(state) == [None EXCEPT ![state] = 1]

Alive(p) == proc[p]["starting"] + proc[p]["running"] + proc[p]["hung"]

(* The entries of /proc/<pid>/stat that bear the name of p.                *)
Listed(p) == proc[p]["running"] + proc[p]["hung"] + proc[p]["ended"]

(* The processes of p after all those in the states From went to state to. *)
Moved(p, From, to) ==
    [s \in States |->
        IF s \in From THEN 0
        ELSE IF s # to THEN proc[p][s]
        ELSE proc[p][s] + (IF "running" \in From THEN proc[p]["running"] ELSE 0)
                        + (IF "hung" \in From THEN proc[p]["hung"] ELSE 0)]

(* system("nohup <path><command> ... &") for every program of Started: the *)
(* shell ends when the command is not the name of the program's file.      *)
Spawned(Started, command) ==
    [p \in Programs |->
        IF p \in Started /\ command[p] = p
        THEN [proc[p] EXCEPT !["starting"] = @ + 1]
        ELSE proc[p]]

-----------------------------------------------------------------------------
Init ==
    /\ keys \in Configs
    /\ pc = "off"
    /\ left = {}
    /\ count = [p \in Programs |-> 0]
    /\ proc \in [Programs -> {None, One("running")}]
    /\ early = [p \in Programs |-> 0]

(* start(): one field fewer is looked for than the file has keys, and too  *)
(* many keys are an error.  When a number cannot be read the timers and    *)
(* the number of threads keep what was in memory; reserve() may throw.  A  *)
(* timer of any length is allowed for below, but one thread is assumed.    *)
ConfigAccepted ==
    /\ keys # {}
    /\ \A i \in 1..Cardinality(keys) - 1 : i <= Len(Fields) /\ Fields[i] \in keys

NumbersRead == {"Count_threads", "Time_check", "Time_reset"} \subseteq keys

Start ==
    /\ pc = "off"
    /\ \/ ConfigAccepted /\ pc' = "idle"
       \/ ~(ConfigAccepted /\ NumbersRead) /\ pc' = "exited"
    /\ UNCHANGED <<keys, left, count, proc, early>>

-----------------------------------------------------------------------------
(* __resetTimerCheck and __checkWorking.  Nothing keeps a check away from  *)
(* a program that the one before has started and that has no name yet.     *)

CheckBegins ==
    /\ pc = "idle"
    /\ pc' = "check"
    /\ left' = Programs
    /\ UNCHANGED <<keys, count, proc, early>>

(* A check that is too early for p, which the bound allows MaxEarly times. *)
NoteEarly(p) ==
    IF proc[p]["starting"] > 0
    THEN early[p] < MaxEarly /\ early' = [early EXCEPT ![p] = @ + 1]
    ELSE UNCHANGED early

\* Mutant of ReadStat: a process that hangs is not counted.
ReadStatRunning(p) ==
    /\ pc = "check" /\ p \in left
    /\ NoteEarly(p)
    /\ left' = left \ {p}
    /\ count' = [count EXCEPT ![p] = @ + proc[p]["running"]]
    /\ UNCHANGED <<keys, pc, proc>>

(* The loop over /proc: a program may end after it was counted.            *)
ReadStat(p) ==
    /\ pc = "check" /\ p \in left
    /\ NoteEarly(p)
    /\ left' = left \ {p}
    /\ count' = [count EXCEPT ![p] = @ + Listed(p)]
    /\ UNCHANGED <<keys, pc, proc>>

\* Mutant of StartMissing: one try block around the four branches.
StartMissingOneTry ==
    /\ pc = "check" /\ left = {}
    /\ proc' = Spawned({p \in Programs : Programs \subseteq keys /\ count[p] = 0},
                       [p \in Programs |-> p])
    /\ count' = [p \in Programs |-> 0]
    /\ pc' = "idle"
    /\ UNCHANGED <<keys, left, early>>

(* The four branches at the end of __checkWorking.  A program without a    *)
(* path in the configuration is not started.                               *)
StartMissing ==
    /\ pc = "check" /\ left = {}
    /\ proc' = Spawned({p \in Programs \cap keys : count[p] = 0}, [p \in Programs |-> p])
    /\ count' = [p \in Programs |-> 0]
    /\ pc' = "idle"
    /\ UNCHANGED <<keys, left, early>>

(* __resetTimerReset and __resetProgramms.                                 *)
ResetBegins ==
    /\ pc = "idle"
    /\ pc' = "reset"
    /\ left' = Programs
    /\ UNCHANGED <<keys, count, proc, early>>

\* Mutant of KillListed: a process that hangs survives the signal.
KillListedRunning(p) ==
    /\ pc = "reset" /\ p \in left
    /\ left' = left \ {p}
    /\ proc' = [proc EXCEPT ![p] = Moved(p, {"running"}, "ended")]
    /\ UNCHANGED <<keys, pc, count, early>>

(* kill(pid, SIGKILL) for every process with the name of p.                *)
KillListed(p) ==
    /\ pc = "reset" /\ p \in left
    /\ left' = left \ {p}
    /\ proc' = [proc EXCEPT ![p] = Moved(p, {"running", "hung"}, "ended")]
    /\ UNCHANGED <<keys, pc, count, early>>

(* The command of the reset has no space between the name and -cf.         *)
ResetCommand == [p \in Programs |-> <<p, "-cf">>]

StartAll ==
    /\ pc = "reset" /\ left = {}
    /\ proc' = Spawned(Programs \cap keys, ResetCommand)
    /\ pc' = "idle"
    /\ UNCHANGED <<keys, left, count, early>>

(* opendir("/proc/") fails: either handler returns and its timer is armed  *)
(* again.                                                                  *)
OpendirFails == pc = "idle" /\ UNCHANGED vars

-----------------------------------------------------------------------------
(* The programs.                                                           *)

ProcessStep(p, from, to) ==
    /\ proc[p][from] > 0
    /\ proc' = [proc EXCEPT ![p][from] = @ - 1, ![p][to] = @ + 1]
    /\ UNCHANGED <<keys, pc, left, count, early>>

Exec(p) == ProcessStep(p, "starting", "running")

Hang(p) == ProcessStep(p, "running", "hung")

Crash(p) == \E from \in {"running", "hung"} : ProcessStep(p, from, "ended")

Reap(p) ==
    /\ proc[p]["ended"] > 0
    /\ proc' = [proc EXCEPT ![p]["ended"] = @ - 1]
    /\ UNCHANGED <<keys, pc, left, count, early>>

-----------------------------------------------------------------------------
Scan == \E p \in Programs : ReadStat(p) \/ KillListed(p)

Next ==
    \/ Start \/ CheckBegins \/ ResetBegins \/ OpendirFails
    \/ Scan \/ StartMissing \/ StartAll
    \/ \E p \in Programs : Exec(p) \/ Hang(p) \/ Crash(p) \/ Reap(p)

Spec == Init /\ [][Next]_vars

(* Either timer expires again and again, and its handler waits only for    *)
(* the other one; opendir does not fail for ever.  A shell executes its    *)
(* command and init reaps what has ended.  Nothing makes a program crash   *)
(* or hang, nor keeps it from it.                                          *)
Fairness ==
    /\ WF_vars(Start) /\ WF_vars(Scan) /\ WF_vars(StartMissing) /\ WF_vars(StartAll)
    /\ SF_vars(CheckBegins) /\ SF_vars(ResetBegins)
    /\ \A p \in Programs : WF_vars(Exec(p)) /\ WF_vars(Reap(p))

FairSpec == Spec /\ Fairness

-----------------------------------------------------------------------------
(* Properties                                                              *)

(* Every variable holds values of its type.                                *)
TypeOK ==
    /\ keys \in Configs
    /\ pc \in {"off", "exited", "idle", "check", "reset"}
    /\ left \subseteq Programs
    /\ count \in [Programs -> Nat]
    /\ proc \in [Programs -> Processes]
    /\ early \in [Programs -> 0..MaxEarly]

(* A program has as many processes too many as checks came while it was    *)
(* starting, and none otherwise, although a check decides by counts that   *)
(* are old when it acts, a reset may come while a program that was just    *)
(* started has not got its name, and both handlers start programs.  Two    *)
(* MainServer or ServerDB processes would contend for one port.            *)
NoneTooMany == \A p \in Programs : Alive(p) <= 1 + early[p]

(* The resurrector runs and has a path for p.                              *)
Kept(p) == pc \notin {"off", "exited"} /\ p \in keys

(* A configured program that has crashed, was killed by a reset or was     *)
(* never started runs again, although the reset itself starts nothing.     *)
Restarted ==
    \A p \in Programs : Kept(p) /\ Alive(p) = 0 ~> proc[p]["running"] > 0

(* A program that hangs keeps its name in /proc and no check touches it;   *)
(* the reset gets rid of it, and the next check starts it again.           *)
HungReplaced ==
    \A p \in Programs : Kept(p) /\ proc[p]["hung"] > 0 ~> proc[p]["running"] > 0
=============================================================================
