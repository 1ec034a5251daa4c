--------------------------------- MODULE Log ---------------------------------
(***************************************************************************)
(* The log every process writes: GlobalModules/Log/Log.cpp.                *)
(*                                                                         *)
(* writeLog appends a line to <name>_(<date>)_<number>.log and goes on to  *)
(* the next number when the file is full, and to number 1 of a new day.    *)
(* writeTempLog keeps a few lines in memory.  The state in memory is lost  *)
(* when the process ends; the files stay.                                  *)
(***************************************************************************)
EXTENDS Naturals

CONSTANTS
    Limit,       \* 204800: a file of this size is full
    MaxLine,     \* length of the longest line
    MaxDays,     \* bound: days in one behaviour
    MaxFiles,    \* bound: files of one day
    MaxRestarts, \* bound: restarts of the process
    MaxTemp      \* bound: lines given to writeTempLog

ASSUME LogAssumption ==
    /\ {Limit, MaxLine, MaxDays, MaxFiles} \subseteq Nat \ {0}
    /\ {MaxRestarts, MaxTemp} \subseteq Nat

VARIABLES
    date,       \* __date, the day for which the object writes
    num,        \* __num_file; __final_path is made of both
    size,       \* the sizes of the files; 0 is no file
    today,      \* the clock
    restarts,   \* history: restarts so far
    misfiled,   \* history: lines written to the file of a former day
    temp,       \* __temporary_log; 0 is the empty string
    place,      \* __num_massive
    lines       \* history: lines given to writeTempLog, numbered from 1

fileVars == <<date, num, size, today, restarts, misfiled>>

tempVars == <<temp, place, lines>>

logVars == <<fileVars, tempVars>>

Days == 1..MaxDays

Files == Days \X (1..MaxFiles)

-----------------------------------------------------------------------------
LogInit ==
    /\ today = 1 /\ date = 1 /\ num = 1
    /\ size = [f \in Files |-> 0]
    /\ restarts = 0 /\ misfiled = 0
    /\ temp = [i \in 0..2 |-> 0] /\ place = 2 /\ lines = 0

\* Mutant of Target: the day is looked at only when the file is full.
TargetStaleDay ==
    IF size[<<date, num>>] < Limit THEN <<date, num>>
    ELSE IF date # today THEN <<today, 1>>
    ELSE <<date, num + 1>>

\* Mutant of Target: the size is compared the wrong way at the limit.
TargetLate ==
    IF size[<<date, num>>] = 0 THEN <<date, num>>
    ELSE IF date # today THEN <<today, 1>>
    ELSE IF size[<<date, num>>] > Limit THEN <<date, num + 1>>
    ELSE <<date, num>>

\* Mutant of Target: a new day does not begin with number 1.
TargetKeepsNumber ==
    IF size[<<date, num>>] = 0 THEN <<date, num>>
    ELSE IF size[<<date, num>>] >= Limit THEN <<today, num + 1>>
    ELSE <<today, num>>

(* The file writeLog chooses.  While there is no file the day is not       *)
(* looked at, so the first line of a process may go to a former day's.     *)
Target ==
    IF size[<<date, num>>] = 0 THEN <<date, num>>
    ELSE IF date # today THEN <<today, 1>>
    ELSE IF size[<<date, num>>] >= Limit THEN <<date, num + 1>>
    ELSE <<date, num>>

(* writeLog and __writeLogToFile of a line of n characters.                *)
WriteLog(n) ==
    /\ Target \in Files
    /\ date' = Target[1]
    /\ num' = Target[2]
    /\ size' = [size EXCEPT ![Target] = @ + n]
    /\ misfiled' = misfiled + (IF Target[1] # today THEN 1 ELSE 0)
    /\ UNCHANGED <<today, restarts, tempVars>>

\* Mutant of WriteTempLog: the lines are shifted in the wrong order.
WriteTempLogShift ==
    /\ lines < MaxTemp /\ lines' = lines + 1
    /\ temp' = [i \in 0..2 |->
          IF i = 2 THEN lines'
          ELSE IF place = 0 THEN temp[2]
          ELSE IF place = 1 /\ i = 1 THEN temp[2] ELSE temp[i]]
    /\ place' = (place + 2) % 3
    /\ UNCHANGED fileVars

(* writeTempLog: the new line always goes to the last place.  The others   *)
(* move up one place (0), one of them does (1), or none: then the line     *)
(* before is overwritten (2).                                              *)
WriteTempLog ==
    /\ lines < MaxTemp /\ lines' = lines + 1
    /\ temp' = [i \in 0..2 |->
          IF i = 2 THEN lines' ELSE IF i >= place THEN temp[i + 1] ELSE temp[i]]
    /\ place' = (place + 2) % 3
    /\ UNCHANGED fileVars

(* The process ends and is started again: Log::Log.                        *)
Restart ==
    /\ restarts < MaxRestarts /\ restarts' = restarts + 1
    /\ date' = today /\ num' = 1
    /\ temp' = [i \in 0..2 |-> 0] /\ place' = 2 /\ lines' = 0
    /\ UNCHANGED <<size, today, misfiled>>

Midnight ==
    /\ today < MaxDays /\ today' = today + 1
    /\ UNCHANGED <<date, num, size, restarts, misfiled, tempVars>>

LogNext ==
    \/ \E n \in 1..MaxLine : WriteLog(n)
    \/ WriteTempLog \/ Restart \/ Midnight

LogSpec == LogInit /\ [][LogNext]_logVars

-----------------------------------------------------------------------------
(* Properties                                                              *)

(* Every variable holds values of its type.                                *)
LogTypeOK ==
    /\ date \in Days /\ today \in Days
    /\ num \in 1..MaxFiles
    /\ size \in [Files -> Nat]
    /\ restarts \in 0..MaxRestarts
    /\ misfiled \in Nat
    /\ temp \in [0..2 -> 0..MaxTemp]
    /\ place \in 0..2
    /\ lines \in 0..MaxTemp

(* How far files grow.  writeLog looks at the size of the file it wrote    *)
(* last, not of the one it goes on to: after a restart it counts from 1    *)
(* again and adds a line to every full file on the way.  A file exceeds    *)
(* the limit by at most one line for every life of the process.            *)
SizeBounded ==
    \A f \in Files : size[f] < Limit + MaxLine * (restarts + 1)

(* Lines written to the file of a former day: in all no more than there    *)
(* were lives of the process, for only the first line of a life, which     *)
(* finds no file yet, goes there without a look at the day.                *)
MisfiledOnce == misfiled <= restarts + 1

(* The files of one day have no gap: number n + 1 is begun only when       *)
(* number n is full.                                                       *)
NoGap ==
    \A f \in Files :
        f[2] > 1 /\ size[f] > 0 => size[<<f[1], f[2] - 1>>] >= Limit

(* The lines in memory are in the order they were written and the last of  *)
(* them is the newest.  The line before it is kept too, except right after *)
(* a shift, when it has been overwritten.                                  *)
TempNewest ==
    lines > 0 =>
        /\ temp[2] = lines
        /\ place # 1 => temp[1] = lines - 1
        /\ temp[0] = 0 \/ temp[0] < temp[1]
        /\ temp[1] < temp[2]
=============================================================================
