--------------------------- MODULE ServiceProofs ---------------------------
(***************************************************************************)
(* The two services that all processes of the system share.  Resurrector:  *)
(* a program has a process too many only for a check that came while it    *)
(* was starting, for any set of programs and any configuration.  Log: the  *)
(* files and the lines in memory, for every limit, every length of lines   *)
(* and every number of days, files and restarts.                           *)
(***************************************************************************)
EXTENDS Resurrector, Log, TLAPS

USE DEF States, Processes

LEMMA EarlyIsNat == MaxEarly \in Nat
BY ConstantsAssumption

(* A count of 0 that has been taken is right until the check acts on it,   *)
(* although the counts are old by then: a program may end after it was     *)
(* counted, but none can appear.  Where something was starting, the check  *)
(* has been noted as too early: one more process of p is allowed for.      *)
CountsHold ==
    pc = "check" =>
        \A p \in Programs : p \notin left /\ count[p] = 0 => Alive(p) <= early[p]

IInv == TypeOK /\ NoneTooMany /\ CountsHold

-----------------------------------------------------------------------------
LEMMA InitGood == Init => IInv
<1> SUFFICES ASSUME Init PROVE IInv
  OBVIOUS
<1>1. None \in Processes /\ One("running") \in Processes
  BY DEF None, One
<1>2. TypeOK
  BY <1>1, EarlyIsNat DEF Init, TypeOK
<1>3. ASSUME NEW p \in Programs PROVE Alive(p) <= 1 + early[p]
  <2>1. early[p] = 0 /\ (proc[p] = None \/ proc[p] = One("running"))
    BY DEF Init
  <2> QED BY <2>1 DEF Alive, None, One
<1> QED BY <1>2, <1>3 DEF Init, IInv, NoneTooMany, CountsHold

(* The steps of the programs: processes of p change, and those that are    *)
(* alive do not become more.                                               *)
LEMMA ProcessesKeep ==
    ASSUME IInv, NEW p \in Programs, NEW f \in Processes,
           f["starting"] + f["running"] + f["hung"] <= Alive(p),
           proc' = [proc EXCEPT ![p] = f],
           UNCHANGED <<keys, pc, left, count, early>>
    PROVE  IInv'
<1>1. TypeOK'
  BY DEF IInv, TypeOK
<1>2. ASSUME NEW q \in Programs
      PROVE  /\ Alive(q)' <= Alive(q)
             /\ Alive(q) \in Nat /\ Alive(q)' \in Nat
  BY <1>1 DEF IInv, TypeOK, Alive
<1>3. NoneTooMany'
  BY <1>1, <1>2 DEF IInv, TypeOK, NoneTooMany
<1>4. CountsHold'
  BY <1>1, <1>2 DEF IInv, TypeOK, CountsHold
<1> QED BY <1>1, <1>3, <1>4 DEF IInv

LEMMA StepKeeps ==
    ASSUME IInv, NEW p \in Programs, NEW from \in {"starting", "running", "hung"},
           NEW to \in {"running", "hung", "ended"}, from # to, ProcessStep(p, from, to)
    PROVE  IInv'
<1> DEFINE f == [proc[p] EXCEPT ![from] = @ - 1, ![to] = @ + 1]
<1>1. proc[p] \in [States -> Nat] /\ proc[p][from] > 0
  BY DEF IInv, TypeOK, ProcessStep
<1>2. proc' = [proc EXCEPT ![p] = f] /\ UNCHANGED <<keys, pc, left, count, early>>
  BY DEF ProcessStep, IInv, TypeOK
<1>3. f \in Processes
      /\ f["starting"] + f["running"] + f["hung"] <= Alive(p)
  BY <1>1 DEF Alive
<1> QED BY <1>2, <1>3, ProcessesKeep

LEMMA ReapKeeps ==
    ASSUME IInv, NEW p \in Programs, Reap(p)
    PROVE  IInv'
<1> DEFINE f == [proc[p] EXCEPT !["ended"] = @ - 1]
<1>1. proc[p] \in [States -> Nat] /\ proc[p]["ended"] > 0
  BY DEF IInv, TypeOK, Reap
<1>2. proc' = [proc EXCEPT ![p] = f] /\ UNCHANGED <<keys, pc, left, count, early>>
  BY DEF Reap, IInv, TypeOK
<1>3. f \in Processes
      /\ f["starting"] + f["running"] + f["hung"] <= Alive(p)
  BY <1>1 DEF Alive
<1> QED BY <1>2, <1>3, ProcessesKeep

-----------------------------------------------------------------------------
(* The resurrector.                                                        *)

LEMMA ReadKeeps ==
    ASSUME IInv, NEW p \in Programs, ReadStat(p)
    PROVE  IInv'
<1>1. ASSUME NEW q \in Programs PROVE proc[q] \in [States -> Nat]
  BY DEF IInv, TypeOK
<1>2. count' = [count EXCEPT ![p] = @ + Listed(p)] /\ left' = left \ {p} /\ pc = "check"
      /\ UNCHANGED <<keys, pc, proc>> /\ NoteEarly(p)
  BY DEF ReadStat
<1>3. Listed(p) \in Nat
  BY <1>1 DEF Listed
<1>4. /\ early \in [Programs -> 0..MaxEarly] /\ early' \in [Programs -> 0..MaxEarly]
      /\ \A q \in Programs : early[q] <= early'[q]
      /\ proc[p]["starting"] > 0 => early'[p] = early[p] + 1
  BY <1>2, EarlyIsNat DEF NoteEarly, IInv, TypeOK
<1>5. TypeOK'
  <2>1. count' \in [Programs -> Nat]
    BY <1>2, <1>3 DEF IInv, TypeOK
  <2> QED BY <1>2, <1>4, <2>1 DEF IInv, TypeOK
<1>6. ASSUME NEW q \in Programs PROVE Alive(q) \in Nat /\ Alive(q)' = Alive(q)
  BY <1>1, <1>2 DEF Alive
<1>7. NoneTooMany'
  BY <1>4, <1>6 DEF IInv, NoneTooMany
<1>8. ASSUME NEW q \in Programs, q \notin left', count'[q] = 0 PROVE Alive(q) <= early'[q]
  <2>1. CASE q = p
    <3>1. Listed(p) = 0
      BY <1>2, <1>3, <1>8, <2>1 DEF IInv, TypeOK
    <3>2. CASE proc[p]["starting"] = 0
      <4>1. Alive(p) = 0
        BY <1>1, <3>1, <3>2 DEF Listed, Alive
      <4> QED BY <1>4, <2>1, <4>1
    <3>3. CASE proc[p]["starting"] # 0
      <4>1. early'[p] = early[p] + 1
        BY <1>1, <1>4, <3>3
      <4>2. Alive(p) <= 1 + early[p]
        BY DEF IInv, NoneTooMany
      <4> QED BY <1>4, <2>1, <4>1, <4>2
    <3> QED BY <3>2, <3>3
  <2>2. CASE q # p
    <3>1. q \notin left /\ count[q] = 0
      BY <1>2, <1>8, <2>2 DEF IInv, TypeOK
    <3>2. Alive(q) <= early[q]
      BY <1>2, <3>1 DEF IInv, CountsHold
    <3> QED BY <1>4, <1>6, <3>2
  <2> QED BY <2>1, <2>2
<1> QED BY <1>2, <1>5, <1>6, <1>7, <1>8 DEF IInv, CountsHold

LEMMA SpawnKeepsType ==
    ASSUME TypeOK, NEW Started, NEW command
    PROVE  Spawned(Started, command) \in [Programs -> Processes]
<1>1. ASSUME NEW p \in Programs PROVE [proc[p] EXCEPT !["starting"] = @ + 1] \in Processes
  BY DEF TypeOK
<1> QED BY <1>1 DEF Spawned, TypeOK

(* The check starts only programs that have room for one more process.     *)
LEMMA StartMissingKeeps ==
    ASSUME IInv, StartMissing
    PROVE  IInv'
<1> DEFINE Missing == {p \in Programs \cap keys : count[p] = 0}
<1>1. proc' = Spawned(Missing, [p \in Programs |-> p])
      /\ pc = "check" /\ left = {} /\ pc' = "idle"
      /\ count' = [p \in Programs |-> 0] /\ UNCHANGED <<keys, left, early>>
  BY DEF StartMissing
<1>2. TypeOK'
  BY <1>1, SpawnKeepsType DEF IInv, TypeOK
<1>3. ASSUME NEW p \in Programs PROVE Alive(p)' <= 1 + early[p]
  <2>1. proc[p] \in [States -> Nat] /\ early[p] \in Nat
    BY DEF IInv, TypeOK
  <2>2. CASE p \in Missing
    <3>1. Alive(p) <= early[p]
      BY <1>1, <2>2 DEF IInv, CountsHold
    <3>2. proc'[p] = [proc[p] EXCEPT !["starting"] = @ + 1]
      BY <1>1, <2>2 DEF Spawned
    <3> QED BY <2>1, <3>1, <3>2 DEF Alive
  <2>3. CASE p \notin Missing
    <3>1. proc'[p] = proc[p]
      BY <1>1, <2>3 DEF Spawned
    <3> QED BY <3>1 DEF IInv, NoneTooMany, Alive
  <2> QED BY <2>2, <2>3
<1> QED BY <1>1, <1>2, <1>3 DEF IInv, NoneTooMany, CountsHold

LEMMA KillKeeps ==
    ASSUME IInv, NEW p \in Programs, KillListed(p)
    PROVE  IInv'
<1> DEFINE f == Moved(p, {"running", "hung"}, "ended")
<1>1. proc' = [proc EXCEPT ![p] = f] /\ left' = left \ {p} /\ pc = "reset"
      /\ UNCHANGED <<keys, pc, count, early>>
  BY DEF KillListed
<1>2. proc[p] \in [States -> Nat]
  BY DEF IInv, TypeOK
<1>3. f \in Processes /\ f["starting"] = proc[p]["starting"] /\ f["running"] = 0 /\ f["hung"] = 0
  BY <1>2 DEF Moved
<1> HIDE DEF f
<1>4. TypeOK'
  BY <1>1, <1>3 DEF IInv, TypeOK
<1>5. ASSUME NEW q \in Programs PROVE Alive(q)' <= 1 + early[q]
  <2>1. CASE q = p
    <3>1. Alive(p) <= 1 + early[p] /\ early[p] \in Nat
      BY DEF IInv, TypeOK, NoneTooMany
    <3>2. proc'[p] = f
      BY <1>1 DEF IInv, TypeOK
    <3> QED BY <1>2, <1>3, <2>1, <3>1, <3>2 DEF Alive
  <2>2. CASE q # p
    BY <1>1, <2>2 DEF IInv, TypeOK, NoneTooMany, Alive
  <2> QED BY <2>1, <2>2
<1> QED BY <1>1, <1>4, <1>5 DEF IInv, NoneTooMany, CountsHold

(* The reset starts nothing: its command is the name of no program.        *)
LEMMA StartAllKeeps ==
    ASSUME IInv, StartAll
    PROVE  IInv'
<1>1. proc' = proc
  <2>1. proc' = Spawned(Programs \cap keys, ResetCommand)
    BY DEF StartAll
  <2>2. ASSUME NEW p \in Programs PROVE ResetCommand[p] # p
    BY NamesAssumption DEF ResetCommand
  <2>3. Spawned(Programs \cap keys, ResetCommand) = [p \in Programs |-> proc[p]]
    BY <2>2 DEF Spawned
  <2> QED BY <2>1, <2>3 DEF IInv, TypeOK
<1>2. pc' = "idle" /\ UNCHANGED <<keys, left, count, early>>
  BY DEF StartAll
<1> QED BY <1>1, <1>2 DEF IInv, TypeOK, NoneTooMany, CountsHold, Alive

LEMMA BeginKeeps ==
    ASSUME IInv, Start \/ CheckBegins \/ ResetBegins
    PROVE  IInv'
<1>1. proc' = proc /\ count' = count /\ keys' = keys /\ early' = early
  BY DEF Start, CheckBegins, ResetBegins
<1>2. TypeOK'
  BY <1>1 DEF IInv, TypeOK, Start, CheckBegins, ResetBegins
<1>3. NoneTooMany'
  BY <1>1 DEF IInv, NoneTooMany, Alive
<1>4. pc' = "check" => left' = Programs
  BY DEF Start, CheckBegins, ResetBegins
<1> QED BY <1>1, <1>2, <1>3, <1>4 DEF IInv, CountsHold

LEMMA NextKeeps == IInv /\ [Next]_vars => IInv'
<1> SUFFICES ASSUME IInv, [Next]_vars PROVE IInv'
  OBVIOUS
<1>1. CASE UNCHANGED vars
  BY <1>1 DEF vars, IInv, TypeOK, NoneTooMany, CountsHold, Alive
<1>2. CASE Start \/ CheckBegins \/ ResetBegins
  BY <1>2, BeginKeeps
<1>3. CASE Scan
  BY <1>3, ReadKeeps, KillKeeps DEF Scan
<1>4. CASE StartMissing \/ StartAll
  BY <1>4, StartMissingKeeps, StartAllKeeps
<1>5. ASSUME NEW p \in Programs, Exec(p) \/ Hang(p) \/ Crash(p) PROVE IInv'
  BY <1>5, StepKeeps DEF Exec, Hang, Crash
<1>6. ASSUME NEW p \in Programs, Reap(p) PROVE IInv'
  BY <1>6, ReapKeeps
<1> QED BY <1>1, <1>2, <1>3, <1>4, <1>5, <1>6 DEF Next, OpendirFails

(* Every variable keeps its type; in particular the exception for a        *)
(* program without a path never leaves the handler.                        *)
THEOREM TypeCorrect == Spec => []TypeOK
<1>1. IInv => TypeOK
  BY DEF IInv
<1> QED BY <1>1, InitGood, NextKeeps, PTL DEF Spec

(* However checks and resets interleave with programs that crash, hang and *)
(* come up, the counts never start a second process of a program that has  *)
(* its name; each check that comes while it is starting may add one.       *)
THEOREM NoneButEarly == Spec => []NoneTooMany
<1>1. IInv => NoneTooMany
  BY DEF IInv
<1> QED BY <1>1, InitGood, NextKeeps, PTL DEF Spec

-----------------------------------------------------------------------------
(* The log.                                                                *)

USE LogAssumption

(* The file of __final_path.                                               *)
Current == <<date, num>>

(* Files that this life of the process has not come to yet.                *)
Ahead(f) == f[1] > date \/ (f[1] = date /\ f[2] > num)

Bound(r) == Limit + MaxLine * r

(* Such a file is as the lives before have left it, one line shorter than  *)
(* SizeBounded allows: the line that is added when it is come to fits.     *)
RoomAhead == \A f \in Files : Ahead(f) => size[f] < Bound(restarts)

(* The current file is missing only before the first line of a life, when  *)
(* nothing has been misfiled in this life and the number is 1.             *)
FirstLine == size[Current] = 0 => misfiled <= restarts /\ num = 1

InOrder ==
    IF lines > 0 THEN TempNewest
    ELSE place = 2 /\ temp = [i \in 0..2 |-> 0]

FilesInv == SizeBounded /\ RoomAhead /\ date <= today

LogInv == LogTypeOK /\ FilesInv /\ MisfiledOnce /\ FirstLine /\ NoGap /\ InOrder

-----------------------------------------------------------------------------
LEMMA Bounds ==
    ASSUME NEW r \in Nat
    PROVE  /\ Bound(r) \in Nat /\ Bound(r + 1) = Bound(r) + MaxLine
           /\ Limit + MaxLine <= Bound(r + 1) /\ Limit <= Bound(r)
           /\ Limit + MaxLine * (r + 1) = Bound(r + 1)
<1>1. MaxLine * r \in Nat /\ MaxLine * (r + 1) = MaxLine * r + MaxLine
  OBVIOUS
<1> QED BY <1>1 DEF Bound

LEMMA CurrentFile ==
    ASSUME LogTypeOK
    PROVE  Current \in Files /\ size[Current] \in Nat
BY DEF LogTypeOK, Current, Files

(* What writeLog chooses: the current file while it is missing or not      *)
(* full, otherwise one ahead of it.                                        *)
LEMMA TargetIs ==
    ASSUME LogTypeOK, date <= today, Target \in Files
    PROVE  /\ Target[1] \in Nat /\ Target[2] \in Nat /\ Target = <<Target[1], Target[2]>>
           /\ \/ /\ Target = Current
                 /\ size[Current] < Limit /\ (size[Current] = 0 \/ date = today)
              \/ /\ Ahead(Target) /\ Target[1] = today /\ size[Current] > 0
                 /\ \/ Target[2] = 1
                    \/ /\ Target = <<date, num + 1>> /\ date = today
                       /\ size[Current] >= Limit
<1> USE CurrentFile DEF Current
<1>1. /\ date \in Nat /\ num \in Nat /\ num >= 1 /\ today \in Nat
      /\ Limit \in Nat /\ Limit > 0 /\ size[Current] \in Nat
  BY DEF LogTypeOK, Days
<1>2. CASE size[Current] = 0
  BY <1>1, <1>2 DEF Target, Current
<1>3. CASE size[Current] # 0 /\ date # today
  <2>1. Target = <<today, 1>>
    BY <1>3 DEF Target
  <2> QED BY <1>1, <1>3, <2>1 DEF Ahead
<1>4. CASE size[Current] # 0 /\ date = today /\ size[Current] >= Limit
  <2>1. Target = <<date, num + 1>>
    BY <1>4 DEF Target
  <2> QED BY <1>1, <1>4, <2>1 DEF Ahead
<1>5. CASE size[Current] # 0 /\ date = today /\ ~(size[Current] >= Limit)
  <2>1. Target = <<date, num>>
    BY <1>5 DEF Target
  <2> QED BY <1>1, <1>5, <2>1 DEF Current
<1> QED BY <1>2, <1>3, <1>4, <1>5

-----------------------------------------------------------------------------
LEMMA WriteLogKeeps ==
    ASSUME LogInv, NEW n \in 1..MaxLine, WriteLog(n)
    PROVE  LogInv'
<1> DEFINE t == Target
<1>1. /\ t \in Files /\ date' = t[1] /\ num' = t[2]
      /\ size' = [size EXCEPT ![t] = @ + n]
      /\ misfiled' = misfiled + (IF t[1] # today THEN 1 ELSE 0)
      /\ UNCHANGED <<today, restarts, temp, place, lines>>
  BY DEF WriteLog, tempVars
<1>2. LogTypeOK /\ date <= today
  BY DEF LogInv, FilesInv
<1>3. /\ t[1] \in Nat /\ t[2] \in Nat /\ t = <<t[1], t[2]>>
      /\ \/ /\ t = Current
            /\ size[Current] < Limit /\ (size[Current] = 0 \/ date = today)
         \/ /\ Ahead(t) /\ t[1] = today /\ size[Current] > 0
            /\ \/ t[2] = 1
               \/ /\ t = <<date, num + 1>> /\ date = today
                  /\ size[Current] >= Limit
  BY <1>1, <1>2, TargetIs
<1> HIDE DEF t
<1>4. /\ \A f \in Files : size[f] \in Nat
      /\ Current \in Files /\ n \in Nat /\ n >= 1 /\ n <= MaxLine /\ MaxLine \in Nat /\ Limit \in Nat
      /\ restarts \in Nat /\ misfiled \in Nat /\ date \in Nat /\ num \in Nat /\ today \in Nat
  BY <1>2, CurrentFile DEF LogTypeOK, Days
<1>5. /\ size'[t] = size[t] + n
      /\ \A f \in Files : f # t => size'[f] = size[f]
      /\ \A f \in Files : size'[f] \in Nat /\ size'[f] >= size[f]
  BY <1>1, <1>2, <1>4 DEF LogTypeOK
<1>6. Current' = t
  BY <1>1, <1>3 DEF Current
<1>7. LogTypeOK'
  <2>1. date' \in Days /\ num' \in 1..MaxFiles
    BY <1>1, <1>3 DEF Files
  <2>2. size' \in [Files -> Nat] /\ misfiled' \in Nat
    BY <1>1, <1>2, <1>4 DEF LogTypeOK
  <2> QED BY <1>1, <1>2, <2>1, <2>2 DEF LogTypeOK
<1>8. FilesInv'
  <2> USE DEF LogInv, FilesInv
  <2>1. \A f \in Files : size[f] < Bound(restarts + 1)
    BY <1>4, Bounds DEF SizeBounded
  <2>2. size'[t] < Bound(restarts + 1)
    <3>1. /\ Bound(restarts) \in Nat /\ Bound(restarts + 1) = Bound(restarts) + MaxLine
          /\ Limit <= Bound(restarts)
      BY <1>4, Bounds
    <3>2. size[t] < Bound(restarts)
      <4>1. CASE t = Current /\ size[Current] < Limit
        BY <1>4, <3>1, <4>1
      <4>2. CASE Ahead(t)
        BY <1>1, <4>2 DEF RoomAhead
      <4> QED BY <1>3, <4>1, <4>2
    <3>3. size[t] \in Nat /\ Bound(restarts + 1) \in Nat
      BY <1>1, <1>4, <3>1
    <3> QED BY <1>4, <1>5, <3>1, <3>2, <3>3
  <2>3. SizeBounded'
    <3>1. \A f \in Files : size'[f] < Bound(restarts + 1)
      BY <1>5, <2>1, <2>2
    <3> QED BY <1>1, <1>4, <3>1, Bounds DEF SizeBounded
  <2>4. ASSUME NEW f \in Files, f[1] > date' \/ (f[1] = date' /\ f[2] > num')
        PROVE  size'[f] < Bound(restarts')
    <3>1. f # t /\ f[1] \in Nat /\ f[2] \in Nat
      BY <1>1, <1>3, <2>4 DEF Files, Days
    <3>2. Ahead(f)
      BY <1>1, <1>3, <1>4, <2>4, <3>1 DEF Ahead, Current
    <3> QED BY <1>1, <1>5, <3>1, <3>2 DEF RoomAhead
  <2>5. date' <= today'
    BY <1>1, <1>2, <1>3 DEF Current
  <2> QED BY <2>3, <2>4, <2>5 DEF RoomAhead, Ahead
<1>9. MisfiledOnce'
  <2>1. CASE size[Current] = 0
    BY <1>1, <1>4, <2>1 DEF LogInv, FirstLine, MisfiledOnce
  <2>2. CASE size[Current] # 0
    <3>1. t[1] = today
      BY <1>3, <2>2 DEF Current
    <3> QED BY <1>1, <1>4, <3>1 DEF LogInv, MisfiledOnce
  <2> QED BY <2>1, <2>2
<1>10. FirstLine'
  BY <1>1, <1>4, <1>5, <1>6 DEF FirstLine
<1>11. NoGap'
  <2> SUFFICES ASSUME NEW f \in Files, f[2] > 1, size'[f] > 0
               PROVE  size'[<<f[1], f[2] - 1>>] >= Limit
    BY DEF NoGap
  <2>1. <<f[1], f[2] - 1>> \in Files
    BY DEF Files
  <2>2. CASE size[f] > 0
    <3>1. size[<<f[1], f[2] - 1>>] >= Limit
      BY <2>2 DEF LogInv, NoGap
    <3> QED BY <1>4, <1>5, <2>1, <3>1
  <2>3. CASE size[f] = 0
    <3>1. f = t
      BY <1>5, <2>3
    <3>2. t = <<date, num + 1>> /\ size[Current] >= Limit
      BY <1>3, <2>3, <3>1 DEF LogInv, FirstLine, Current
    <3>3. <<f[1], f[2] - 1>> = Current
      BY <1>4, <3>1, <3>2 DEF Current
    <3> QED BY <1>4, <1>5, <3>2, <3>3
  <2> QED BY <1>4, <2>2, <2>3
<1>12. InOrder'
  BY <1>1 DEF LogInv, InOrder, TempNewest
<1> QED BY <1>7, <1>8, <1>9, <1>10, <1>11, <1>12 DEF LogInv

LEMMA WriteTempLogKeeps ==
    ASSUME LogInv, WriteTempLog
    PROVE  LogInv'
<1>1. /\ LogTypeOK /\ InOrder
      /\ lines < MaxTemp /\ lines' = lines + 1
      /\ temp' = [i \in 0..2 |->
            IF i = 2 THEN lines' ELSE IF i >= place THEN temp[i + 1] ELSE temp[i]]
      /\ place' = (place + 2) % 3
      /\ UNCHANGED <<date, num, size, today, restarts, misfiled>>
  BY DEF LogInv, WriteTempLog, fileVars
<1>2. /\ lines \in Nat /\ MaxTemp \in Nat /\ temp[0] \in 0..MaxTemp
      /\ temp[1] \in 0..MaxTemp /\ temp[2] \in 0..MaxTemp
  BY <1>1 DEF LogTypeOK
<1>3. temp'[2] = lines'
  BY <1>1
<1>4. place \in {0, 1, 2}
  BY <1>1 DEF LogTypeOK
<1>5. /\ temp \in [0..2 -> 0..MaxTemp]
      /\ lines > 0 =>
            /\ temp[2] = lines /\ (place # 1 => temp[1] = lines - 1)
            /\ temp[0] = 0 \/ temp[0] < temp[1]
            /\ temp[1] < temp[2]
      /\ lines = 0 => place = 2 /\ temp[0] = 0 /\ temp[1] = 0 /\ temp[2] = 0
  BY <1>1, <1>2 DEF LogTypeOK, InOrder, TempNewest
<1>6. /\ temp'[0] = IF place = 0 THEN temp[1] ELSE temp[0]
      /\ temp'[1] = IF place = 2 THEN temp[1] ELSE temp[2]
      /\ place' \in 0..2
      /\ place' = 1 <=> place = 2
  <2>1. CASE place = 0
    BY <1>1, <2>1
  <2>2. CASE place = 1
    BY <1>1, <2>2
  <2>3. CASE place = 2
    BY <1>1, <2>3
  <2> QED BY <1>4, <2>1, <2>2, <2>3
<1>7. LogTypeOK'
  <2>1. lines' \in 0..MaxTemp
    BY <1>1, <1>2
  <2>2. \A i \in 0..2 : temp'[i] \in 0..MaxTemp
    BY <1>2, <1>3, <1>6, <2>1
  <2>3. temp' \in [0..2 -> 0..MaxTemp]
    BY <1>1, <2>2
  <2> QED BY <1>1, <1>6, <2>1, <2>3 DEF LogTypeOK
<1>8. TempNewest'
  BY <1>1, <1>2, <1>3, <1>4, <1>5, <1>6 DEF TempNewest
<1>9. InOrder'
  BY <1>1, <1>2, <1>8 DEF InOrder
<1>10. (FilesInv /\ MisfiledOnce /\ FirstLine /\ NoGap)'
  BY <1>1 DEF LogInv, FilesInv, SizeBounded, RoomAhead, Ahead, MisfiledOnce,
              FirstLine, Current, NoGap
<1> QED BY <1>7, <1>9, <1>10 DEF LogInv

LEMMA RestartKeeps ==
    ASSUME LogInv, Restart
    PROVE  LogInv'
<1>1. /\ LogTypeOK /\ SizeBounded /\ MisfiledOnce /\ NoGap
      /\ restarts < MaxRestarts /\ restarts' = restarts + 1
      /\ date' = today /\ num' = 1
      /\ temp' = [i \in 0..2 |-> 0] /\ place' = 2 /\ lines' = 0
      /\ UNCHANGED <<size, today, misfiled>>
  BY DEF LogInv, FilesInv, Restart
<1>2. /\ restarts \in Nat /\ misfiled \in Nat /\ today \in Nat
      /\ MaxRestarts \in Nat /\ MaxTemp \in Nat
      /\ \A f \in Files : size[f] \in Nat
      /\ num \in 1..MaxFiles
  BY <1>1 DEF LogTypeOK, Days
<1>3. LogTypeOK'
  BY <1>1, <1>2 DEF LogTypeOK
<1>4. FilesInv'
  <2>1. \A f \in Files : size[f] < Bound(restarts + 1)
    BY <1>1, <1>2, Bounds DEF SizeBounded
  <2>2. /\ Bound(restarts + 1) \in Nat /\ Bound((restarts + 1) + 1) \in Nat
        /\ Bound(restarts + 1) <= Bound((restarts + 1) + 1)
        /\ Limit + MaxLine * ((restarts + 1) + 1) = Bound((restarts + 1) + 1)
    <3>1. restarts + 1 \in Nat
      BY <1>2
    <3> DEFINE r == restarts + 1
    <3>2. /\ Bound(r) \in Nat /\ Bound(r + 1) = Bound(r) + MaxLine
          /\ Limit + MaxLine * (r + 1) = Bound(r + 1)
      <4> HIDE DEF r
      <4> QED BY <3>1, Bounds DEF r
    <3> QED BY <3>2
  <2>3. SizeBounded'
    BY <1>1, <1>2, <2>1, <2>2 DEF SizeBounded
  <2>4. RoomAhead'
    BY <1>1, <2>1 DEF RoomAhead
  <2> QED BY <1>1, <1>2, <2>3, <2>4 DEF FilesInv
<1>5. MisfiledOnce' /\ FirstLine'
  BY <1>1, <1>2 DEF MisfiledOnce, FirstLine
<1>6. NoGap'
  BY <1>1 DEF NoGap
<1>7. InOrder'
  BY <1>1 DEF InOrder
<1> QED BY <1>3, <1>4, <1>5, <1>6, <1>7 DEF LogInv

LEMMA MidnightKeeps ==
    ASSUME LogInv, Midnight
    PROVE  LogInv'
<1>1. /\ LogTypeOK /\ today < MaxDays /\ today' = today + 1
      /\ UNCHANGED <<date, num, size, restarts, misfiled, temp, place, lines>>
  BY DEF LogInv, Midnight, tempVars
<1>2. LogTypeOK'
  BY <1>1 DEF LogTypeOK, Days
<1>3. date' <= today'
  BY <1>1 DEF LogInv, FilesInv, LogTypeOK, Days
<1>4. (SizeBounded /\ RoomAhead /\ MisfiledOnce /\ FirstLine /\ NoGap)'
  BY <1>1 DEF LogInv, FilesInv, SizeBounded, RoomAhead, Ahead, MisfiledOnce,
              FirstLine, Current, NoGap
<1>5. InOrder'
  BY <1>1 DEF LogInv, InOrder, TempNewest
<1> QED BY <1>2, <1>3, <1>4, <1>5 DEF LogInv, FilesInv

-----------------------------------------------------------------------------
LEMMA LogInitGood ==
    ASSUME LogInit
    PROVE  LogInv
<1>1. LogTypeOK
  BY DEF LogInit, LogTypeOK, Days
<1>2. SizeBounded
  <2>1. Limit + MaxLine * (0 + 1) > 0
    OBVIOUS
  <2> QED BY <2>1 DEF LogInit, SizeBounded
<1>3. RoomAhead
  <2>1. Limit + MaxLine * 0 > 0
    OBVIOUS
  <2> QED BY <2>1 DEF LogInit, RoomAhead, Bound
<1>4. MisfiledOnce /\ FirstLine /\ NoGap /\ InOrder /\ date <= today
  BY DEF LogInit, MisfiledOnce, FirstLine, NoGap, InOrder
<1> QED BY <1>1, <1>2, <1>3, <1>4 DEF LogInv, FilesInv

LEMMA LogNextKeeps ==
    ASSUME LogInv, [LogNext]_logVars
    PROVE  LogInv'
<1>1. CASE \E n \in 1..MaxLine : WriteLog(n)
  BY <1>1, WriteLogKeeps
<1>2. CASE WriteTempLog
  BY <1>2, WriteTempLogKeeps
<1>3. CASE Restart
  BY <1>3, RestartKeeps
<1>4. CASE Midnight
  BY <1>4, MidnightKeeps
<1>5. CASE UNCHANGED logVars
  <2>1. UNCHANGED <<date, num, size, today, restarts, misfiled, temp, place, lines>>
    BY <1>5 DEF logVars, fileVars, tempVars
  <2> QED BY <2>1 DEF LogInv, LogTypeOK, FilesInv, SizeBounded, RoomAhead, Ahead,
            MisfiledOnce, FirstLine, Current, NoGap, InOrder, TempNewest
<1> QED BY <1>1, <1>2, <1>3, <1>4, <1>5 DEF LogNext

LEMMA LogInvariance == LogSpec => []LogInv
<1> QED BY LogInitGood, LogNextKeeps, PTL DEF LogSpec

-----------------------------------------------------------------------------
(* Every variable of the log keeps its type.                               *)
THEOREM LogTypeCorrect == LogSpec => []LogTypeOK
<1>1. LogInv => LogTypeOK
  BY DEF LogInv
<1> QED BY <1>1, LogInvariance, PTL

(* A file exceeds the limit by at most one line for every life of the      *)
(* process, however often it restarts and whatever the lines' lengths.     *)
THEOREM FilesBounded == LogSpec => []SizeBounded
<1>1. LogInv => SizeBounded
  BY DEF LogInv, FilesInv
<1> QED BY <1>1, LogInvariance, PTL

(* In all no more lines go to files of former days than there were lives   *)
(* of the process so far.                                                  *)
THEOREM MisfiledAtMostOnce == LogSpec => []MisfiledOnce
<1>1. LogInv => MisfiledOnce
  BY DEF LogInv
<1> QED BY <1>1, LogInvariance, PTL

(* The files of a day have no gap.                                         *)
THEOREM NoGaps == LogSpec => []NoGap
<1>1. LogInv => NoGap
  BY DEF LogInv
<1> QED BY <1>1, LogInvariance, PTL

(* writeTempLog keeps the newest line, and the lines in their order.       *)
THEOREM NewestKept == LogSpec => []TempNewest
<1>1. LogInv => TempNewest
  BY DEF LogInv, InOrder, TempNewest
<1> QED BY <1>1, LogInvariance, PTL
=============================================================================
