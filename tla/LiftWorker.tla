----------------------------- MODULE LiftWorker -----------------------------
(***************************************************************************)
(* The lift worker as a whole: MQTT_Worker/MQTTWorker.cpp, which loads the *)
(* table of its lift blocks, starts the broker and the link to the main    *)
(* server with it and refreshes it every 10 s, composed with both of them  *)
(* (modules MQTTBroker and MSWorker).  All handlers run on one thread.     *)
(*                                                                         *)
(* A lift block stands for its row, of which id and descriptor are one     *)
(* value; the login is a column of its own.                                *)
(***************************************************************************)
EXTENDS Naturals, Sequences, FiniteSets

CONSTANTS
    Lifts, Requests, NoLift, NoRequest, Logins, NoLogin, Topics,
    Login,          \* the column Login of the table LiftBlocks
    MaxChunk, MaxSent, MaxFaults, MaxConn,  \* bounds of the components
    MaxChanges,     \* bound: changes of the data base
    MaxRounds       \* bound: expiries of __update_timer

ASSUME LiftWorkerAssumption ==
    /\ NoLift \notin Lifts /\ NoRequest \notin Requests /\ NoLogin \notin Logins
    /\ Login \in [Lifts -> Logins]
    /\ MaxChunk \in Nat \ {0}
    /\ {MaxSent, MaxFaults, MaxConn, MaxChanges, MaxRounds} \subseteq Nat

VARIABLES
    db,             \* the lift blocks of this worker in the data base
    changes,
    callback,       \* of __client_db: "startWorkers" or "updateData"
    asking,         \* exchanges of __client_db that have not called back
    respData,       \* its __resp_data: the rows of the last answer
    rounds,
    descriptors,    \* keys of __sp_db_map_lb_descriptor
    passwords,      \* keys of __sp_db_map_login_password
    starts,         \* times the broker and the link were started
    moves           \* history: what publish returned for a request's commands

VARIABLES s, buf, json, busy, skewed, known, asked, pings, faults, answered, refused, together

VARIABLES sessions, capacity, conn, logins, down, last

MS == INSTANCE MSWorker

BR == INSTANCE MQTTBroker WITH Controllers <- Lifts, NoName <- NoLift

link == <<s, buf, json, busy, skewed, known, asked, pings, faults, answered, refused, together>>

broker == <<sessions, capacity, conn, logins, down, last>>

loader == <<callback, asking, respData, rounds, descriptors, passwords, starts>>

outside == <<db, changes>>

vars == <<loader, outside, moves, link, broker>>

-----------------------------------------------------------------------------
(* start: __loadDataBase asks for the table; nothing else runs yet.        *)
Init ==
    /\ db \in (SUBSET Lifts) \ {{}}
    /\ changes = 0
    /\ callback = "startWorkers" /\ asking = 1 /\ respData = {} /\ rounds = 0
    /\ descriptors = {} /\ passwords = {} /\ starts = 0
    /\ moves = [q \in Requests |-> <<>>]
    /\ s = MS!NewSocket /\ buf = MS!NoMsg /\ json = <<>>
    /\ known = {} /\ asked = {} /\ answered = {} /\ pings = 0 /\ faults = 0
    /\ busy = FALSE /\ skewed = FALSE /\ refused = FALSE /\ together = FALSE
    /\ sessions = <<>> /\ capacity = 0 /\ conn = <<>> /\ logins = {} /\ down = FALSE
    /\ last = [lift |-> NoLift, found |-> FALSE, delivered |-> FALSE, late |-> FALSE]

(* __updateData; without the table LiftBlocks data.at throws.              *)
UpdateData ==
    /\ respData # {}
    /\ descriptors' = respData
    /\ passwords' = {Login[l] : l \in respData}

(* The worker's handlers run one at a time.                                *)
Runs == ~busy /\ ~down

Called(f) == Runs /\ asking > 0 /\ asking' = asking - 1 /\ callback = f

Untouched == UNCHANGED <<respData, rounds, outside, moves, buf, json, busy, skewed, asked, pings,
                         faults, answered, refused, together, sessions, capacity, conn, down, last>>

\* Mutant of StartWorkers: the exception is caught and the start goes on.
StartWorkersAnyway ==
    /\ Called("startWorkers") /\ Untouched
    /\ UpdateData \/ (respData = {} /\ UNCHANGED <<descriptors, passwords>>)
    /\ starts' = starts + 1
    /\ callback' = "updateData"
    /\ logins' = passwords'
    /\ known' = descriptors' /\ s' = MS!Start(s)

(* __startWorkers.  The broker and the link get copies of the pointers.    *)
StartWorkers ==
    /\ Called("startWorkers") /\ Untouched
    /\ UpdateData /\ starts' = starts + 1
    /\ callback' = "updateData"
    /\ logins' = passwords'
    /\ known' = descriptors' /\ s' = MS!Start(s)

(* __startWorkers without the table returns; nobody asks again.            *)
StartWorkersFails ==
    /\ Called("startWorkers") /\ Untouched
    /\ respData = {}
    /\ UNCHANGED <<callback, descriptors, passwords, starts, s, known, logins>>

(* __updateDataCallback.  An answer that is lost leaves the rows of the    *)
(* one before in __resp_data.                                              *)
UpdateDataCallback ==
    /\ Called("updateData") /\ Untouched
    /\ UpdateData
    /\ UNCHANGED <<callback, starts, s, known, logins>>

(* __updateTimerCallback, armed by __startWorkers and then by itself; it   *)
(* does not wait for the exchange before.                                  *)
UpdateTimer ==
    /\ Runs /\ starts > 0
    /\ rounds < MaxRounds /\ rounds' = rounds + 1
    /\ asking' = asking + 1
    /\ UNCHANGED <<callback, respData, descriptors, passwords, starts, outside, moves, link, broker>>

(* The client's exchange, module ClientDB, has read the rows.              *)
DbAnswers ==
    /\ Runs /\ asking > 0
    /\ respData' = db
    /\ UNCHANGED <<callback, asking, rounds, descriptors, passwords, starts, outside, moves, link, broker>>

Load == StartWorkers \/ StartWorkersFails \/ UpdateDataCallback \/ UpdateTimer \/ DbAnswers

(* moveLift: the broker publishes and the link answers, in one call.       *)
MoveLift ==
    /\ ~down
    /\ MS!Analizes("move")
    /\ LET m == Head(json)
       IN  /\ MS!MoveLift(BR!Found(m.l) # 0)
           /\ BR!Publish(m.l)
           /\ moves' = [moves EXCEPT ![m.q] = Append(@, BR!Found(m.l) # 0)]
    /\ UNCHANGED <<loader, outside>>

Link ==
    /\ ~down
    /\ MS!Handle \/ MS!AnalizeOther \/ MS!Reactor \/ MS!Environment
    /\ UNCHANGED <<loader, outside, moves, broker>>

(* The broker listens once it has been started.                            *)
Broker ==
    /\ Runs /\ starts > 0
    /\ BR!Network
    /\ UNCHANGED <<loader, outside, moves, link>>

-----------------------------------------------------------------------------
(* The main server sends a command for any lift block, also for one that   *)
(* is another worker's: it takes the worker by a position in its list.     *)
ServerMoves(q, l) ==
    /\ MS!ServerMoves(q, l)
    /\ UNCHANGED <<loader, outside, moves, broker>>

DbChanges ==
    /\ changes < MaxChanges /\ changes' = changes + 1
    /\ db' \in (SUBSET Lifts) \ {{}, db}
    /\ UNCHANGED <<loader, moves, link, broker>>

Next ==
    \/ Load \/ MoveLift \/ Link \/ Broker \/ DbChanges
    \/ \E q \in Requests, l \in Lifts : ServerMoves(q, l)

Spec == Init /\ [][Next]_vars

-----------------------------------------------------------------------------
(* Both components and the loader keep their types; one start at most.     *)
TypeOK ==
    /\ MS!TypeOK /\ BR!TypeOK
    /\ {db, respData, descriptors} \subseteq SUBSET Lifts /\ passwords \subseteq Logins
    /\ changes \in 0..MaxChanges /\ rounds \in 0..MaxRounds /\ starts \in 0..1
    /\ callback \in {"startWorkers", "updateData"} /\ asking \in Nat
    /\ moves \in [Requests -> Seq(BOOLEAN)]

(* A request's command is given to publish at most once, through every     *)
(* break of the link, and the answer says what publish returned: success   *)
(* only for a command that went to a session, failure only for one that    *)
(* went to none, so that who asks again does not move the lift twice.      *)
MovedOnce ==
    /\ \A q \in Requests : Len(moves[q]) <= 1
    /\ \A i \in DOMAIN s.toServer :
          LET m == s.toServer[i]
          IN  /\ m.t = "done" => moves[m.q] = <<TRUE>>
              /\ m.t = "failed" => moves[m.q] = <<FALSE>>

(* The composed worker keeps its types, publishes once for a request and   *)
(* reports what came of it.                                                *)
MovesSound == TypeOK /\ MovedOnce

Store == INSTANCE TableStore WITH
    Parts <- {"descriptor", "login"}, Missing <- {},
    store <- [descriptor |-> descriptors, login |-> passwords],
    inUse <- [descriptor |-> known, login |-> logins]

(* The tables are replaced together, and the broker and the link are       *)
(* started once, with a complete set that no refresh changes.              *)
ImplementsTableStore == Store!Spec
=============================================================================
