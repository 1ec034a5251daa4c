------------------------------ MODULE ClientDB ------------------------------
(***************************************************************************)
(* How the main server gets its tables: the client of the data base        *)
(* (GlobalModules/ClientDB/ClientDB.hpp), the load and the refresh that    *)
(* use it (MainServer/MainServer.cpp) and, as its peer, a session of the   *)
(* data base server (DataBase/Modules/Server/DataBaseServer.hpp).          *)
(*                                                                         *)
(* An exchange is: connect, one query per table, disconnect, and then the  *)
(* callback with all tables received so far.  Every error closes the       *)
(* socket and connects anew.  A timer starts an exchange every 30 s,       *)
(* whether the one before has ended or not; both then run on one socket.   *)
(*                                                                         *)
(* Handlers run one at a time in the order their operations completed.     *)
(***************************************************************************)
EXTENDS Naturals, Sequences, SequencesExt

CONSTANTS
    Tables,       \* __table_name: the tables queried, in order
    Fits,         \* <<t, u>>: the fields asked of table t are fields of u
    NoTable,
    MaxRounds,    \* bound: expiries of __update_timer
    MaxVersion,   \* bound: versions of the data base file
    MaxFaults,    \* bound: broken connections and failed statements
    MaxRefused    \* bound: refused connects

TableSet == ToSet(Tables)

ASSUME ConstantsAssumption ==
    /\ Tables \in Seq(TableSet) /\ IsInjective(Tables)
    /\ NoTable \notin TableSet
    /\ Fits \subseteq TableSet \X TableSet
    /\ \A t \in TableSet : <<t, t>> \in Fits
    /\ {MaxRounds, MaxVersion, MaxFaults, MaxRefused} \subseteq Nat /\ MaxVersion # 0

VARIABLES
    c,          \* the ClientDB object, its socket and its connection
    callback,   \* __callback_f: "start" or "update"
    tables,     \* the __sp_db_* of MainServer
    used,       \* the tables the servers were started with
    starts,     \* times the servers were started
    timer,      \* __update_timer is armed
    version,    \* of the data base file
    rounds, faults, refused,
    since,      \* version when the last exchange was begun
    clean,      \* that exchange began alone and met no fault
    overlaps    \* exchanges begun before the last had ended

vars == <<c, callback, tables, used, starts, timer, version, rounds, faults,
          refused, since, clean, overlaps>>

-----------------------------------------------------------------------------
Versions == 1..MaxVersion

Msg == [t : {"none", "connect", "query", "disconnect", "junk",
             "connectOk", "connectFail", "table", "part", "rest"},
        tab : TableSet \cup {NoTable}, ver : 0..MaxVersion]

Plain(t) == [t |-> t, tab |-> NoTable, ver |-> 0]

(* Data: table |-> version and table of origin of its rows; 0 is absent.   *)
Absent == [from |-> NoTable, ver |-> 0]

Data == [TableSet -> [from : TableSet \cup {NoTable}, ver : 0..MaxVersion]]

Nothing == [t \in TableSet |-> Absent]

Ops == {"connect", "send", "receive"}

ClientType ==
    [sock           : {"closed", "opened", "connecting", "connected"},
     pend           : Seq(Ops),                       \* operations in the reactor
     ready          : Seq([op : Ops, ok : BOOLEAN, msg : Msg]),  \* completed
     flagConnet     : BOOLEAN,
     flagDisconnect : BOOLEAN,
     queue          : Seq(TableSet),                  \* __queue_tables
     sent           : TableSet \cup {NoTable},        \* __table_name_send
     buf            : Msg,                            \* __buf_queue_string
     skewed         : BOOLEAN,                        \* temp_bytes_send is not 0
     parser         : {"clean", "partial", "failed"}, \* __parser
     resp           : Data,                           \* __resp_data
     peer           : {"none", "open", "auth", "ended", "deaf"},
     toDb           : Seq(Msg),
     toClient       : Seq(Msg)]

(* The client, its connection and the main server's data keep their types. *)
TypeOK ==
    /\ c \in ClientType
    /\ callback \in {"start", "update"}
    /\ tables \in Data /\ used \in Data
    /\ starts \in Nat
    /\ timer \in BOOLEAN
    /\ version \in Versions
    /\ rounds \in 0..MaxRounds /\ faults \in 0..MaxFaults /\ refused \in 0..MaxRefused
    /\ since \in Versions
    /\ clean \in BOOLEAN
    /\ overlaps \in Nat

-----------------------------------------------------------------------------
(* What the client does, as functions of its state r.                      *)

Completed(r, op, ok, m) ==
    [r EXCEPT !.ready = Append(@, [op |-> op, ok |-> ok, msg |-> m])]

Failed(op) == [op |-> op, ok |-> FALSE, msg |-> Plain("none")]

(* close() aborts the operations that have not completed.                  *)
Stop(r) ==
    IF r.sock = "closed" THEN r
    ELSE [r EXCEPT !.sock = "closed", !.pend = <<>>,
                   !.ready = @ \o [i \in DOMAIN r.pend |-> Failed(r.pend[i])],
                   !.peer = "none", !.toDb = <<>>, !.toClient = <<>>]

(* async_connect opens a closed socket; on one that is connected or        *)
(* connecting it fails (EISCONN, EALREADY).                                *)
Start(r) ==
    LET s == [r EXCEPT !.flagConnet = FALSE, !.flagDisconnect = FALSE]
    IN  IF s.sock \in {"closed", "opened"}
        THEN [s EXCEPT !.sock = "connecting", !.pend = Append(@, "connect")]
        ELSE Completed(s, "connect", FALSE, Plain("none"))

AsyncSend(r, m) ==
    LET s == [r EXCEPT !.buf = m]
    IN  CASE r.sock = "connected" ->
               Completed([s EXCEPT !.toDb = Append(@, m)], "send", TRUE, m)
          [] r.sock = "connecting" -> [s EXCEPT !.pend = Append(@, "send")]
          [] OTHER -> Completed(s, "send", FALSE, m)

AsyncReceive(r) ==
    IF r.sock \in {"connected", "connecting"}
    THEN [r EXCEPT !.pend = Append(@, "receive")]
    ELSE Completed(r, "receive", FALSE, Plain("none"))

\* Mutant of QueryGenerator: the socket is not closed after the callback.
QueryGeneratorNoStop(r) ==
    IF r.flagDisconnect THEN r
    ELSE IF r.queue = <<>> THEN AsyncSend(r, Plain("disconnect"))
    ELSE AsyncSend([r EXCEPT !.sent = Head(r.queue), !.queue = Tail(@)],
                   [t |-> "query", tab |-> Head(r.queue), ver |-> 0])

\* Mutant of QueryGenerator: the name of the table asked for is set once.
QueryGeneratorFirstName(r) ==
    IF r.flagDisconnect THEN Stop(r)
    ELSE IF r.queue = <<>> THEN AsyncSend(r, Plain("disconnect"))
    ELSE AsyncSend([r EXCEPT !.sent = IF @ = NoTable THEN Head(r.queue) ELSE @,
                             !.queue = Tail(@)],
                   [t |-> "query", tab |-> Head(r.queue), ver |-> 0])

(* __queryGenerator, without the call of the callback.                     *)
QueryGenerator(r) ==
    IF r.flagDisconnect THEN Stop(r)
    ELSE IF r.queue = <<>> THEN AsyncSend(r, Plain("disconnect"))
    ELSE AsyncSend([r EXCEPT !.sent = Head(r.queue), !.queue = Tail(@)],
                   [t |-> "query", tab |-> Head(r.queue), ver |-> 0])

CheckConnect(r) ==
    IF r.flagConnet THEN QueryGenerator(r)
    ELSE IF r.flagDisconnect THEN Stop(r)
    ELSE AsyncSend(r, Plain("connect"))

(* __checkConnect comes to the call of the callback.                       *)
CallsBack(r) == r.flagConnet /\ r.flagDisconnect

(* __commandAnalize up to its call of __checkConnect.  The rows of a table *)
(* are kept, under the name of the table asked for last, when they have    *)
(* the fields asked for last.                                              *)
CommandAnalize(r, m) ==
    CASE m.t = "connectOk" -> [r EXCEPT !.flagConnet = TRUE, !.flagDisconnect = FALSE]
      [] m.t \in {"connectFail", "disconnect"} -> [r EXCEPT !.flagDisconnect = TRUE]
      [] m.t \in {"table", "rest"} ->
           IF <<r.sent, m.tab>> \in Fits
           THEN [r EXCEPT !.resp[r.sent] = [from |-> m.tab, ver |-> m.ver]]
           ELSE r

-----------------------------------------------------------------------------
(* MainServer                                                              *)

Complete(data) == \A t \in TableSet : data[t] # Absent

(* __updateData: data.at of all four tables comes before the assignments.  *)
UpdateData(data) == IF Complete(data) THEN data ELSE tables

\* Mutant of StartServers: the servers are started before the tables are set.
StartServersFirst(data) ==
    /\ tables' = UpdateData(data)
    /\ IF Complete(data)
       THEN /\ used' = tables
            /\ starts' = starts + 1
            /\ callback' = "update"
            /\ timer' = TRUE
       ELSE UNCHANGED <<used, starts, callback, timer>>

(* __startServers and __updateDataCallback.                                *)
StartServers(data) ==
    /\ tables' = UpdateData(data)
    /\ IF Complete(data)
       THEN /\ used' = tables'
            /\ starts' = starts + 1
            /\ callback' = "update"
            /\ timer' = TRUE
       ELSE UNCHANGED <<used, starts, callback, timer>>

UpdateDataCallback(data) ==
    /\ tables' = UpdateData(data)
    /\ UNCHANGED <<used, starts, callback, timer>>

Callback(data) ==
    IF callback = "start" THEN StartServers(data) ELSE UpdateDataCallback(data)

NoCallback == UNCHANGED <<callback, tables, used, starts, timer>>

(* __loadDataBase has set the queries and called start().                  *)
NewClient ==
    [sock |-> "closed", pend |-> <<>>, ready |-> <<>>, flagConnet |-> FALSE,
     flagDisconnect |-> FALSE, queue |-> Tables, sent |-> NoTable,
     buf |-> Plain("none"), skewed |-> FALSE, parser |-> "clean",
     resp |-> Nothing, peer |-> "none", toDb |-> <<>>, toClient |-> <<>>]

Init ==
    /\ c = Start(NewClient)
    /\ callback = "start"
    /\ tables = Nothing /\ used = Nothing
    /\ starts = 0
    /\ timer = FALSE
    /\ version = 1 /\ since = 1
    /\ rounds = 0 /\ faults = 0 /\ refused = 0
    /\ clean = TRUE
    /\ overlaps = 0

(* A step of the client or of its connection, and no more.                 *)
Becomes(r) ==
    c' = r /\ UNCHANGED <<version, rounds, faults, refused, since, clean, overlaps>>

Idle == c.pend = <<>> /\ c.ready = <<>>

\* Mutant of UpdateTimer: no queries are set.
UpdateTimerNoQuerys ==
    /\ timer
    /\ rounds < MaxRounds
    /\ rounds' = rounds + 1
    /\ c' = Start(c)
    /\ since' = version
    /\ clean' = Idle
    /\ overlaps' = IF Idle THEN overlaps ELSE overlaps + 1
    /\ UNCHANGED <<version, faults, refused>> /\ NoCallback

(* __updateTimerCallback                                                   *)
UpdateTimer ==
    /\ timer
    /\ rounds < MaxRounds
    /\ rounds' = rounds + 1
    /\ c' = Start([c EXCEPT !.queue = Tables])
    /\ since' = version
    /\ clean' = Idle
    /\ overlaps' = IF Idle THEN overlaps ELSE overlaps + 1
    /\ UNCHANGED <<version, faults, refused>> /\ NoCallback

-----------------------------------------------------------------------------
(* The handlers, in the order their operations completed.                  *)

Popped == [c EXCEPT !.ready = Tail(@)]

Runs(op, ok) == c.ready # <<>> /\ Head(c.ready).op = op /\ Head(c.ready).ok = ok

\* Mutant of HandlerError: the socket is closed and that is all.
HandlerErrorGivesUp ==
    /\ \E op \in Ops : Runs(op, FALSE)
    /\ Becomes(Stop(Popped))
    /\ NoCallback

(* __checkConnect, __sendCommand and __reciveCommand with an error.        *)
HandlerError ==
    /\ \E op \in Ops : Runs(op, FALSE)
    /\ Becomes(Start(Stop(Popped)))
    /\ NoCallback

HandlerConnect ==
    /\ Runs("connect", TRUE)
    /\ Becomes(CheckConnect(Popped))
    /\ IF CallsBack(c) THEN Callback(c.resp) ELSE NoCallback

(* __sendCommand when all is sent.                                         *)
SendCommand ==
    /\ Runs("send", TRUE)
    /\ ~c.skewed /\ Head(c.ready).msg = c.buf
    /\ Becomes(AsyncReceive([Popped EXCEPT !.buf = Plain("none")]))
    /\ NoCallback

(* The exchange of another start() has replaced or cleared the string      *)
(* meanwhile, or left a count in the static variable.  A longer string is  *)
(* sent from where the other ended, if the socket is connected; otherwise  *)
(* the send fails, or the length wraps around, and the count stays.        *)
SendRest ==
    /\ Runs("send", TRUE)
    /\ ~c.skewed /\ c.buf \notin {Head(c.ready).msg, Plain("none")}
    /\ c.sock = "connected"
    /\ Becomes(Completed([Popped EXCEPT !.toDb = Append(@, Plain("junk"))], "send", TRUE, c.buf))
    /\ NoCallback

SendWraps ==
    /\ Runs("send", TRUE)
    /\ c.skewed \/ Head(c.ready).msg # c.buf
    /\ Becomes(Completed([Popped EXCEPT !.skewed = TRUE], "send", FALSE, c.buf))
    /\ NoCallback

(* __reciveCommand: an answer that is not yet complete, or that the parser *)
(* refuses, is waited for; a parser that refused once always refuses.      *)
Parsed(m) ==
    CASE c.parser = "clean" /\ m.t \notin {"part", "junk"} -> "clean"
      [] c.parser = "clean" /\ m.t = "part" -> "partial"
      [] c.parser = "partial" /\ m.t = "rest" -> "clean"
      [] OTHER -> "failed"

ReciveCommand ==
    LET m == Head(c.ready).msg
        r == [Popped EXCEPT !.parser = Parsed(m)]
        a == CommandAnalize(r, m)
    IN  /\ Runs("receive", TRUE)
        /\ \/ /\ Parsed(m) # "clean"
              /\ Becomes(AsyncReceive(r)) /\ NoCallback
           \/ /\ Parsed(m) = "clean"
              /\ Becomes(CheckConnect(a))
              /\ IF CallsBack(a) THEN Callback(a.resp) ELSE NoCallback

-----------------------------------------------------------------------------
(* The reactor: pending operations complete.                               *)

Without(op) == RemoveFirst(c.pend, op)

Waiting(op) == op \in ToSet(c.pend)

Connected ==
    /\ c.sock = "connecting"
    /\ Becomes(Completed([c EXCEPT !.sock = "connected", !.peer = "open",
                                   !.pend = Without("connect")],
                         "connect", TRUE, Plain("none")))
    /\ NoCallback

Refused ==
    /\ c.sock = "connecting"
    /\ refused < MaxRefused /\ refused' = refused + 1
    /\ c' = Completed([c EXCEPT !.sock = "opened", !.pend = Without("connect")],
                      "connect", FALSE, Plain("none"))
    /\ UNCHANGED <<version, rounds, faults, since, clean, overlaps>> /\ NoCallback

(* A send that waited for the connection; on a refused one all fail.  The  *)
(* string may have been replaced or cleared since, and its memory freed.   *)
PendingSend ==
    /\ c.sock = "connected" /\ Waiting("send")
    /\ \E m \in {c.buf, Plain("junk")} \ {Plain("none")} :
          Becomes(Completed([c EXCEPT !.pend = Without("send"), !.toDb = Append(@, m)],
                            "send", TRUE, m))
    /\ NoCallback

PendingFails(op) ==
    /\ op \in {"send", "receive"} /\ Waiting(op)
    /\ \/ c.sock = "opened"
       \/ op = "receive" /\ c.sock = "connected" /\ c.toClient = <<>>
                         /\ c.peer \in {"none", "ended"}
    /\ Becomes(Completed([c EXCEPT !.pend = Without(op)], op, FALSE, Plain("none")))
    /\ NoCallback

(* A receive returns the next answer, the first 2048 bytes of a long one,  *)
(* or everything when several answers have arrived.                        *)
Receive ==
    LET m == Head(c.toClient)
        r == [c EXCEPT !.pend = Without("receive")]
    IN  /\ c.sock = "connected" /\ Waiting("receive") /\ c.toClient # <<>>
        /\ \/ Becomes(Completed([r EXCEPT !.toClient = Tail(@)], "receive", TRUE, m))
           \/ /\ m.t = "table"
              /\ Becomes(Completed([r EXCEPT !.toClient[1].t = "rest"],
                                   "receive", TRUE, Plain("part")))
           \/ /\ Len(c.toClient) > 1
              /\ Becomes(Completed([r EXCEPT !.toClient = <<>>],
                                   "receive", TRUE, Plain("junk")))
        /\ NoCallback

-----------------------------------------------------------------------------
(* The session of the data base server at the other end.                   *)

DbRequest(t) == c.peer \in {"open", "auth"} /\ c.toDb # <<>> /\ Head(c.toDb).t = t

Answered(m, p) == [c EXCEPT !.toDb = Tail(@), !.peer = p, !.toClient = Append(@, m)]

Silent(p) == [c EXCEPT !.toDb = Tail(@), !.peer = p]

Fault ==
    /\ faults < MaxFaults
    /\ faults' = faults + 1
    /\ clean' = FALSE
    /\ UNCHANGED <<version, rounds, refused, since, overlaps>>

(* __connectAnalize and __checkConnect; a second connect is answered only  *)
(* when it arrives together with the first.  The accounts may be unreadable*)
DbConnect ==
    /\ DbRequest("connect")
    /\ \/ Becomes(Answered(Plain("connectOk"), "auth"))
       \/ c.peer = "auth" /\ Becomes(Silent("auth"))
       \/ c.peer = "open" /\ Fault /\ c' = Answered(Plain("connectFail"), "ended")
    /\ NoCallback

(* __makeQuery; what cannot be queried is answered with a disconnect.      *)
(* Before the connect nothing else is answered.                            *)
DbQuery ==
    /\ DbRequest("query")
    /\ \/ c.peer = "open" /\ Becomes(Silent("open"))
       \/ c.peer = "auth" /\ Becomes(Answered([t |-> "table", tab |-> Head(c.toDb).tab,
                                               ver |-> version], "auth"))
       \/ c.peer = "auth" /\ Fault /\ c' = Answered(Plain("disconnect"), "ended")
    /\ NoCallback

DbDisconnect ==
    /\ DbRequest("disconnect")
    /\ Becomes(IF c.peer = "auth" THEN Answered(Plain("disconnect"), "ended")
               ELSE Silent("open"))
    /\ NoCallback

(* The parser of the session never recovers from bytes that are not JSON.  *)
DbJunk ==
    /\ DbRequest("junk")
    /\ Becomes(Silent("deaf"))
    /\ NoCallback

(* The data base process ends, or the connection is reset.                 *)
Break ==
    /\ c.sock = "connected" /\ c.peer # "none"
    /\ Fault
    /\ c' = [c EXCEPT !.peer = "none", !.toDb = <<>>, !.toClient = <<>>]
    /\ NoCallback

(* The tables are edited.                                                  *)
DbChanges ==
    /\ version < MaxVersion
    /\ version' = version + 1
    /\ UNCHANGED <<c, rounds, faults, refused, since, clean, overlaps>> /\ NoCallback

-----------------------------------------------------------------------------
Handler ==
    \/ HandlerError \/ HandlerConnect \/ SendCommand \/ SendRest \/ SendWraps
    \/ ReciveCommand

Reactor ==
    \/ Connected \/ PendingSend \/ Receive
    \/ \E op \in Ops : PendingFails(op)

Session == DbConnect \/ DbQuery \/ DbDisconnect \/ DbJunk

Next == UpdateTimer \/ Handler \/ Reactor \/ Refused \/ Session \/ Break \/ DbChanges

Spec == Init /\ [][Next]_vars

(* Queued handlers run, the reactor reports what has happened, and the     *)
(* data base server, which serves each session from its own handlers,      *)
(* answers what it has received.                                           *)
Fairness == WF_vars(Handler) /\ WF_vars(Reactor) /\ WF_vars(Session)

FairSpec == Spec /\ Fairness

-----------------------------------------------------------------------------
(* Properties                                                              *)

(* The servers are started at most once, however many exchanges end with   *)
(* a callback: a second start would accept on the same ports twice.        *)
StartedOnce == starts <= 1

(* The tables of the main server are all there or all missing, whatever    *)
(* part of them the exchanges have brought: no station refers to a worker  *)
(* table that was never loaded.  So are the ones the servers use.          *)
AllOrNothing ==
    \A d \in {tables, used} : Complete(d) \/ d = Nothing

(* When no operation of the client is left, its socket is closed: an       *)
(* exchange cannot die and leave a session open in the data base server.   *)
IdleIsClosed == Idle => c.sock = "closed"

(* However exchanges overlap and break off, the client and the tables keep *)
(* their types, the servers start once, with all tables, and no session is *)
(* left open.                                                              *)
ExchangeSound == TypeOK /\ StartedOnce /\ AllOrNothing /\ IdleIsClosed

(* An exchange that began alone, met no fault and has ended installed the  *)
(* rows of its own time, from the right tables.                            *)
FreshInstall ==
    Idle /\ clean =>
        \A t \in TableSet : tables[t].from = t /\ tables[t].ver >= since

(* Rows are kept under the name of the table they come from, even though   *)
(* two exchanges share __table_name_send and the rows of one table have    *)
(* all the fields asked of another.  Of the fields the main server asks    *)
(* for, only those of WorkerMarussia, its first query, are fields of other *)
(* tables too: then it takes a fourth exchange, begun while three others   *)
(* are still under way, to mix rows up.  If the fields of every table were *)
(* fields of every other, a third exchange could.                          *)
RightTable ==
    overlaps <= 2 => \A t \in TableSet : c.resp[t].from \in {t, NoTable}

(* An exchange that runs alone and meets no fault comes to its end, and    *)
(* then the servers run: refused connects are tried again and lose no      *)
(* query.  A client whose count or parser an earlier exchange has spoilt   *)
(* never ends one again.                                                   *)
Spoilt == c.skewed \/ c.parser # "clean"

ExchangeEnds == clean /\ ~Spoilt ~> ~clean \/ (Idle /\ starts = 1)

Store == INSTANCE TableStore WITH
    Parts <- TableSet, Missing <- Absent, store <- tables, inUse <- used

(* The main server's tables are a TableStore: a complete set is installed  *)
(* at once, the servers are started once with it, and a refresh, however   *)
(* exchanges overlap and fail, replaces the set as a whole or not at all.  *)
ImplementsTableStore == Store!Spec
=============================================================================
