--------------------------- MODULE DataBaseServer ---------------------------
(***************************************************************************)
(* The data base server, DataBase/Modules/Server/DataBaseServer.hpp: the   *)
(* sessions (class DataBase) and the server that accepts and erases them.  *)
(*                                                                         *)
(* A session has at most one operation at a time, named by op.  Errors are *)
(* tried again after a pause, on whatever socket is left, so a session     *)
(* whose socket is closed or whose client is gone may go on for ever.      *)
(***************************************************************************)
EXTENDS Naturals, Sequences, SequencesExt

CONSTANTS
    Conns,          \* connections
    Nobody,         \* no session
    MaxQueries      \* bound: queries of a client

ASSUME ConstantsAssumption == Nobody \notin Conns /\ MaxQueries \in Nat

VARIABLES
    sess,       \* the sessions and their connections
    sessions,   \* __sessions
    tempSend,   \* whose bytes the static temp_send of __sendCommand counts
    skewed,     \* temp_send counts bytes of two sessions
    down        \* the process has crashed

vars == <<sess, sessions, tempSend, skewed, down>>

-----------------------------------------------------------------------------
Ops == {"none", "connectAnalize", "resAutentification", "waitCommand", "sendCommand"}

SessionType ==
    [op         : Ops,                                     \* what is awaited
     buf        : {"none", "ok", "fail", "table", "bye"},  \* __buf_send
     flagWrong  : BOOLEAN,                                 \* __flag_wrong_connect
     flagSend   : BOOLEAN,                                 \* __flag_send
     flagExit   : BOOLEAN,                                 \* __flag_exit
     open       : BOOLEAN,                                 \* __socket->is_open()
     stopFailed : BOOLEAN,                                 \* history: stop() threw
     good       : BOOLEAN,                                 \* the client's password is right
     client     : {"none", "new", "waiting", "ready", "closed"},
     toDb       : {"none", "connect", "query", "disconnect"},
     got        : SUBSET {"ok", "fail", "table", "bye"},   \* history: replies
     queries    : 0..MaxQueries]

NewSession ==
    [op |-> "none", buf |-> "none", flagWrong |-> FALSE, flagSend |-> FALSE,
     flagExit |-> FALSE, open |-> FALSE, stopFailed |-> FALSE, good |-> FALSE,
     client |-> "none", toDb |-> "none", got |-> {}, queries |-> 0]

Init ==
    /\ sess = [c \in Conns |-> NewSession]
    /\ sessions = <<>>
    /\ tempSend = Nobody
    /\ skewed = FALSE /\ down = FALSE

Becomes(c, r) ==
    sess' = [sess EXCEPT ![c] = r] /\ UNCHANGED <<sessions, tempSend, skewed, down>>

Crashes == down' = TRUE /\ UNCHANGED <<sess, sessions, tempSend, skewed>>

(* stop(): shutdown() throws on a closed socket, and may throw on one that *)
(* the client has closed; then nothing is closed and __flag_exit not set.  *)
Stops(r) ==
    LET stopped == [r EXCEPT !.open = FALSE, !.flagExit = TRUE]
        failed  == [r EXCEPT !.stopFailed = TRUE]
    IN  IF ~r.open THEN {failed}
        ELSE IF r.client = "closed" THEN {stopped, failed}
        ELSE {stopped}

Await(r, op) == [r EXCEPT !.op = op]

-----------------------------------------------------------------------------
(* The clients: ClientDB.hpp.  A client begins with a connect and sends    *)
(* one message at a time; it may close at any moment.                      *)

Connects(c, good) ==
    /\ sess[c].client = "none" /\ ~down
    /\ Becomes(c, [NewSession EXCEPT !.client = "new", !.good = good, !.open = TRUE])

ClientSends(c, m) ==
    LET r == sess[c]
    IN  /\ \/ r.client = "new" /\ m = "connect"
           \/ r.client = "ready" /\ m \in {"query", "disconnect"}
        /\ m = "query" => r.queries < MaxQueries
        /\ Becomes(c, [r EXCEPT !.client = "waiting", !.toDb = m,
                                !.queries = IF m = "query" THEN @ + 1 ELSE @])

ClientCloses(c) ==
    /\ sess[c].client \in {"new", "waiting", "ready"}
    /\ Becomes(c, [sess[c] EXCEPT !.client = "closed"])

-----------------------------------------------------------------------------
(* The server.                                                             *)

(* start() without a data base file ends at once.                          *)
Started(r) == {Await(r, "connectAnalize")} \cup Stops(r)

Accept(c) ==
    /\ ~down
    /\ sess[c].client # "none" /\ c \notin ToSet(sessions)
    /\ sess[c].op = "none" /\ sess[c].open /\ ~sess[c].flagExit
    /\ \E r \in Started(sess[c]) : sess' = [sess EXCEPT ![c] = r]
    /\ sessions' = Append(sessions, c)
    /\ UNCHANGED <<tempSend, skewed, down>>

(* After an accept error the handler goes on with a socket that is not     *)
(* open; that it then accepts twice makes no difference here.              *)
AcceptError(c) ==
    /\ ~down
    /\ sess[c].client = "none"
    /\ \E r \in Started([NewSession EXCEPT !.client = "closed"]) : sess' = [sess EXCEPT ![c] = r]
    /\ sessions' = Append(sessions, c)
    /\ UNCHANGED <<tempSend, skewed, down>>

Exited == {i \in DOMAIN sessions : sess[sessions[i]].flagExit}

(* __resetTimer erases while it goes on to the old end: unless the session *)
(* erased is the last one, the loop comes to a pointer that was moved from *)
(* and calls getFlagExit() on null.                                        *)
ResetTimer ==
    /\ ~down /\ Exited # {}
    /\ IF Exited = {Len(sessions)}
       THEN /\ sessions' = SubSeq(sessions, 1, Len(sessions) - 1)
            /\ UNCHANGED <<sess, tempSend, skewed, down>>
       ELSE Crashes

-----------------------------------------------------------------------------
(* The handlers of a session.                                              *)

Ready(c, op) == ~down /\ sess[c].op = op

Broken(r) == ~r.open \/ r.client = "closed"

(* A receive fails on a closed socket and when the client has closed: the  *)
(* same receive is armed again, after a pause.                             *)
ReceiveAgain(c) ==
    /\ Ready(c, "connectAnalize") \/ Ready(c, "waitCommand")
    /\ Broken(sess[c]) /\ sess[c].toDb = "none"
    /\ UNCHANGED vars

(* A send fails on a closed socket, and may fail when the client has       *)
(* closed: the same send is armed again, after a pause.                    *)
SendAgain(c) ==
    /\ Ready(c, "resAutentification") \/ Ready(c, "sendCommand")
    /\ Broken(sess[c])
    /\ UNCHANGED vars

(* __connectAnalize with __checkConnect.  A login that is not in the table *)
(* makes it read the password at -1: a mismatch, or the end of the         *)
(* process.  Accounts has at least one row.                                *)
ConnectAnalize(c) ==
    LET r == [sess[c] EXCEPT !.toDb = "none", !.op = "resAutentification", !.flagSend = TRUE]
    IN  /\ Ready(c, "connectAnalize") /\ r.open /\ sess[c].toDb = "connect"
        /\ \/ r.good /\ Becomes(c, [r EXCEPT !.buf = "ok"])
           \/ Becomes(c, [r EXCEPT !.buf = "fail", !.flagWrong = TRUE])
           \/ ~r.good /\ Crashes

(* The reply in __buf_send reaches the client.                             *)
Sent(r) ==
    [r EXCEPT !.buf = "none",
              !.got = @ \cup {r.buf}, !.client = IF @ = "waiting" THEN "ready" ELSE @]

\* Mutant of ResAutentification: only a client that is accepted is waited for,
\* but __flag_send has been taken back.
ResAutentificationDeaf(c) ==
    LET r == Sent(sess[c])
        next(x) == Await([x EXCEPT !.flagSend = FALSE], "none")
    IN  /\ Ready(c, "resAutentification") /\ r.open
        /\ IF r.flagWrong
           THEN \E x \in Stops(r) : Becomes(c, next([x EXCEPT !.flagWrong = FALSE]))
           ELSE Becomes(c, next(r))

(* __resAutentification: after stop() it goes on and arms a receive.       *)
ResAutentification(c) ==
    LET r == Sent(sess[c])
        next(x) == Await([x EXCEPT !.flagSend = FALSE], "waitCommand")
    IN  /\ Ready(c, "resAutentification") /\ r.open
        /\ IF r.flagWrong
           THEN \E x \in Stops(r) : Becomes(c, next([x EXCEPT !.flagWrong = FALSE]))
           ELSE Becomes(c, next(r))

\* Mutant of WaitCommand: a failed statement is given up without an answer.
WaitCommandSilent(c) ==
    LET r == [sess[c] EXCEPT !.toDb = "none", !.op = "sendCommand", !.flagSend = TRUE]
        bye == [r EXCEPT !.buf = "bye", !.flagWrong = TRUE]
    IN  /\ Ready(c, "waitCommand") /\ r.open
        /\ \/ sess[c].toDb = "disconnect" /\ Becomes(c, bye)
           \/ /\ sess[c].toDb = "query"
              /\ \/ Becomes(c, [r EXCEPT !.buf = "table"])
                 \/ Becomes(c, [sess[c] EXCEPT !.toDb = "none"])
                 \/ Crashes

(* __waitCommand, __checkCommand, __makeQuery, __makeDisconnect.  A failed *)
(* statement is answered like a disconnect; a query without rows throws    *)
(* out of the handler and ends the process.                                *)
WaitCommand(c) ==
    LET r == [sess[c] EXCEPT !.toDb = "none", !.op = "sendCommand", !.flagSend = TRUE]
        bye == [r EXCEPT !.buf = "bye", !.flagWrong = TRUE]
    IN  /\ Ready(c, "waitCommand") /\ r.open
        /\ \/ sess[c].toDb = "disconnect" /\ Becomes(c, bye)
           \/ /\ sess[c].toDb = "query"
              /\ Becomes(c, [r EXCEPT !.buf = "table"]) \/ Becomes(c, bye) \/ Crashes


(* __sendCommand when all is sent.                                         *)
SendCommand(c) ==
    LET r == Sent(sess[c])
    IN  /\ Ready(c, "sendCommand") /\ r.open /\ ~skewed /\ tempSend \in {c, Nobody}
        /\ tempSend' = Nobody
        /\ \E x \in IF r.flagWrong
                    THEN {Await(y, "none") : y \in Stops([r EXCEPT !.flagWrong = FALSE])}
                    ELSE {Await(r, "waitCommand")} :
              sess' = [sess EXCEPT ![c] = x]
        /\ UNCHANGED <<sessions, skewed, down>>

(* Only a part of a long answer is sent: temp_send keeps its length.       *)
SendPart(c) ==
    /\ Ready(c, "sendCommand") /\ sess[c].open /\ sess[c].buf = "table"
    /\ ~skewed /\ tempSend = Nobody
    /\ tempSend' = c
    /\ UNCHANGED <<sess, sessions, skewed, down>>

(* The count is another session's: the rest that is sent lies outside the  *)
(* buffer, and from then on no send of any session is ever complete.       *)
SendSkews(c) ==
    /\ Ready(c, "sendCommand") /\ sess[c].open
    /\ skewed \/ tempSend \notin {c, Nobody}
    /\ skewed' = TRUE
    /\ UNCHANGED <<sess, sessions, tempSend, down>>

-----------------------------------------------------------------------------
Client(c) ==
    \/ \E good \in BOOLEAN : Connects(c, good)
    \/ \E m \in {"connect", "query", "disconnect"} : ClientSends(c, m)
    \/ ClientCloses(c)

Handler(c) ==
    \/ ConnectAnalize(c) \/ ResAutentification(c) \/ WaitCommand(c) \/ SendCommand(c)

Retry(c) == ReceiveAgain(c) \/ SendAgain(c) \/ SendPart(c) \/ SendSkews(c)

Next ==
    \/ ResetTimer
    \/ \E c \in Conns : Client(c) \/ Accept(c) \/ AcceptError(c) \/ Handler(c) \/ Retry(c)

Spec == Init /\ [][Next]_vars

(* The timer expires again and again, and the handler of a completed       *)
(* operation runs; nothing is assumed of the clients.                      *)
FairSpec == Spec /\ WF_vars(ResetTimer) /\ \A c \in Conns : WF_vars(Handler(c))

-----------------------------------------------------------------------------
(* Every session and the vector of sessions keep their types.              *)
TypeOK ==
    /\ sess \in [Conns -> SessionType]
    /\ sessions \in Seq(Conns)
    /\ tempSend \in Conns \cup {Nobody}
    /\ skewed \in BOOLEAN /\ down \in BOOLEAN

(* A table is sent only to a client that has been accepted: a session that *)
(* was refused goes on to wait for commands (the receive after stop()), on *)
(* a socket from which none can come.                                      *)
TablesForAccepted == \A c \in Conns : "table" \in sess[c].got => "ok" \in sess[c].got

(* A session that has not ended has an operation whose handler goes on;    *)
(* only one whose stop() threw is left with none, and is never erased.     *)
NeverStranded ==
    \A c \in ToSet(sessions) :
        sess[c].op = "none" => sess[c].flagExit \/ sess[c].stopFailed

(* A session that ended after a disconnect or a failed statement is quiet: *)
(* only those of refused clients go on, on their closed sockets.           *)
EndedIsQuiet ==
    \A c \in Conns : sess[c].flagExit /\ sess[c].op # "none" => "fail" \in sess[c].got

(* Sessions keep their types, serve only accepted clients, and have an     *)
(* operation exactly as long as they have to go on, with the exceptions    *)
(* of the parts.                                                           *)
SessionsSound == TypeOK /\ TablesForAccepted /\ NeverStranded /\ EndedIsQuiet

(* A client that waits on an open session is answered, whatever the other  *)
(* sessions do with the byte count they share, unless two counts got mixed *)
(* up or the process has ended: a long answer that is sent in parts, of    *)
(* this session or of another, costs no other client its answer.           *)
ClientAnswered ==
    \A c \in Conns :
        c \in ToSet(sessions) /\ sess[c].open /\ sess[c].client = "waiting" ~>
            sess[c].client # "waiting" \/ skewed \/ down

=============================================================================
