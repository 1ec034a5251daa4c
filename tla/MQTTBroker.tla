----------------------------- MODULE MQTTBroker -----------------------------
(***************************************************************************)
(* The MQTT broker of the lift worker, to which the lift controllers       *)
(* connect: MQTT_Worker/Modules/MQTTBroker/MQTTBroker.cpp.                 *)
(*                                                                         *)
(* Sessions are elements of a std::vector and are never erased, so session *)
(* number i belongs to connection number i.  The handlers of a connection  *)
(* capture the address of their session when it is put into the vector.    *)
(* When the vector grows beyond its capacity the sessions are copied and   *)
(* the captured addresses are those of freed memory: what such a handler   *)
(* does then never reaches the copy in the vector, or ends the process.    *)
(***************************************************************************)
EXTENDS Naturals, Sequences, SequencesExt

CONSTANTS
    Controllers,    \* the lift controllers, by the number in their client id
    Logins,         \* the user names they may log in with
    NoName,         \* the name ""
    NoLogin,        \* of a connection that was not accepted
    Topics,
    MaxConn         \* bound: connections that are accepted

ASSUME BrokerAssumption ==
    NoName \notin Controllers /\ NoLogin \notin Logins /\ MaxConn \in Nat

VARIABLES
    sessions,   \* __mqtt_sessions
    capacity,   \* of that vector
    conn,       \* the connections
    logins,     \* the keys of __sp_db_map_login_password
    down,       \* the process has crashed
    last        \* history: the last publish

vars == <<sessions, capacity, conn, logins, down, last>>

-----------------------------------------------------------------------------
SessionType == [name : Controllers \cup {NoName}, live : BOOLEAN]

ConnType ==
    [who    : Controllers,
     login  : Logins \cup {NoLogin},   \* the user name it was accepted with
     link   : {"tcp", "mqtt", "stuck", "closed"},   \* as the broker knows it
     peer   : {"up", "left", "gone"},   \* closed by the controller, or lost
     bound  : BOOLEAN,        \* the handlers' this is the element in the vector
     astray : BOOLEAN,        \* history: a handler ran on freed memory
     subs   : SUBSET Topics]  \* *__subs, which the copies of a session share

PublishType ==
    [lift : Controllers \cup {NoName}, found : BOOLEAN, delivered : BOOLEAN,
     late : BOOLEAN]          \* that connection had ended, unknown to the broker

NewSession == [name |-> NoName, live |-> TRUE]

NewConn(k) == [who |-> k, login |-> NoLogin, link |-> "tcp", peer |-> "up",
               bound |-> TRUE, astray |-> FALSE, subs |-> {}]

Init ==
    /\ sessions = <<>> /\ capacity = 0 /\ conn = <<>>
    /\ logins \in SUBSET Logins
    /\ down = FALSE
    /\ last = [lift |-> NoName, found |-> FALSE, delivered |-> FALSE, late |-> FALSE]

-----------------------------------------------------------------------------
(* push_back copies all elements when the vector is full.                  *)
Grown == IF capacity = 0 THEN 1 ELSE 2 * capacity

Present(k) ==
    \E i \in DOMAIN conn :
        conn[i].who = k /\ conn[i].link # "closed" /\ conn[i].peer = "up"

(* The accept handler.  A controller has one connection at a time, and may *)
(* come back before the broker knows that the last one has ended.          *)
Accept(k) ==
    LET full == Len(sessions) = capacity
        old  == IF full THEN [i \in DOMAIN conn |-> [conn[i] EXCEPT !.bound = FALSE]] ELSE conn
    IN  /\ ~down /\ ~Present(k) /\ Len(conn) < MaxConn
        /\ capacity' = IF full THEN Grown ELSE capacity
        /\ sessions' = Append(sessions, NewSession)
        /\ conn' = Append(old, NewConn(k))
        /\ UNCHANGED <<logins, down, last>>

(* The handler of connection i leaves session r and connection c.          *)
Handled(i, r, c) ==
    /\ sessions' = [sessions EXCEPT ![i] = r]
    /\ conn' = [conn EXCEPT ![i] = c]
    /\ UNCHANGED <<capacity, logins, down, last>>

(* A handler of connection i whose this is freed memory: the connection    *)
(* gets to one of the given states, or the process crashes.                *)
Astray(i, links) ==
    /\ ~conn[i].bound
    /\ \/ \E l \in links : conn' = [conn EXCEPT ![i].link = l, ![i].astray = TRUE] /\ UNCHANGED down
       \/ down' = TRUE /\ UNCHANGED conn
    /\ UNCHANGED <<sessions, capacity, logins, last>>

(* What a controller sent before it left is still read.                    *)
Hears(i, links) == ~down /\ i \in DOMAIN conn /\ conn[i].link \in links

\* Mutant of ConnectHandler: connack is sent and the name is not kept.
ConnectHandlerNameless(i, u) ==
    /\ Hears(i, {"tcp"})
    /\ \/ /\ conn[i].bound
          /\ IF u \in logins
             THEN Handled(i, sessions[i], [conn[i] EXCEPT !.link = "mqtt", !.login = u])
             ELSE Handled(i, [sessions[i] EXCEPT !.live = FALSE], [conn[i] EXCEPT !.link = "stuck"])
       \/ Astray(i, {"mqtt", "stuck"})

(* The connect handler looks the user name up in the table and names the   *)
(* session by the number in the client id; it never compares the two.      *)
(* Otherwise it returns FALSE, and nothing is read from the connection any *)
(* more.  Every client id has the form of a controller's.                  *)
ConnectHandler(i, u) ==
    /\ Hears(i, {"tcp"})
    /\ \/ /\ conn[i].bound
          /\ IF u \in logins
             THEN Handled(i, [sessions[i] EXCEPT !.name = conn[i].who],
                          [conn[i] EXCEPT !.link = "mqtt", !.login = u])
             ELSE Handled(i, [sessions[i] EXCEPT !.live = FALSE], [conn[i] EXCEPT !.link = "stuck"])
       \/ Astray(i, {"mqtt", "stuck"})

\* Mutant of CloseProc: the name is kept.
CloseProcKeepsName(i) ==
    \/ /\ conn[i].bound
       /\ Handled(i, [sessions[i] EXCEPT !.live = FALSE],
                  [conn[i] EXCEPT !.link = "closed", !.subs = {}])
    \/ Astray(i, {"closed"})

(* __closeProc *)
CloseProc(i) ==
    \/ /\ conn[i].bound
       /\ Handled(i, [sessions[i] EXCEPT !.name = NoName, !.live = FALSE],
                  [conn[i] EXCEPT !.link = "closed", !.subs = {}])
    \/ Astray(i, {"closed"})

(* The controller closes the connection, with or without a disconnect      *)
(* packet, and the handler is called later, when all before was read.      *)
CloseHandler(i) == Hears(i, {"tcp", "mqtt"}) /\ conn[i].peer = "left" /\ CloseProc(i)

DisconnectHandler(i) == Hears(i, {"mqtt"}) /\ CloseProc(i)

(* The connection is reset, or TCP gives a vanished controller up.         *)
ErrorHandler(i) == Hears(i, {"tcp", "mqtt"}) /\ CloseProc(i)

SubscribeHandler(i, t) ==
    /\ Hears(i, {"mqtt"})
    /\ \/ conn[i].bound /\ Handled(i, sessions[i], [conn[i] EXCEPT !.subs = @ \cup {t}])
       \/ Astray(i, {"mqtt"})

UnsubscribeHandler(i, t) ==
    /\ Hears(i, {"mqtt"})
    /\ \/ conn[i].bound /\ Handled(i, sessions[i], [conn[i] EXCEPT !.subs = @ \ {t}])
       \/ Astray(i, {"mqtt"})

(* The controller closes the connection, also one that was not accepted    *)
(* and from which nothing is read; or it loses its power or network.       *)
Leaves(i, peer) ==
    /\ Hears(i, {"tcp", "mqtt", "stuck"}) /\ conn[i].peer = "up"
    /\ Handled(i, sessions[i], [conn[i] EXCEPT !.peer = peer])

-----------------------------------------------------------------------------
Named(l) == {i \in DOMAIN sessions : sessions[i].name = l}

First(S) == CHOOSE i \in S : \A j \in S : i <= j

Open(i) == conn[i].link = "mqtt" /\ conn[i].peer = "up"

(* publish takes the first session of that name, live or not.              *)
Found(l) == IF Named(l) = {} THEN 0 ELSE First(Named(l))

(* async_publish reports a failure to nobody: publish returns TRUE.        *)
Publish(l) ==
    /\ ~down
    /\ last' = LET i == Found(l)
               IN  [lift |-> l, found |-> i # 0,
                    delivered |-> i # 0 /\ Open(i) /\ conn[i].who = l,
                    late |-> i # 0 /\ conn[i].peer # "up"]
    /\ UNCHANGED <<sessions, capacity, conn, logins, down>>

-----------------------------------------------------------------------------
Session(i) ==
    \/ \E u \in Logins : ConnectHandler(i, u)
    \/ CloseHandler(i) \/ DisconnectHandler(i) \/ ErrorHandler(i)
    \/ \E peer \in {"left", "gone"} : Leaves(i, peer)
    \/ \E t \in Topics : SubscribeHandler(i, t) \/ UnsubscribeHandler(i, t)

Network ==
    \/ \E k \in Controllers : Accept(k)
    \/ \E i \in DOMAIN conn : Session(i)

Next == Network \/ \E l \in Controllers : Publish(l)

Spec == Init /\ [][Next]_vars

-----------------------------------------------------------------------------
(* One connection per session, all of their types, within the capacity.    *)
TypeOK ==
    /\ sessions \in Seq(SessionType) /\ conn \in Seq(ConnType)
    /\ Len(conn) = Len(sessions) /\ capacity \in Nat /\ Len(sessions) <= capacity
    /\ logins \subseteq Logins /\ down \in BOOLEAN /\ last \in PublishType

(* A session has a name only while its connection is an accepted one, and  *)
(* it is that of the controller: __closeProc takes it away on every way a  *)
(* connection can end.  The exception is a session whose handler ran on    *)
(* freed memory.                                                           *)
NamedIsConnected ==
    \A i \in DOMAIN sessions :
        sessions[i].name # NoName =>
            /\ sessions[i].name = conn[i].who /\ conn[i].login \in logins
            /\ conn[i].link = "mqtt" \/ conn[i].astray

(* The broker knows where connection i of a controller stands: no end of   *)
(* it waits for its handler, and no handler ran on freed memory.           *)
Known(i) == ~conn[i].astray /\ (conn[i].link = "mqtt" => conn[i].peer = "up")

(* A command for a lift reaches the controller's current connection, after *)
(* any number of reconnects, when the ends of its former ones have been    *)
(* handled and no handler of theirs ran on freed memory.                   *)
ReachesCurrent ==
    \A i \in DOMAIN conn :
        LET k == conn[i].who
        IN  Open(i) /\ (\A j \in DOMAIN conn : conn[j].who = k => Known(j)) => Found(k) = i

(* What MQTTWorker::moveLift reports as "Publish: Success" was given to an *)
(* open connection of the lift's controller, with the same exceptions: the *)
(* end of the connection had not been handled, or a handler of one of the  *)
(* controller's ran on freed memory and the name stayed with a closed one. *)
SuccessIsDelivered ==
    last.found =>
        \/ last.delivered \/ last.late
        \/ \E i \in DOMAIN conn : conn[i].who = last.lift /\ conn[i].astray

(* A command reaches the lift it is for, and what is reported as a success *)
(* was delivered, with the exceptions of the two parts.                    *)
CommandsReach == ReachesCurrent /\ SuccessIsDelivered
=============================================================================
