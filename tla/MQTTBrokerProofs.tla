-------------------------- MODULE MQTTBrokerProofs --------------------------
(***************************************************************************)
(* What holds of the broker for any controllers, tables and number of      *)
(* connections, however often the vector of sessions grows.                *)
(***************************************************************************)
EXTENDS MQTTBroker, WellFoundedInduction, TLAPS

(* NamedIsConnected for one session r and its connection c.                *)
Good(r, c) ==
    r.name # NoName =>
        /\ r.name = c.who /\ c.login \in logins
        /\ c.link = "mqtt" \/ c.astray

IInv == TypeOK /\ NamedIsConnected

(* The sessions and the connections are as long as each other, so that a   *)
(* handler of a connection finds its session.                              *)
LEMMA Indexed ==
    ASSUME IInv, NEW i \in DOMAIN conn
    PROVE  /\ i \in DOMAIN sessions
           /\ sessions[i] \in SessionType /\ conn[i] \in ConnType
           /\ Good(sessions[i], conn[i])
<1>1. DOMAIN conn = 1..Len(conn) /\ DOMAIN sessions = 1..Len(sessions) /\ Len(conn) = Len(sessions)
  BY DEF IInv, TypeOK
<1>2. i \in DOMAIN sessions
  BY <1>1
<1> QED BY <1>2 DEF IInv, TypeOK, NamedIsConnected, Good

(* A handler that leaves a good session and connection keeps the invariant.*)
LEMMA HandledKeeps ==
    ASSUME IInv, NEW i \in DOMAIN conn, NEW r \in SessionType, NEW c \in ConnType,
           Good(r, c), Handled(i, r, c)
    PROVE  IInv'
<1>1. i \in DOMAIN sessions
  BY Indexed
<1>2. sessions' \in Seq(SessionType) /\ conn' \in Seq(ConnType)
  BY DEF IInv, TypeOK, Handled
<1>3. Len(conn') = Len(conn) /\ Len(sessions') = Len(sessions)
  BY DEF IInv, TypeOK, Handled
<1>4. TypeOK'
  BY <1>2, <1>3 DEF IInv, TypeOK, Handled
<1>5. ASSUME NEW j \in DOMAIN sessions'
      PROVE  (sessions'[j].name # NoName =>
                /\ sessions'[j].name = conn'[j].who /\ conn'[j].login \in logins'
                /\ conn'[j].link = "mqtt" \/ conn'[j].astray)
  <2>1. j \in DOMAIN sessions /\ j \in DOMAIN conn
    BY <1>3, <1>2 DEF IInv, TypeOK
  <2>2. CASE j = i
    <3>1. sessions'[j] = r /\ conn'[j] = c /\ logins' = logins
      BY <2>1, <2>2, <1>1 DEF Handled
    <3> QED BY <3>1 DEF Good
  <2>3. CASE j # i
    <3>1. sessions'[j] = sessions[j] /\ conn'[j] = conn[j] /\ logins' = logins
      BY <2>1, <2>3 DEF Handled
    <3> QED BY <2>1, <3>1, Indexed DEF Good
  <2> QED BY <2>2, <2>3
<1> QED BY <1>4, <1>5 DEF IInv, NamedIsConnected

(* A handler on freed memory leaves the session in the vector alone and    *)
(* marks its connection.                                                   *)
LEMMA AstrayKeeps ==
    ASSUME IInv, NEW i \in DOMAIN conn, NEW links,
           links \subseteq {"tcp", "mqtt", "stuck", "closed"}, Astray(i, links)
    PROVE  IInv'
<1>1. CASE UNCHANGED conn /\ down' = TRUE
  BY <1>1 DEF IInv, TypeOK, NamedIsConnected, Astray
<1>2. CASE \E l \in links : conn' = [conn EXCEPT ![i].link = l, ![i].astray = TRUE] /\ UNCHANGED down
  <2>1. PICK l \in links : conn' = [conn EXCEPT ![i].link = l, ![i].astray = TRUE] /\ UNCHANGED down
    BY <1>2
  <2> DEFINE c == [conn[i] EXCEPT !.link = l, !.astray = TRUE]
  <2>2. conn' = [conn EXCEPT ![i] = c]
    BY <2>1, Indexed DEF ConnType
  <2>3. c \in ConnType
    BY Indexed, <2>1 DEF ConnType
  <2>4. Good(sessions[i], c)
    BY Indexed DEF Good, ConnType
  <2>5. Handled(i, sessions[i], c)
    <3> HIDE DEF c
    <3>1. sessions = [sessions EXCEPT ![i] = sessions[i]]
      BY DEF IInv, TypeOK
    <3> QED BY <2>1, <2>2, <3>1 DEF Handled, Astray
  <2> QED BY <2>3, <2>4, <2>5, HandledKeeps, Indexed
<1> QED BY <1>1, <1>2 DEF Astray
-----------------------------------------------------------------------------
(* One lemma per handler.                                                  *)

LEMMA ConnectKeeps ==
    ASSUME IInv, NEW i \in DOMAIN conn, NEW u \in Logins, ConnectHandler(i, u)
    PROVE  IInv'
<1>1. CASE Astray(i, {"mqtt", "stuck"})
  BY <1>1, AstrayKeeps
<1>2. CASE u \in logins /\ Handled(i, [sessions[i] EXCEPT !.name = conn[i].who],
                                      [conn[i] EXCEPT !.link = "mqtt", !.login = u])
  <2> DEFINE r == [sessions[i] EXCEPT !.name = conn[i].who]
             c == [conn[i] EXCEPT !.link = "mqtt", !.login = u]
  <2>1. r \in SessionType /\ c \in ConnType
    BY Indexed DEF SessionType, ConnType
  <2>2. Good(r, c)
    BY <1>2, Indexed DEF Good, SessionType, ConnType
  <2> QED BY <1>2, <2>1, <2>2, HandledKeeps
<1>3. CASE conn[i].link = "tcp" /\ Handled(i, [sessions[i] EXCEPT !.live = FALSE],
                                             [conn[i] EXCEPT !.link = "stuck"])
  <2> DEFINE r == [sessions[i] EXCEPT !.live = FALSE]
             c == [conn[i] EXCEPT !.link = "stuck"]
  <2>1. r \in SessionType /\ c \in ConnType
    BY Indexed DEF SessionType, ConnType
  <2>2. Good(r, c)
    BY <1>3, Indexed DEF Good, SessionType, ConnType
  <2> QED BY <1>3, <2>1, <2>2, HandledKeeps
<1> QED BY <1>1, <1>2, <1>3 DEF ConnectHandler, Hears

LEMMA CloseKeeps ==
    ASSUME IInv, NEW i \in DOMAIN conn, CloseProc(i)
    PROVE  IInv'
<1>1. CASE Astray(i, {"closed"})
  BY <1>1, AstrayKeeps
<1>2. CASE Handled(i, [sessions[i] EXCEPT !.name = NoName, !.live = FALSE],
                      [conn[i] EXCEPT !.link = "closed", !.subs = {}])
  <2> DEFINE r == [sessions[i] EXCEPT !.name = NoName, !.live = FALSE]
             c == [conn[i] EXCEPT !.link = "closed", !.subs = {}]
  <2>1. r \in SessionType /\ c \in ConnType
    BY Indexed DEF SessionType, ConnType
  <2>2. Good(r, c)
    BY Indexed DEF Good, SessionType
  <2> QED BY <1>2, <2>1, <2>2, HandledKeeps
<1> QED BY <1>1, <1>2 DEF CloseProc

(* Handlers that leave the session as it is: subscriptions, and what the   *)
(* controller does to its connection.                                      *)
LEMMA ConnectionKeeps ==
    ASSUME IInv, NEW i \in DOMAIN conn, NEW c \in ConnType,
           c.who = conn[i].who, c.astray = conn[i].astray,
           c.login = conn[i].login, c.link = conn[i].link,
           Handled(i, sessions[i], c)
    PROVE  IInv'
<1>1. Good(sessions[i], c)
  BY Indexed DEF Good
<1> QED BY <1>1, Indexed, HandledKeeps

LEMMA SubscriptionKeeps ==
    ASSUME IInv, NEW i \in DOMAIN conn, NEW t \in Topics,
           SubscribeHandler(i, t) \/ UnsubscribeHandler(i, t)
    PROVE  IInv'
<1>1. CASE Astray(i, {"mqtt"})
  BY <1>1, AstrayKeeps
<1>2. CASE \E T \in SUBSET Topics : Handled(i, sessions[i], [conn[i] EXCEPT !.subs = T])
  <2>1. PICK T \in SUBSET Topics : Handled(i, sessions[i], [conn[i] EXCEPT !.subs = T])
    BY <1>2
  <2> DEFINE c == [conn[i] EXCEPT !.subs = T]
  <2>2. /\ c \in ConnType /\ c.who = conn[i].who /\ c.astray = conn[i].astray
        /\ c.login = conn[i].login /\ c.link = conn[i].link
    BY Indexed DEF ConnType
  <2> QED BY <2>1, <2>2, ConnectionKeeps
<1>3. conn[i].subs \in SUBSET Topics
  BY Indexed DEF ConnType
<1> QED BY <1>1, <1>2, <1>3 DEF SubscribeHandler, UnsubscribeHandler

LEMMA LeavesKeeps ==
    ASSUME IInv, NEW i \in DOMAIN conn, NEW peer \in {"left", "gone"}, Leaves(i, peer)
    PROVE  IInv'
<1> DEFINE c == [conn[i] EXCEPT !.peer = peer]
<1>1. /\ c \in ConnType /\ c.who = conn[i].who /\ c.astray = conn[i].astray
      /\ c.login = conn[i].login /\ c.link = conn[i].link
  BY Indexed DEF ConnType
<1> QED BY <1>1, ConnectionKeeps DEF Leaves

(* The accept handler: the sessions before keep their names, whether or    *)
(* not they are copied.                                                    *)
LEMMA AcceptKeeps ==
    ASSUME IInv, NEW k \in Controllers, Accept(k)
    PROVE  IInv'
<1> DEFINE full == Len(sessions) = capacity
           old  == IF full THEN [i \in DOMAIN conn |-> [conn[i] EXCEPT !.bound = FALSE]] ELSE conn
<1>1. old \in Seq(ConnType) /\ Len(old) = Len(conn)
  <2>1. ASSUME NEW i \in DOMAIN conn PROVE [conn[i] EXCEPT !.bound = FALSE] \in ConnType
    BY Indexed DEF ConnType
  <2> QED BY <2>1 DEF IInv, TypeOK
<1>2. ASSUME NEW i \in DOMAIN conn
      PROVE  /\ old[i].who = conn[i].who /\ old[i].login = conn[i].login
             /\ old[i].link = conn[i].link /\ old[i].astray = conn[i].astray
  BY Indexed DEF ConnType
<1> HIDE DEF old
<1>3. /\ sessions' = Append(sessions, NewSession) /\ conn' = Append(old, NewConn(k))
      /\ logins' = logins /\ down' = down /\ last' = last
      /\ capacity' = IF full THEN Grown ELSE capacity
  BY DEF Accept, old
<1>4. NewSession \in SessionType /\ NewConn(k) \in ConnType /\ NewSession.name = NoName
  BY DEF NewSession, NewConn, SessionType, ConnType
<1>5. TypeOK'
  <2>1. sessions' \in Seq(SessionType) /\ conn' \in Seq(ConnType) /\ Len(conn') = Len(sessions')
    BY <1>1, <1>3, <1>4 DEF IInv, TypeOK
  <2>2. capacity' \in Nat /\ Len(sessions') <= capacity'
    BY <1>3, <1>4 DEF IInv, TypeOK, Grown
  <2> QED BY <1>3, <2>1, <2>2 DEF IInv, TypeOK
<1>6. ASSUME NEW j \in DOMAIN sessions', sessions'[j].name # NoName
      PROVE  /\ sessions'[j].name = conn'[j].who /\ conn'[j].login \in logins'
             /\ conn'[j].link = "mqtt" \/ conn'[j].astray
  <2>1. j \in DOMAIN conn /\ sessions'[j] = sessions[j] /\ conn'[j] = old[j]
    BY <1>1, <1>3, <1>4, <1>6 DEF IInv, TypeOK
  <2> QED BY <1>2, <1>3, <1>6, <2>1, Indexed DEF Good
<1> QED BY <1>5, <1>6 DEF IInv, NamedIsConnected

LEMMA PublishKeeps ==
    ASSUME IInv, NEW l \in Controllers, Publish(l)
    PROVE  IInv'
<1> DEFINE i == Found(l)
           d == i # 0 /\ Open(i) /\ conn[i].who = l
           v == i # 0 /\ conn[i].peer # "up"
<1>1. last' = [lift |-> l, found |-> i # 0, delivered |-> d, late |-> v]
  BY DEF Publish
<1>2. (i # 0) \in BOOLEAN /\ d \in BOOLEAN /\ v \in BOOLEAN
  BY Zenon
<1> HIDE DEF i, d, v
<1>3. last' \in PublishType
  BY <1>1, <1>2, Zenon DEF PublishType
<1> QED BY <1>3 DEF IInv, TypeOK, NamedIsConnected, Publish

LEMMA InitGood == Init => IInv
<1> SUFFICES ASSUME Init PROVE IInv
  OBVIOUS
<1>1. last \in PublishType
  BY DEF Init, PublishType
<1>2. sessions \in Seq(SessionType) /\ conn \in Seq(ConnType) /\ Len(sessions) = 0 /\ Len(conn) = 0
  BY DEF Init
<1>3. Len(conn) = Len(sessions) /\ capacity \in Nat /\ Len(sessions) <= capacity
  BY <1>2 DEF Init
<1>4. logins \subseteq Logins /\ down \in BOOLEAN
  BY Zenon DEF Init
<1>5. TypeOK
  BY <1>1, <1>2, <1>3, <1>4, Zenon DEF TypeOK
<1> QED BY <1>5 DEF Init, IInv, NamedIsConnected

LEMMA NextKeeps == IInv /\ [Next]_vars => IInv'
<1> SUFFICES ASSUME IInv, [Next]_vars PROVE IInv'
  OBVIOUS
<1>1. CASE UNCHANGED vars
  BY <1>1 DEF vars, IInv, TypeOK, NamedIsConnected
<1>2. ASSUME NEW k \in Controllers, Accept(k) PROVE IInv'
  BY <1>2, AcceptKeeps
<1>3. ASSUME NEW i \in DOMAIN conn, Session(i) PROVE IInv'
  BY <1>3, ConnectKeeps, CloseKeeps, SubscriptionKeeps, LeavesKeeps
     DEF Session, CloseHandler, DisconnectHandler, ErrorHandler
<1>4. ASSUME NEW l \in Controllers, Publish(l) PROVE IInv'
  BY <1>4, PublishKeeps
<1> QED BY <1>1, <1>2, <1>3, <1>4 DEF Next, Network

(* Every variable keeps its type, and every session has its connection,    *)
(* however often the vector grows.                                         *)
THEOREM TypeCorrect == Spec => []TypeOK
<1>1. IInv => TypeOK
  BY DEF IInv
<1> QED BY <1>1, InitGood, NextKeeps, PTL DEF Spec

(* A session is named only for its controller and while its connection is  *)
(* accepted, unless one of its handlers ran on freed memory: __closeProc   *)
(* is called on every way out.                                             *)
THEOREM NamesAreConnected == Spec => []NamedIsConnected
<1>1. IInv => NamedIsConnected
  BY DEF IInv
<1> QED BY <1>1, InitGood, NextKeeps, PTL DEF Spec

-----------------------------------------------------------------------------
(* The second inductive invariant: a command finds its controller.         *)

(* The handlers of connection c still run, as far as anybody knows.        *)
Alive(c) == c.link # "closed" /\ c.peer = "up"

(* A session that accepted its controller is named after it, unless the    *)
(* name was given to freed memory.                                         *)
Tagged(r, c) == c.link = "mqtt" /\ ~c.astray => r.name = c.who

(* A controller has one connection at a time.                              *)
Single ==
    \A i, j \in DOMAIN conn :
        conn[i].who = conn[j].who /\ Alive(conn[i]) /\ Alive(conn[j]) => i = j

RInv ==
    /\ \A i \in DOMAIN conn : Tagged(sessions[i], conn[i])
    /\ Single
    /\ SuccessIsDelivered

(* What no step but accept does to a connection: it comes back to life,    *)
(* changes hands, or forgets that its handlers went astray.                *)
Follows(c, d) ==
    d.who = c.who /\ (c.astray => d.astray) /\ (Alive(d) => Alive(c))

LEMMA FollowersReach ==
    ASSUME IInv, RInv, DOMAIN conn' = DOMAIN conn, last' = last,
           \A i \in DOMAIN conn : Follows(conn[i], conn'[i]) /\ Tagged(sessions'[i], conn'[i])
    PROVE  RInv'
<1>1. \A i \in DOMAIN conn' : Tagged(sessions'[i], conn'[i])
  OBVIOUS
<1>2. Single'
  BY DEF RInv, Single, Follows
<1>3. SuccessIsDelivered'
  BY DEF RInv, SuccessIsDelivered, Follows
<1> QED BY <1>1, <1>2, <1>3 DEF RInv

LEMMA HandledReaches ==
    ASSUME IInv, RInv, NEW i \in DOMAIN conn, NEW r, NEW c, Handled(i, r, c),
           Follows(conn[i], c), Tagged(r, c)
    PROVE  RInv'
<1>1. i \in DOMAIN sessions
  BY Indexed
<1>2. DOMAIN conn' = DOMAIN conn /\ last' = last
  BY DEF Handled, IInv, TypeOK
<1>3. ASSUME NEW j \in DOMAIN conn
      PROVE  Follows(conn[j], conn'[j]) /\ Tagged(sessions'[j], conn'[j])
  <2>0. j \in DOMAIN sessions
    BY Indexed
  <2>1. CASE j = i
    <3>1. sessions'[j] = r /\ conn'[j] = c
      BY <1>1, <2>1 DEF Handled
    <3> QED BY <2>1, <3>1
  <2>2. CASE j # i
    <3>1. sessions'[j] = sessions[j] /\ conn'[j] = conn[j]
      BY <2>0, <2>2 DEF Handled
    <3> QED BY <3>1 DEF RInv, Follows
  <2> QED BY <2>1, <2>2
<1> QED BY <1>2, <1>3, FollowersReach

LEMMA AstrayReaches ==
    ASSUME IInv, RInv, NEW i \in DOMAIN conn, NEW links, Astray(i, links),
           conn[i].link # "closed"
    PROVE  RInv'
<1>1. CASE UNCHANGED conn /\ down' = TRUE
  BY <1>1, FollowersReach DEF RInv, Astray, Follows
<1>2. CASE \E l \in links : conn' = [conn EXCEPT ![i].link = l, ![i].astray = TRUE] /\ UNCHANGED down
  <2>1. PICK l \in links : conn' = [conn EXCEPT ![i].link = l, ![i].astray = TRUE]
    BY <1>2
  <2> DEFINE c == [conn[i] EXCEPT !.link = l, !.astray = TRUE]
  <2>2. conn' = [conn EXCEPT ![i] = c] /\ c.who = conn[i].who /\ c.astray /\ c.peer = conn[i].peer
    BY <2>1, Indexed DEF ConnType
  <2> HIDE DEF c
  <2>3. Handled(i, sessions[i], c)
    <3>1. sessions = [sessions EXCEPT ![i] = sessions[i]]
      BY DEF IInv, TypeOK
    <3> QED BY <1>2, <2>2, <3>1 DEF Handled, Astray
  <2>4. Follows(conn[i], c) /\ Tagged(sessions[i], c)
    BY <2>2 DEF Follows, Tagged, Alive
  <2> QED BY <2>3, <2>4, HandledReaches
<1> QED BY <1>1, <1>2 DEF Astray

LEMMA ConnectReaches ==
    ASSUME IInv, RInv, NEW i \in DOMAIN conn, NEW u \in Logins, ConnectHandler(i, u)
    PROVE  RInv'
<1>1. conn[i].link = "tcp" /\ sessions[i] \in SessionType /\ conn[i] \in ConnType
  BY Indexed DEF ConnectHandler, Hears
<1>2. CASE Astray(i, {"mqtt", "stuck"})
  BY <1>1, <1>2, AstrayReaches
<1>3. CASE Handled(i, [sessions[i] EXCEPT !.name = conn[i].who],
                      [conn[i] EXCEPT !.link = "mqtt", !.login = u])
  <2> DEFINE r == [sessions[i] EXCEPT !.name = conn[i].who]
             c == [conn[i] EXCEPT !.link = "mqtt", !.login = u]
  <2>1. Follows(conn[i], c) /\ Tagged(r, c)
    BY <1>1 DEF Follows, Tagged, Alive, SessionType, ConnType
  <2> QED BY <1>3, <2>1, HandledReaches
<1>4. CASE Handled(i, [sessions[i] EXCEPT !.live = FALSE], [conn[i] EXCEPT !.link = "stuck"])
  <2> DEFINE r == [sessions[i] EXCEPT !.live = FALSE]
             c == [conn[i] EXCEPT !.link = "stuck"]
  <2>1. Follows(conn[i], c) /\ Tagged(r, c)
    BY <1>1 DEF Follows, Tagged, Alive, ConnType
  <2> QED BY <1>4, <2>1, HandledReaches
<1> QED BY <1>2, <1>3, <1>4 DEF ConnectHandler

LEMMA CloseReaches ==
    ASSUME IInv, RInv, NEW i \in DOMAIN conn, conn[i].link # "closed", CloseProc(i)
    PROVE  RInv'
<1>1. CASE Astray(i, {"closed"})
  BY <1>1, AstrayReaches
<1>2. CASE Handled(i, [sessions[i] EXCEPT !.name = NoName, !.live = FALSE],
                      [conn[i] EXCEPT !.link = "closed", !.subs = {}])
  <2> DEFINE r == [sessions[i] EXCEPT !.name = NoName, !.live = FALSE]
             c == [conn[i] EXCEPT !.link = "closed", !.subs = {}]
  <2>1. Follows(conn[i], c) /\ Tagged(r, c)
    BY Indexed DEF Follows, Tagged, Alive, ConnType
  <2> QED BY <1>2, <2>1, HandledReaches
<1> QED BY <1>1, <1>2 DEF CloseProc

LEMMA ControllerReaches ==
    ASSUME IInv, RInv, NEW i \in DOMAIN conn,
           \/ \E peer \in {"left", "gone"} : Leaves(i, peer)
           \/ \E t \in Topics : SubscribeHandler(i, t) \/ UnsubscribeHandler(i, t)
    PROVE  RInv'
<1>1. /\ conn[i] \in ConnType /\ sessions[i] \in SessionType /\ Tagged(sessions[i], conn[i])
      /\ conn[i].link # "closed"
  BY Indexed DEF RInv, Leaves, SubscribeHandler, UnsubscribeHandler, Hears
<1>2. CASE Astray(i, {"mqtt"})
  BY <1>1, <1>2, AstrayReaches
<1>3. ASSUME NEW T \in SUBSET Topics, Handled(i, sessions[i], [conn[i] EXCEPT !.subs = T])
      PROVE  RInv'
  <2> DEFINE c == [conn[i] EXCEPT !.subs = T]
  <2>1. Follows(conn[i], c) /\ Tagged(sessions[i], c)
    BY <1>1 DEF Follows, Tagged, Alive, ConnType
  <2> QED BY <1>3, <2>1, HandledReaches
<1>4. ASSUME NEW peer \in {"left", "gone"}, Leaves(i, peer)
      PROVE  RInv'
  <2> DEFINE c == [conn[i] EXCEPT !.peer = peer]
  <2>1. Follows(conn[i], c) /\ Tagged(sessions[i], c)
    BY <1>1 DEF Follows, Tagged, Alive, ConnType
  <2> QED BY <1>4, <2>1, HandledReaches DEF Leaves
<1>5. conn[i].subs \in SUBSET Topics
  BY <1>1 DEF ConnType
<1>6. ASSUME NEW t \in Topics, SubscribeHandler(i, t) \/ UnsubscribeHandler(i, t)
      PROVE  RInv'
  <2>1. conn[i].subs \cup {t} \in SUBSET Topics /\ conn[i].subs \ {t} \in SUBSET Topics
    BY <1>5
  <2> QED BY <1>2, <1>3, <1>6, <2>1 DEF SubscribeHandler, UnsubscribeHandler
<1> QED BY <1>4, <1>6

(* A controller that connects again has no other connection alive.         *)
LEMMA AcceptReaches ==
    ASSUME IInv, RInv, NEW k \in Controllers, Accept(k)
    PROVE  RInv'
<1> DEFINE full == Len(sessions) = capacity
           old  == IF full THEN [i \in DOMAIN conn |-> [conn[i] EXCEPT !.bound = FALSE]] ELSE conn
           n    == Len(conn) + 1
<1>1. /\ sessions' = Append(sessions, NewSession) /\ conn' = Append(old, NewConn(k))
      /\ last' = last /\ ~Present(k)
  BY DEF Accept
<1>2. /\ sessions \in Seq(SessionType) /\ conn \in Seq(ConnType) /\ Len(conn) = Len(sessions)
      /\ DOMAIN conn = 1..Len(conn) /\ DOMAIN sessions = 1..Len(conn) /\ Len(conn) \in Nat
  BY DEF IInv, TypeOK
<1>3. old \in Seq(ConnType) /\ Len(old) = Len(conn)
  <2>1. ASSUME NEW i \in DOMAIN conn PROVE [conn[i] EXCEPT !.bound = FALSE] \in ConnType
    BY Indexed DEF ConnType
  <2> QED BY <1>2, <2>1
<1>4. ASSUME NEW i \in DOMAIN conn
      PROVE  /\ old[i].who = conn[i].who /\ old[i].link = conn[i].link
             /\ old[i].astray = conn[i].astray /\ old[i].peer = conn[i].peer
  BY Indexed DEF ConnType
<1> HIDE DEF old
<1>5. /\ DOMAIN conn' = 1..n /\ conn'[n] = NewConn(k) /\ sessions'[n] = NewSession
      /\ \A i \in DOMAIN conn : conn'[i] = old[i] /\ sessions'[i] = sessions[i] /\ i # n
  <2>1. NewConn(k) \in ConnType /\ NewSession \in SessionType
    BY DEF NewConn, ConnType, NewSession, SessionType
  <2> QED BY <1>1, <1>2, <1>3, <2>1
<1>6. \A i \in DOMAIN conn' : i \in DOMAIN conn \/ i = n
  BY <1>2, <1>5
<1>7. \A i \in DOMAIN conn : i \in DOMAIN conn'
  BY <1>2, <1>5
<1>8. NewConn(k).who = k /\ NewConn(k).link = "tcp"
  BY DEF NewConn
<1> HIDE DEF n
<1>9. \A i \in DOMAIN conn' : Tagged(sessions'[i], conn'[i])
  BY <1>4, <1>5, <1>6, <1>8 DEF RInv, Tagged
<1>10. Single'
  <2>1. \A i \in DOMAIN conn : Alive(conn'[i]) <=> Alive(conn[i])
    BY <1>4, <1>5 DEF Alive
  <2>2. \A i \in DOMAIN conn : conn'[i].who = conn[i].who
    BY <1>4, <1>5
  <2>3. \A i \in DOMAIN conn : conn[i].who = k => ~Alive(conn[i])
    BY <1>1 DEF Present, Alive
  <2> QED BY <1>5, <1>6, <1>8, <2>1, <2>2, <2>3 DEF Single, RInv
<1>11. SuccessIsDelivered'
  BY <1>1, <1>4, <1>5, <1>7 DEF RInv, SuccessIsDelivered
<1> QED BY <1>9, <1>10, <1>11 DEF RInv

LEMMA FoundIsNamed ==
    ASSUME IInv, NEW l
    PROVE  /\ Found(l) = 0 <=> Named(l) = {}
           /\ Named(l) # {} => Found(l) \in Named(l) /\ Found(l) \in DOMAIN conn
<1>1. Named(l) \subseteq DOMAIN sessions /\ DOMAIN sessions = 1..Len(sessions) /\ Len(sessions) \in Nat
  BY DEF Named, IInv, TypeOK
<1>2. CASE Named(l) = {}
  BY <1>2 DEF Found
<1>3. CASE Named(l) # {}
  <2>1. Named(l) \subseteq Nat
    BY <1>1
  <2>2. \E i \in Named(l) : \A j \in Named(l) : i <= j
    <3> DEFINE R == {ss \in Nat \X Nat : ss[1] < ss[2]}
    <3>1. IsWellFoundedOn(R, Nat)
      BY NatLessThanWellFounded DEF OpToRel
    <3>2. \A m, n \in Nat : m < n => <<m, n>> \in R
      OBVIOUS
    <3> HIDE DEF R
    <3>3. PICK n \in Named(l) : \A m \in Named(l) : <<m, n>> \notin R
      BY <1>3, <2>1, <3>1, WFMin
    <3>4. ASSUME NEW m \in Named(l) PROVE n <= m
      <4>1. m \in Nat /\ n \in Nat
        BY <2>1
      <4>2. ~(m < n)
        BY <3>2, <3>3, <4>1
      <4> QED BY <4>1, <4>2
    <3> QED BY <3>4
  <2>3. First(Named(l)) \in Named(l)
    BY <2>2 DEF First
  <2>4. DOMAIN conn = DOMAIN sessions
    BY DEF IInv, TypeOK
  <2> QED BY <1>1, <1>3, <2>3, <2>4 DEF Found
<1> QED BY <1>2, <1>3

(* publish finds a session by its name, which is that of its controller.   *)
LEMMA PublishReaches ==
    ASSUME IInv, RInv, NEW l \in Controllers, Publish(l)
    PROVE  RInv'
<1> DEFINE i == Found(l)
<1>1. last' = [lift |-> l, found |-> i # 0,
               delivered |-> i # 0 /\ Open(i) /\ conn[i].who = l,
               late |-> i # 0 /\ conn[i].peer # "up"]
  BY DEF Publish
<1>2. conn' = conn /\ sessions' = sessions
  BY DEF Publish
<1>3. ASSUME i # 0
      PROVE  /\ i \in DOMAIN conn /\ conn[i].who = l
             /\ conn[i].link = "mqtt" \/ conn[i].astray
  <2>1. i \in DOMAIN conn /\ sessions[i].name = l /\ l # NoName
    BY <1>3, FoundIsNamed, BrokerAssumption DEF Named
  <2> QED BY <2>1, Indexed DEF Good
<1>4. SuccessIsDelivered'
  <2> HIDE DEF i
  <2>1. /\ last'.lift = l /\ (last'.found <=> i # 0)
        /\ last'.delivered <=> i # 0 /\ Open(i) /\ conn[i].who = l
        /\ last'.late <=> i # 0 /\ conn[i].peer # "up"
    BY <1>1, Zenon
  <2> QED BY <1>2, <1>3, <2>1 DEF SuccessIsDelivered, Open
<1> QED BY <1>2, <1>4 DEF RInv, Single

LEMMA InitReaches == Init => RInv
<1> SUFFICES ASSUME Init PROVE RInv
  OBVIOUS
<1>1. DOMAIN conn = {} /\ ~last.found
  BY DEF Init
<1> QED BY <1>1 DEF RInv, Single, SuccessIsDelivered

LEMMA NextReaches == IInv /\ RInv /\ [Next]_vars => RInv'
<1> SUFFICES ASSUME IInv, RInv, [Next]_vars PROVE RInv'
  OBVIOUS
<1>1. CASE UNCHANGED vars
  BY <1>1 DEF vars, RInv, Single, SuccessIsDelivered
<1>2. ASSUME NEW k \in Controllers, Accept(k) PROVE RInv'
  BY <1>2, AcceptReaches
<1>3. ASSUME NEW i \in DOMAIN conn, Session(i) PROVE RInv'
  <2>1. CASE \E u \in Logins : ConnectHandler(i, u)
    BY <2>1, ConnectReaches
  <2>2. CASE CloseHandler(i) \/ DisconnectHandler(i) \/ ErrorHandler(i)
    BY <2>2, CloseReaches DEF CloseHandler, DisconnectHandler, ErrorHandler, Hears
  <2> QED BY <1>3, <2>1, <2>2, ControllerReaches DEF Session
<1>4. ASSUME NEW l \in Controllers, Publish(l) PROVE RInv'
  BY <1>4, PublishReaches
<1> QED BY <1>1, <1>2, <1>3, <1>4 DEF Next, Network

(* The first session that publish finds by name is the controller's only   *)
(* open connection, after any number of reconnects and however often the   *)
(* vector grew, once the ends of the others have been handled; and publish *)
(* returns TRUE for nothing else, but for the exceptions of CommandsReach. *)
THEOREM CommandsAlwaysReach == Spec => []CommandsReach
<1>1. IInv /\ RInv => CommandsReach
  <2> SUFFICES ASSUME IInv, RInv, NEW i \in DOMAIN conn, Open(i),
                      \A j \in DOMAIN conn : conn[j].who = conn[i].who => Known(j)
               PROVE  Found(conn[i].who) = i
    BY DEF CommandsReach, ReachesCurrent, RInv
  <2> DEFINE k == conn[i].who
             f == Found(k)
  <2>1. i \in DOMAIN sessions /\ k \in Controllers /\ k # NoName
    BY Indexed, BrokerAssumption DEF ConnType
  <2>2. i \in Named(k)
    BY <2>1 DEF Named, RInv, Tagged, Open, Known
  <2>3. f \in DOMAIN conn /\ sessions[f].name = k
    BY <2>2, FoundIsNamed DEF Named
  <2>4. conn[f].who = k /\ (conn[f].link = "mqtt" \/ conn[f].astray)
    BY <2>1, <2>3, Indexed DEF Good
  <2>5. Alive(conn[f]) /\ Alive(conn[i])
    BY <2>3, <2>4 DEF Alive, Open, Known
  <2> QED BY <2>3, <2>4, <2>5 DEF RInv, Single
<1> QED BY <1>1, InitGood, NextKeeps, InitReaches, NextReaches, PTL DEF Spec
=============================================================================
