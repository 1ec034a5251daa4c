-------------------------- MODULE LiftWorkerProofs --------------------------
(***************************************************************************)
(* What the lift worker guarantees for any lift blocks, requests, number   *)
(* of refreshes, connections and faults.                                   *)
(***************************************************************************)
EXTENDS LiftWorker, TLAPS

(* The state of the load: __startWorkers has run exactly when the callback *)
(* has been replaced, and before that there is no table anywhere.          *)
IInv ==
    /\ callback \in {"startWorkers", "updateData"}
    /\ starts = IF callback = "startWorkers" THEN 0 ELSE 1
    /\ callback = "startWorkers" => known = {} /\ logins = {} /\ descriptors = {} /\ passwords = {}

tables == <<callback, starts, descriptors, passwords, known, logins>>

-----------------------------------------------------------------------------
(* The link to the main server leaves its table alone.                     *)
LEMMA LinkLeavesTable ==
    ASSUME MS!Handle \/ MS!AnalizeOther \/ MS!Reactor \/ MS!Environment
    PROVE  known' = known
<1>1. CASE MS!Handle
  BY <1>1 DEF MS!Handle, MS!HandlerError, MS!RequestAuthentication, MS!SendCommand,
              MS!SendSkews, MS!ReciveCommand
<1>2. CASE MS!AnalizeOther
  BY <1>2 DEF MS!AnalizeOther, MS!ResponsePing, MS!ConnectAnalize, MS!MoveUnknown,
              MS!AnalizeEnds, MS!Analized
<1>3. CASE MS!Reactor
  BY <1>3 DEF MS!Reactor, MS!Wire
<1>4. CASE MS!Environment
  BY <1>4 DEF MS!Environment, MS!SendFails, MS!Wire, MS!ServerReads, MS!ServerPings,
              MS!ServerFails
<1> QED BY <1>1, <1>2, <1>3, <1>4

(* The broker leaves the table of logins alone.                            *)
LEMMA BrokerLeavesTable ==
    ASSUME BR!Network
    PROVE  logins' = logins
<1>1. ASSUME NEW i, BR!Session(i) PROVE logins' = logins
  BY <1>1 DEF BR!Session, BR!ConnectHandler, BR!CloseHandler, BR!DisconnectHandler,
       BR!ErrorHandler, BR!CloseProc, BR!Leaves, BR!SubscribeHandler,
       BR!UnsubscribeHandler, BR!Astray, BR!Handled
<1>2. ASSUME NEW k, BR!Accept(k) PROVE logins' = logins
  BY <1>2 DEF BR!Accept
<1> QED BY <1>1, <1>2 DEF BR!Network

-----------------------------------------------------------------------------
(* Every step but those of the load leaves the tables alone.               *)
LEMMA OthersLeaveTables ==
    ASSUME \/ MoveLift \/ Link \/ Broker \/ DbChanges
           \/ \E q \in Requests, l \in Lifts : ServerMoves(q, l)
    PROVE  UNCHANGED tables
<1>1. CASE MoveLift
  BY <1>1 DEF MoveLift, MS!MoveLift, MS!Analized, BR!Publish, loader, tables
<1>2. CASE Link
  BY <1>2, LinkLeavesTable DEF Link, loader, broker, tables
<1>3. CASE Broker
  BY <1>3, BrokerLeavesTable DEF Broker, loader, link, tables
<1>4. CASE DbChanges
  BY <1>4 DEF DbChanges, loader, link, broker, tables
<1>5. CASE \E q \in Requests, l \in Lifts : ServerMoves(q, l)
  BY <1>5 DEF ServerMoves, MS!ServerMoves, loader, broker, tables
<1> QED BY <1>1, <1>2, <1>3, <1>4, <1>5

LEMMA InitLoaded == Init => IInv
BY DEF Init, IInv

LEMMA NextKeeps == IInv /\ [Next]_vars => IInv'
<1> SUFFICES ASSUME IInv, [Next]_vars PROVE IInv'
  OBVIOUS
<1>1. CASE UNCHANGED vars
  BY <1>1 DEF vars, loader, link, broker, IInv
<1>2. CASE StartWorkers
  BY <1>2 DEF StartWorkers, Called, IInv
<1>3. CASE UpdateDataCallback
  BY <1>3 DEF UpdateDataCallback, Called, IInv
<1>4. CASE StartWorkersFails \/ UpdateTimer \/ DbAnswers
  BY <1>4 DEF StartWorkersFails, UpdateTimer, DbAnswers, Called, Untouched, link, broker, IInv
<1>5. CASE \/ MoveLift \/ Link \/ Broker \/ DbChanges
           \/ \E q \in Requests, l \in Lifts : ServerMoves(q, l)
  BY <1>5, OthersLeaveTables DEF IInv, tables
<1> QED BY <1>1, <1>2, <1>3, <1>4, <1>5 DEF Next, Load

-----------------------------------------------------------------------------
(* What __updateData takes from the rows, and the login of every one.      *)
LoginsOf(rows) == {Login[l] : l \in rows}

LEMMA LoadRefines ==
    ASSUME IInv, Load
    PROVE  Store!Next \/ UNCHANGED Store!vars
<1>1. CASE StartWorkers
  <2>1. /\ starts = 0 /\ starts' = 1 /\ respData # {}
        /\ descriptors' = respData /\ passwords' = LoginsOf(respData)
        /\ known' = respData /\ logins' = LoginsOf(respData)
    BY <1>1 DEF StartWorkers, Called, UpdateData, IInv, LoginsOf
  <2>a. LoginsOf(respData) # {}
    BY <2>1 DEF LoginsOf
  <2>2. Store!Start
    BY <2>1, <2>a DEF Store!Start, Store!Whole
  <2> QED BY <2>2 DEF Store!Next
<1>2. CASE UpdateDataCallback
  <2>1. /\ starts = 1 /\ respData # {}
        /\ descriptors' = respData /\ passwords' = LoginsOf(respData)
        /\ UNCHANGED <<starts, known, logins>>
    BY <1>2 DEF UpdateDataCallback, Called, UpdateData, IInv, LoginsOf
  <2>a. LoginsOf(respData) # {}
    BY <2>1 DEF LoginsOf
  <2>2. Store!Refresh
    BY <2>1, <2>a DEF Store!Refresh, Store!Whole
  <2> QED BY <2>2 DEF Store!Next
<1>3. CASE StartWorkersFails \/ UpdateTimer \/ DbAnswers
  BY <1>3 DEF StartWorkersFails, UpdateTimer, DbAnswers, Untouched, link, broker, Store!vars
<1> QED BY <1>1, <1>2, <1>3 DEF Load

LEMMA NextRefines ==
    ASSUME IInv, [Next]_vars
    PROVE  Store!Next \/ UNCHANGED Store!vars
<1>1. CASE UNCHANGED vars
  BY <1>1 DEF vars, loader, link, broker, Store!vars
<1>2. CASE Load
  BY <1>2, LoadRefines
<1>3. CASE \/ MoveLift \/ Link \/ Broker \/ DbChanges
           \/ \E q \in Requests, l \in Lifts : ServerMoves(q, l)
  BY <1>3, OthersLeaveTables DEF tables, Store!vars
<1> QED BY <1>1, <1>2, <1>3 DEF Next

(* The lift worker implements TableStore: __startWorkers starts the broker *)
(* and the link once, with both maps of one complete table, and            *)
(* __updateData replaces the two maps together.                            *)
THEOREM MapsRefineStore == Spec => ImplementsTableStore
<1>1. Init => Store!Init
  <2>1. [descriptor |-> {}, login |-> {}] = [p \in {"descriptor", "login"} |-> {}]
    OBVIOUS
  <2> QED BY <2>1 DEF Init, Store!Init, Store!None
<1>2. IInv /\ [Next]_vars => [Store!Next]_(Store!vars)
  BY NextRefines
<1> QED BY <1>1, <1>2, InitLoaded, NextKeeps, PTL DEF Spec, ImplementsTableStore, Store!Spec

-----------------------------------------------------------------------------
(* The link to the main server.  Its messages are typed by two sets, G for *)
(* those that come from the server and D for those that go to it, so that  *)
(* one proof serves for the types of the link and for what the composed    *)
(* worker knows of the messages under way.                                 *)

Operations(D) == [h : MS!Handlers, m : D]

(* A receive that succeeds has got something.                              *)
Fruitful(c) == c.ok /\ c.h = "reciveCommand" => c.got # <<>>

Completions(G, D) == {c \in [h : MS!Handlers, ok : BOOLEAN, m : D, got : Seq(G)] : Fruitful(c)}

Sockets(G, D) ==
    [sock     : {"closed", "opened", "connecting", "connected"},
     pend     : Seq(Operations(D)),
     ready    : Seq(Completions(G, D)),
     peer     : MS!Peers,
     toServer : Seq(D),
     toWorker : Seq(G)]

(* What a socket holds of the worker's strands.                            *)
Size(x) == Len(x.pend) + Len(x.ready)

(* Completions R are followed by completions that have got nothing.        *)
Barren(c) == c.got = <<>>

Follows(T, R) ==
    /\ Len(R) <= Len(T)
    /\ \A i \in DOMAIN T : IF i <= Len(R) THEN T[i] = R[i] ELSE Barren(T[i])

LEMMA FailedOperation ==
    ASSUME NEW STATE G, NEW STATE D, NEW op, op.h \in MS!Handlers, op.m \in D
    PROVE  MS!Failed(op) \in Completions(G, D) /\ Barren(MS!Failed(op))
<1>1. /\ MS!Failed(op) \in [h : MS!Handlers, ok : BOOLEAN, m : D, got : Seq(G)]
      /\ ~MS!Failed(op).ok /\ MS!Failed(op).got = <<>>
  BY DEF MS!Failed
<1> QED BY <1>1 DEF Completions, Fruitful, Barren

LEMMA SucceededOperation ==
    ASSUME NEW STATE G, NEW STATE D, NEW op \in Operations(D), NEW got \in Seq(G),
           op.h = "reciveCommand" => got # <<>>
    PROVE  MS!Succeeded(op, got) \in Completions(G, D) /\ MS!Succeeded(op, got).got = got
<1>1. /\ MS!Succeeded(op, got) \in [h : MS!Handlers, ok : BOOLEAN, m : D, got : Seq(G)]
      /\ MS!Succeeded(op, got).h = op.h /\ MS!Succeeded(op, got).got = got
  BY DEF MS!Succeeded, Operations
<1> QED BY <1>1 DEF Completions, Fruitful

LEMMA SocketFields ==
    ASSUME NEW STATE G, NEW STATE D, NEW x \in Sockets(G, D)
    PROVE  /\ x.pend \in Seq(Operations(D)) /\ x.ready \in Seq(Completions(G, D))
           /\ x.toServer \in Seq(D) /\ x.toWorker \in Seq(G) /\ Size(x) \in Nat
BY DEF Sockets, Size

(* A completion added to those before.                                     *)
LEMMA AppendFollows ==
    ASSUME NEW C, NEW R \in Seq(C), NEW c, Barren(c)
    PROVE  Follows(Append(R, c), R)
BY DEF Follows

LEMMA SameFollows ==
    ASSUME NEW C, NEW R \in Seq(C)
    PROVE  Follows(R, R)
BY DEF Follows

LEMMA Concatenation ==
    ASSUME NEW S, NEW a \in Seq(S), NEW b \in Seq(S)
    PROVE  a \o b \in Seq(S) /\ Len(a \o b) = Len(a) + Len(b)
OBVIOUS

LEMMA CloseKept ==
    ASSUME NEW STATE G, NEW STATE D, NEW x \in Sockets(G, D)
    PROVE  /\ MS!Close(x) \in Sockets(G, D) /\ Size(MS!Close(x)) = Size(x)
           /\ Follows(MS!Close(x).ready, x.ready)
           /\ MS!Close(x).toWorker \in {x.toWorker, <<>>}
<1>1. CASE x.sock = "closed"
  BY <1>1, SocketFields, SameFollows DEF MS!Close
<1>2. CASE x.sock # "closed"
  <2> DEFINE E == [i \in DOMAIN x.pend |-> MS!Failed(x.pend[i])]
             y == MS!Close(x)
  <2>1. ASSUME NEW i \in DOMAIN x.pend PROVE E[i] \in Completions(G, D) /\ Barren(E[i])
    <3>1. x.pend[i] \in Operations(D)
      BY SocketFields
    <3> QED BY <3>1, FailedOperation DEF Operations
  <2>2. E \in Seq(Completions(G, D)) /\ Len(E) = Len(x.pend) /\ DOMAIN E = DOMAIN x.pend
    <3>1. DOMAIN x.pend = 1..Len(x.pend) /\ Len(x.pend) \in Nat /\ DOMAIN E = DOMAIN x.pend
      BY SocketFields
    <3> HIDE DEF E
    <3>2. E = [i \in 1..Len(x.pend) |-> E[i]]
      BY <3>1 DEF E
    <3>3. E \in [1..Len(x.pend) -> Completions(G, D)]
      BY <2>1, <3>1, <3>2
    <3> QED BY <3>1, <3>3
  <2>3. y = [x EXCEPT !.sock = "closed", !.pend = <<>>, !.ready = @ \o E,
                      !.peer = "none", !.toServer = <<>>, !.toWorker = <<>>]
    BY <1>2 DEF MS!Close
  <2> HIDE DEF E, y
  <2>4. y \in Sockets(G, D) /\ y.pend = <<>> /\ y.ready = x.ready \o E /\ y.toWorker = <<>>
    <3>1. x.ready \o E \in Seq(Completions(G, D))
      BY <2>2, SocketFields
    <3> DEFINE r == x.ready \o E
    <3>2. r \in Seq(Completions(G, D))
      BY <3>1
    <3>3. y = [x EXCEPT !.sock = "closed", !.pend = <<>>, !.ready = r,
                        !.peer = "none", !.toServer = <<>>, !.toWorker = <<>>]
      BY <2>3
    <3> HIDE DEF r
    <3>4. y.pend = <<>> /\ y.ready = r /\ y.toWorker = <<>>
      BY <3>3 DEF Sockets
    <3>5. <<>> \in Seq(Operations(D)) /\ <<>> \in Seq(D) /\ <<>> \in Seq(G)
      OBVIOUS
    <3>6. y \in Sockets(G, D)
      BY <3>2, <3>3, <3>5, Zenon DEF Sockets, MS!Peers
    <3> QED BY <3>4, <3>6 DEF r
  <2>5. Size(y) = Size(x)
    <3> DEFINE p == Len(x.pend)
               r == Len(x.ready)
    <3>1. x.ready \in Seq(Completions(G, D)) /\ x.pend \in Seq(Operations(D))
      BY SocketFields
    <3>2. E \in Seq(Completions(G, D)) /\ Len(E) = p
      BY <2>2
    <3>3. Len(x.ready \o E) = Len(x.ready) + Len(E)
      BY <3>2, <3>1, Concatenation
    <3>4. p \in Nat /\ r \in Nat /\ Len(x.ready \o E) = r + p
      BY <3>2, <3>3, <3>1
    <3>5. Size(y) = 0 + (r + p) /\ Size(x) = p + r
      BY <2>4, <3>4 DEF Size
    <3> HIDE DEF p, r
    <3> QED BY <3>4, <3>5
  <2>6. Follows(y.ready, x.ready)
    <3>1. ASSUME NEW i \in DOMAIN y.ready, i > Len(x.ready) PROVE Barren(y.ready[i])
      <4>1. i - Len(x.ready) \in DOMAIN E /\ y.ready[i] = E[i - Len(x.ready)]
        BY <2>2, <2>4, <3>1, SocketFields
      <4> QED BY <4>1, <2>1, <2>2
    <3>2. ASSUME NEW i \in DOMAIN y.ready, i <= Len(x.ready) PROVE y.ready[i] = x.ready[i]
      BY <2>2, <2>4, <3>2, SocketFields
    <3>3. Len(x.ready) <= Len(y.ready) /\ DOMAIN y.ready \subseteq Nat /\ Len(x.ready) \in Nat
      BY <2>2, <2>4, SocketFields
    <3> QED BY <3>1, <3>2, <3>3 DEF Follows
  <2> QED BY <2>4, <2>5, <2>6 DEF y
<1> QED BY <1>1, <1>2

(* A sequence of completions that has become longer by one.                *)
LEMMA ReadyAppended ==
    ASSUME NEW STATE G, NEW STATE D, NEW x \in Sockets(G, D), NEW c \in Completions(G, D), NEW y,
           y = [x EXCEPT !.ready = Append(@, c)]
    PROVE  /\ y \in Sockets(G, D) /\ Size(y) = Size(x) + 1
           /\ y.ready = Append(x.ready, c) /\ y.toWorker = x.toWorker
<1>1. x.pend \in Seq(Operations(D)) /\ x.ready \in Seq(Completions(G, D))
  BY SocketFields
<1> DEFINE r == Append(x.ready, c)
<1>2. r \in Seq(Completions(G, D)) /\ Len(r) = Len(x.ready) + 1
  BY <1>1
<1>3. Len(x.pend) \in Nat /\ Len(x.ready) \in Nat
  BY <1>1
<1>4. y = [x EXCEPT !.ready = r]
  OBVIOUS
<1> HIDE DEF r
<1>5. y \in Sockets(G, D) /\ y.ready = r /\ y.pend = x.pend /\ y.toWorker = x.toWorker
  BY <1>2, <1>4, Zenon DEF Sockets
<1>6. Size(y) = Len(x.pend) + Len(r) /\ Size(x) = Len(x.pend) + Len(x.ready)
  BY <1>5 DEF Size
<1>7. Size(y) = Size(x) + 1
  <2> DEFINE a == Len(x.pend)
             b == Len(x.ready)
             n == Len(r)
  <2>1. a \in Nat /\ b \in Nat /\ n = b + 1 /\ Size(y) = a + n /\ Size(x) = a + b
    BY <1>2, <1>3, <1>6
  <2> HIDE DEF a, b, n
  <2> QED BY <2>1
<1> QED BY <1>5, <1>7 DEF r

Opening(x, k, op) == [x EXCEPT !.sock = k, !.pend = Append(@, op)]

LEMMA PendAppended ==
    ASSUME NEW STATE G, NEW STATE D, NEW x \in Sockets(G, D), NEW op \in Operations(D), NEW k, NEW y,
           k \in {"closed", "opened", "connecting", "connected"},
           y = Opening(x, k, op)
    PROVE  /\ y \in Sockets(G, D) /\ Size(y) = Size(x) + 1
           /\ y.ready = x.ready /\ y.toWorker = x.toWorker
<1>1. x.pend \in Seq(Operations(D)) /\ x.ready \in Seq(Completions(G, D))
  BY SocketFields
<1> DEFINE r == Append(x.pend, op)
<1>2. r \in Seq(Operations(D)) /\ Len(r) = Len(x.pend) + 1
  BY <1>1
<1>3. Len(x.pend) \in Nat /\ Len(x.ready) \in Nat
  BY <1>1
<1>4. y = [x EXCEPT !.sock = k, !.pend = r]
  BY DEF Sockets, Opening
<1> HIDE DEF r
<1>5. y \in Sockets(G, D) /\ y.ready = x.ready /\ y.pend = r /\ y.toWorker = x.toWorker
  BY <1>2, <1>4, Zenon DEF Sockets
<1>6. Size(y) = Len(r) + Len(x.ready) /\ Size(x) = Len(x.pend) + Len(x.ready)
  BY <1>5 DEF Size
<1>7. Size(y) = Size(x) + 1
  <2> DEFINE a == Len(x.pend)
             b == Len(x.ready)
             n == Len(r)
  <2>1. a \in Nat /\ b \in Nat /\ n = a + 1 /\ Size(y) = n + b /\ Size(x) = a + b
    BY <1>2, <1>3, <1>6
  <2> HIDE DEF a, b, n
  <2> QED BY <2>1
<1> QED BY <1>5, <1>7

(* A call begins one operation or fails at once: one strand more, and      *)
(* nothing got.                                                            *)
Begun(y, x, G, D) ==
    /\ y \in Sockets(G, D) /\ Size(y) = Size(x) + 1
    /\ Follows(y.ready, x.ready) /\ y.toWorker = x.toWorker

LEMMA FailsBegun ==
    ASSUME NEW STATE G, NEW STATE D, NEW x \in Sockets(G, D), NEW op \in Operations(D)
    PROVE  Begun([x EXCEPT !.ready = Append(@, MS!Failed(op))], x, G, D)
<1> DEFINE c == MS!Failed(op)
           y == [x EXCEPT !.ready = Append(@, c)]
<1>1. c \in Completions(G, D) /\ Barren(c)
  BY FailedOperation DEF Operations
<1>2. x.ready \in Seq(Completions(G, D))
  BY SocketFields
<1> HIDE DEF c
<1>3. /\ y \in Sockets(G, D) /\ Size(y) = Size(x) + 1
      /\ y.ready = Append(x.ready, c) /\ y.toWorker = x.toWorker
  BY <1>1, ReadyAppended
<1> HIDE DEF y
<1>4. Begun(y, x, G, D)
  BY <1>1, <1>2, <1>3, AppendFollows DEF Begun
<1> QED BY <1>4 DEF y, c

LEMMA BeginKept ==
    ASSUME NEW STATE G, NEW STATE D, NEW x \in Sockets(G, D), NEW op \in Operations(D)
    PROVE  Begun(MS!Begin(x, op), x, G, D)
<1>1. CASE x.sock = "closed"
  BY <1>1, FailsBegun DEF MS!Begin
<1>2. CASE x.sock # "closed"
  <2> DEFINE y == MS!Begin(x, op)
             k == x.sock
  <2>1. y = Opening(x, k, op) /\ k \in {"closed", "opened", "connecting", "connected"}
    BY <1>2 DEF MS!Begin, Sockets, Opening
  <2> HIDE DEF y, k
  <2>2. /\ y \in Sockets(G, D) /\ Size(y) = Size(x) + 1
        /\ y.ready = x.ready /\ y.toWorker = x.toWorker
    BY <2>1, PendAppended
  <2> QED BY <2>2, SocketFields, SameFollows DEF Begun, y
<1> QED BY <1>1, <1>2

LEMMA ConnectKept ==
    ASSUME NEW STATE G, NEW STATE D, NEW x \in Sockets(G, D), MS!NoMsg \in D
    PROVE  Begun(MS!Start(x), x, G, D)
<1> DEFINE op == MS!Operation("requestAuthentication", MS!NoMsg)
           y == MS!Start(x)
<1>1. op \in Operations(D)
  BY DEF MS!Operation, Operations, MS!Handlers
<1>2. y = IF x.sock \in {"closed", "opened"}
          THEN [x EXCEPT !.sock = "connecting", !.pend = Append(@, op)]
          ELSE [x EXCEPT !.ready = Append(@, MS!Failed(op))]
  BY DEF MS!Start, MS!AsyncConnect
<1> HIDE DEF op, y
<1>3. CASE x.sock \in {"closed", "opened"}
  <2> DEFINE k == "connecting"
  <2>1. y = Opening(x, k, op) /\ k \in {"closed", "opened", "connecting", "connected"}
    BY <1>2, <1>3 DEF Opening
  <2> HIDE DEF k
  <2>2. /\ y \in Sockets(G, D) /\ Size(y) = Size(x) + 1
        /\ y.ready = x.ready /\ y.toWorker = x.toWorker
    BY <1>1, <2>1, PendAppended
  <2> QED BY <2>2, SocketFields, SameFollows DEF Begun, y
<1>4. CASE x.sock \notin {"closed", "opened"}
  BY <1>1, <1>2, <1>4, FailsBegun DEF y
<1> QED BY <1>3, <1>4

LEMMA SendKept ==
    ASSUME NEW STATE G, NEW STATE D, NEW x \in Sockets(G, D), NEW m \in D
    PROVE  Begun(MS!Send(x, m), x, G, D)
<1>1. MS!Operation("sendCommand", m) \in Operations(D)
  BY DEF MS!Operation, Operations, MS!Handlers
<1> QED BY <1>1, BeginKept DEF MS!Send, MS!AsyncSend

LEMMA ReceiveKept ==
    ASSUME NEW STATE G, NEW STATE D, NEW x \in Sockets(G, D), MS!NoMsg \in D
    PROVE  Begun(MS!Receive(x), x, G, D)
<1>1. MS!Operation("reciveCommand", MS!NoMsg) \in Operations(D)
  BY DEF MS!Operation, Operations, MS!Handlers
<1> QED BY <1>1, BeginKept DEF MS!Receive, MS!AsyncReceive

LEMMA Removal ==
    ASSUME NEW S, NEW q \in Seq(S), NEW i \in DOMAIN q
    PROVE  MS!RemoveAt(q, i) \in Seq(S) /\ Len(MS!RemoveAt(q, i)) = Len(q) - 1
<1>1. i \in 1..Len(q) /\ Len(q) \in Nat
  OBVIOUS
<1> DEFINE a == SubSeq(q, 1, i - 1)
           b == SubSeq(q, i + 1, Len(q))
<1>2. a \in Seq(S) /\ Len(a) = i - 1
  BY <1>1
<1>3. b \in Seq(S) /\ Len(b) = Len(q) - i
  BY <1>1
<1>4. MS!RemoveAt(q, i) = a \o b
  BY DEF MS!RemoveAt
<1> HIDE DEF a, b
<1>5. a \o b \in Seq(S) /\ Len(a \o b) = Len(a) + Len(b)
  BY <1>2, <1>3, Concatenation
<1> QED BY <1>1, <1>2, <1>3, <1>4, <1>5

LEMMA CompleteKept ==
    ASSUME NEW STATE G, NEW STATE D, NEW x \in Sockets(G, D), NEW i \in DOMAIN x.pend,
           NEW c \in Completions(G, D)
    PROVE  /\ MS!Complete(x, i, c) \in Sockets(G, D) /\ Size(MS!Complete(x, i, c)) = Size(x)
           /\ MS!Complete(x, i, c).ready = Append(x.ready, c)
           /\ MS!Complete(x, i, c).toWorker = x.toWorker
<1>1. x.pend \in Seq(Operations(D)) /\ x.ready \in Seq(Completions(G, D))
  BY SocketFields
<1> DEFINE y == MS!Complete(x, i, c)
           p == MS!RemoveAt(x.pend, i)
           r == Append(x.ready, c)
<1>2. r \in Seq(Completions(G, D)) /\ Len(r) = Len(x.ready) + 1 /\ Len(x.ready) \in Nat
  BY <1>1
<1>3. p \in Seq(Operations(D)) /\ Len(p) = Len(x.pend) - 1 /\ Len(x.pend) \in Nat
  <2>1. MS!RemoveAt(x.pend, i) \in Seq(Operations(D)) /\ Len(MS!RemoveAt(x.pend, i)) = Len(x.pend) - 1
    BY <1>1, Removal
  <2> QED BY <1>1, <2>1
<1>4. y = [x EXCEPT !.pend = p, !.ready = r]
  BY DEF MS!Complete
<1> HIDE DEF y, p, r
<1>5. y \in Sockets(G, D) /\ y.ready = r /\ y.pend = p /\ y.toWorker = x.toWorker
  BY <1>2, <1>3, <1>4, Zenon DEF Sockets
<1>6. Size(y) = Len(p) + Len(r) /\ Size(x) = Len(x.pend) + Len(x.ready)
  BY <1>5 DEF Size
<1>7. Size(y) = Size(x)
  <2> DEFINE a == Len(x.pend)
             b == Len(x.ready)
             d == Len(p)
             e == Len(r)
  <2>1. a \in Nat /\ b \in Nat /\ d = a - 1 /\ e = b + 1 /\ Size(y) = d + e /\ Size(x) = a + b
    BY <1>2, <1>3, <1>6
  <2> HIDE DEF a, b, d, e
  <2> QED BY <2>1
<1> QED BY <1>5, <1>7 DEF y, r

(* An operation completes and gets nothing.                                *)
Went(y, x, G, D) ==
    /\ y \in Sockets(G, D) /\ Size(y) = Size(x)
    /\ Follows(y.ready, x.ready) /\ y.toWorker = x.toWorker

LEMMA FailsKept ==
    ASSUME NEW STATE G, NEW STATE D, NEW x \in Sockets(G, D), NEW i \in DOMAIN x.pend
    PROVE  Went(MS!OperationFails(x, i), x, G, D)
<1> DEFINE c == MS!Failed(x.pend[i])
           y == MS!OperationFails(x, i)
<1>1. x.pend[i] \in Operations(D) /\ x.ready \in Seq(Completions(G, D))
  BY SocketFields
<1>2. c \in Completions(G, D) /\ Barren(c)
  BY <1>1, FailedOperation DEF Operations
<1>3. y = MS!Complete(x, i, c)
  BY DEF MS!OperationFails
<1> HIDE DEF y, c
<1>4. y \in Sockets(G, D) /\ Size(y) = Size(x) /\ y.ready = Append(x.ready, c) /\ y.toWorker = x.toWorker
  BY <1>2, <1>3, CompleteKept
<1>5. Went(y, x, G, D)
  BY <1>1, <1>2, <1>4, AppendFollows DEF Went
<1> QED BY <1>5 DEF y

LEMMA RefusedKept ==
    ASSUME NEW STATE G, NEW STATE D, NEW x \in Sockets(G, D), NEW i \in DOMAIN x.pend
    PROVE  Went(MS!ConnectRefused(x, i), x, G, D)
<1> DEFINE z == MS!OperationFails(x, i)
           y == MS!ConnectRefused(x, i)
<1>1. Went(z, x, G, D)
  BY FailsKept
<1>2. y = [z EXCEPT !.sock = "opened"]
  BY DEF MS!ConnectRefused, MS!OperationFails
<1> HIDE DEF y, z
<1>3. /\ y \in Sockets(G, D) /\ y.pend = z.pend /\ y.ready = z.ready /\ y.toWorker = z.toWorker
  BY <1>1, <1>2, Zenon DEF Went, Sockets, MS!Peers
<1>4. Size(y) = Size(z)
  BY <1>3 DEF Size
<1>5. Went(y, x, G, D)
  BY <1>1, <1>3, <1>4 DEF Went
<1> QED BY <1>5 DEF y

(* An operation that is no receive succeeds.                               *)
LEMMA SucceedsKept ==
    ASSUME NEW STATE G, NEW STATE D, NEW x \in Sockets(G, D), NEW i \in DOMAIN x.pend,
           x.pend[i].h # "reciveCommand"
    PROVE  Went(MS!Complete(x, i, MS!Succeeded(x.pend[i], <<>>)), x, G, D)
<1> DEFINE g == <<>>
           op == x.pend[i]
           c == MS!Succeeded(op, g)
           y == MS!Complete(x, i, c)
<1>1. op \in Operations(D) /\ x.ready \in Seq(Completions(G, D)) /\ g \in Seq(G)
  BY SocketFields
<1> HIDE DEF g, op
<1>2. c \in Completions(G, D) /\ c.got = g
  BY <1>1, SucceededOperation DEF op
<1>3. Barren(c)
  BY <1>2 DEF Barren, g
<1> HIDE DEF y, c
<1>4. y \in Sockets(G, D) /\ Size(y) = Size(x) /\ y.ready = Append(x.ready, c) /\ y.toWorker = x.toWorker
  BY <1>2, CompleteKept DEF y
<1>5. Went(y, x, G, D)
  BY <1>1, <1>3, <1>4, AppendFollows DEF Went
<1> QED BY <1>5 DEF y, c, op, g

LEMMA ConnectedKept ==
    ASSUME NEW STATE G, NEW STATE D, NEW x \in Sockets(G, D), NEW i \in DOMAIN x.pend,
           x.pend[i].h # "reciveCommand"
    PROVE  Went(MS!Connected(x, i), x, G, D)
<1> DEFINE z == MS!Complete(x, i, MS!Succeeded(x.pend[i], <<>>))
           y == MS!Connected(x, i)
<1>1. Went(z, x, G, D)
  BY SucceedsKept
<1>2. y = [z EXCEPT !.sock = "connected", !.peer = "open"]
  BY DEF MS!Connected
<1> HIDE DEF y, z
<1>3. /\ y \in Sockets(G, D) /\ y.pend = z.pend /\ y.ready = z.ready /\ y.toWorker = z.toWorker
  BY <1>1, <1>2, Zenon DEF Went, Sockets, MS!Peers
<1>4. Size(y) = Size(z)
  BY <1>3 DEF Size
<1>5. Went(y, x, G, D)
  BY <1>1, <1>3, <1>4 DEF Went
<1> QED BY <1>5 DEF y

LEMMA SentKept ==
    ASSUME NEW STATE G, NEW STATE D, NEW x \in Sockets(G, D), NEW i \in DOMAIN x.pend,
           x.pend[i].h # "reciveCommand"
    PROVE  Went(MS!SendDone(x, i), x, G, D)
<1> DEFINE z == MS!Complete(x, i, MS!Succeeded(x.pend[i], <<>>))
           y == MS!SendDone(x, i)
           t == IF x.peer \in {"open", "accepted"} /\ x.pend[i].m # MS!NoMsg
                THEN Append(z.toServer, x.pend[i].m) ELSE z.toServer
<1>1. Went(z, x, G, D)
  BY SucceedsKept
<1>2. y = [z EXCEPT !.toServer = t]
  BY DEF MS!SendDone
<1> HIDE DEF y, z
<1>3. x.pend[i].m \in D
  <2>1. x.pend[i] \in Operations(D)
    BY SocketFields
  <2> QED BY <2>1 DEF Operations
<1>4. t \in Seq(D)
  BY <1>1, <1>3, SocketFields DEF Went
<1> HIDE DEF t
<1>5. /\ y \in Sockets(G, D) /\ y.pend = z.pend /\ y.ready = z.ready /\ y.toWorker = z.toWorker
  BY <1>1, <1>2, <1>4, Zenon DEF Went, Sockets
<1>6. Size(y) = Size(z)
  BY <1>5 DEF Size
<1>7. Went(y, x, G, D)
  BY <1>1, <1>5, <1>6 DEF Went
<1> QED BY <1>7 DEF y

(* A receive returns the first k messages.                                 *)
Received(y, x, k, G, D) ==
    /\ y \in Sockets(G, D) /\ Size(y) = Size(x)
    /\ y.toWorker = SubSeq(x.toWorker, k + 1, Len(x.toWorker))
    /\ \E c \in Completions(G, D) :
           c.got = SubSeq(x.toWorker, 1, k) /\ y.ready = Append(x.ready, c)

LEMMA ReceivedKept ==
    ASSUME NEW STATE G, NEW STATE D, NEW x \in Sockets(G, D), NEW i \in DOMAIN x.pend,
           NEW k, k \in Nat, k # 0, k <= Len(x.toWorker), NEW y, y = MS!ReceiveDone(x, i, k)
    PROVE  Received(y, x, k, G, D)
<1> DEFINE g == SubSeq(x.toWorker, 1, k)
           w == SubSeq(x.toWorker, k + 1, Len(x.toWorker))
           op == x.pend[i]
           c == MS!Succeeded(op, g)
           z == MS!Complete(x, i, c)
<1>1. op \in Operations(D) /\ x.toWorker \in Seq(G)
  BY SocketFields
<1>2. g \in Seq(G) /\ g # <<>> /\ w \in Seq(G)
  BY <1>1
<1>3. y = [z EXCEPT !.toWorker = w] /\ z.toWorker = x.toWorker
  BY DEF MS!ReceiveDone, MS!Complete
<1> HIDE DEF g, w, op
<1>4. c \in Completions(G, D) /\ c.got = g
  BY <1>1, <1>2, SucceededOperation
<1> HIDE DEF c
<1>5. z \in Sockets(G, D) /\ Size(z) = Size(x) /\ z.ready = Append(x.ready, c)
  BY <1>4, CompleteKept
<1> HIDE DEF z
<1>6. y \in Sockets(G, D) /\ y.pend = z.pend /\ y.ready = z.ready /\ y.toWorker = w
  BY <1>2, <1>3, <1>5, Zenon DEF Sockets
<1>7. Size(y) = Size(x)
  BY <1>5, <1>6 DEF Size
<1> QED BY <1>4, <1>5, <1>6, <1>7 DEF g, w, Received

LEMMA PoppedKept ==
    ASSUME NEW STATE G, NEW STATE D, s \in Sockets(G, D), s.ready # <<>>
    PROVE  /\ MS!Popped \in Sockets(G, D) /\ Size(MS!Popped) = Size(s) - 1 /\ Size(s) \in Nat
           /\ MS!Popped.ready = Tail(s.ready) /\ MS!Popped.toWorker = s.toWorker
           /\ Head(s.ready) \in Completions(G, D) /\ s.ready \in Seq(Completions(G, D))
<1>1. s.pend \in Seq(Operations(D)) /\ s.ready \in Seq(Completions(G, D)) /\ Size(s) \in Nat
  BY SocketFields
<1> DEFINE y == MS!Popped
           r == Tail(s.ready)
<1>2. r \in Seq(Completions(G, D)) /\ Len(r) = Len(s.ready) - 1 /\ Head(s.ready) \in Completions(G, D)
  BY <1>1
<1>3. Len(s.pend) \in Nat /\ Len(s.ready) \in Nat
  BY <1>1
<1>4. y = [s EXCEPT !.ready = r]
  BY DEF MS!Popped
<1> HIDE DEF y, r
<1>5. y \in Sockets(G, D) /\ y.ready = r /\ y.pend = s.pend /\ y.toWorker = s.toWorker
  BY <1>2, <1>4, Zenon DEF Sockets
<1>6. Size(y) = Size(s) - 1
  <2> DEFINE a == Len(s.pend)
             b == Len(s.ready)
             n == Len(r)
  <2>1. a \in Nat /\ b \in Nat /\ n = b - 1 /\ Size(y) = a + n /\ Size(s) = a + b
    BY <1>2, <1>3, <1>5 DEF Size
  <2> HIDE DEF a, b, n
  <2> QED BY <2>1
<1> QED BY <1>1, <1>2, <1>5, <1>6 DEF y, r

-----------------------------------------------------------------------------
(* The commands under way.  A command waits in one place only: in the      *)
(* queue j of the analysis, with one of the completions R, or among the    *)
(* messages w that have not been received; and no longer once its request  *)
(* is in S.                                                                *)

Clash(a, b) == a.t = "move" /\ b.t = "move" /\ a.q = b.q

Over(a, S) == a.t = "move" /\ a.q \in S

Distinct(a) == \A i, k \in DOMAIN a : Clash(a[i], a[k]) => i = k

Apart(a, b) == \A i \in DOMAIN a, k \in DOMAIN b : ~Clash(a[i], b[k])

Avoids(a, S) == \A i \in DOMAIN a : ~Over(a[i], S)

Piece(a, S) == Distinct(a) /\ Avoids(a, S)

Once(j, R, w, S) ==
    /\ Piece(j, S) /\ Piece(w, S) /\ Apart(j, w)
    /\ \A n \in DOMAIN R :
        /\ Piece(R[n].got, S) /\ Apart(j, R[n].got) /\ Apart(w, R[n].got)
        /\ \A k \in DOMAIN R : k # n => Apart(R[k].got, R[n].got)

Flow(x, j, b, G, D) == x \in Sockets(G, D) /\ j \in Seq(G) /\ b \in D

Registers ==
    /\ {busy, skewed, refused, together} \subseteq BOOLEAN
    /\ asked \subseteq Requests /\ answered \subseteq Requests
    /\ pings \in 0..MaxSent /\ faults \in 0..MaxFaults

-----------------------------------------------------------------------------
(* What the operations on sequences do to the pieces.                      *)

LEMMA GotType ==
    ASSUME NEW STATE G, NEW STATE D, NEW c \in Completions(G, D)
    PROVE  c.got \in Seq(G)
BY DEF Completions

LEMMA ApartSymmetric ==
    ASSUME NEW a, NEW b, Apart(a, b)
    PROVE  Apart(b, a)
BY DEF Apart, Clash

LEMMA EmptyPiece ==
    ASSUME NEW a, NEW S, NEW b, b = <<>>
    PROVE  Piece(b, S) /\ Apart(a, b) /\ Apart(b, a)
BY DEF Piece, Distinct, Avoids, Apart

(* A piece of which every message is one of a, at another place.           *)
LEMMA TailPiece ==
    ASSUME NEW STATE G, NEW a \in Seq(G), a # <<>>, NEW S, NEW b
    PROVE  /\ Piece(a, S) => Piece(Tail(a), S)
           /\ Apart(a, b) => Apart(Tail(a), b)
<1>1. \A i \in DOMAIN Tail(a) : i \in Nat /\ i + 1 \in DOMAIN a /\ Tail(a)[i] = a[i + 1]
  OBVIOUS
<1>2. ASSUME Distinct(a) PROVE Distinct(Tail(a))
  BY <1>1, <1>2 DEF Distinct
<1> QED BY <1>1, <1>2 DEF Piece, Avoids, Apart

(* The first k messages of w and the rest.                                 *)
Parted(w, k, f, r) ==
    /\ k \in Nat /\ k <= Len(w)
    /\ f = SubSeq(w, 1, k) /\ r = SubSeq(w, k + 1, Len(w))

LEMMA SubPiece ==
    ASSUME NEW STATE G, NEW w \in Seq(G), NEW k, NEW S, NEW b, NEW f, NEW r, Parted(w, k, f, r)
    PROVE  /\ Piece(w, S) => Piece(f, S) /\ Piece(r, S) /\ Apart(r, f)
           /\ Apart(b, w) => Apart(b, f) /\ Apart(b, r)
<1>0. k \in Nat
  BY DEF Parted
<1>1. \A i \in DOMAIN f : i \in Nat /\ i <= k /\ i \in DOMAIN w /\ f[i] = w[i]
  BY DEF Parted
<1>2. \A i \in DOMAIN r : i \in Nat /\ i >= 1 /\ i + k \in DOMAIN w /\ r[i] = w[i + k]
  BY DEF Parted
<1>3. Distinct(w) => Distinct(f)
  BY <1>1 DEF Distinct
<1>4. Distinct(w) => Distinct(r)
  BY <1>0, <1>2 DEF Distinct
<1>5. ASSUME Distinct(w), NEW i \in DOMAIN r, NEW n \in DOMAIN f, Clash(r[i], f[n]) PROVE FALSE
  <2>1. i + k = n
    BY <1>1, <1>2, <1>5 DEF Distinct
  <2> QED BY <2>1, <1>0, <1>1, <1>2
<1>6. Avoids(w, S) => Avoids(f, S) /\ Avoids(r, S)
  BY <1>1, <1>2 DEF Avoids
<1>7. Apart(b, w) => Apart(b, f) /\ Apart(b, r)
  BY <1>1, <1>2 DEF Apart
<1> QED BY <1>3, <1>4, <1>5, <1>6, <1>7 DEF Piece, Apart

LEMMA JoinedPiece ==
    ASSUME NEW STATE G, NEW a \in Seq(G), NEW b \in Seq(G), NEW S, NEW d
    PROVE  /\ Piece(a, S) /\ Piece(b, S) /\ Apart(a, b) => Piece(a \o b, S)
           /\ Apart(d, a) /\ Apart(d, b) => Apart(a \o b, d)
<1> DEFINE c == a \o b
<1>1. \A i \in DOMAIN c : \/ i \in DOMAIN a /\ c[i] = a[i]
                          \/ i - Len(a) \in DOMAIN b /\ c[i] = b[i - Len(a)]
  OBVIOUS
<1>2. \A i \in DOMAIN c : i \in Nat
  OBVIOUS
<1>3. Len(a) \in Nat
  OBVIOUS
<1> HIDE DEF c
<1>4. ASSUME Distinct(a), Distinct(b), Apart(a, b), Apart(b, a),
             NEW i \in DOMAIN c, NEW k \in DOMAIN c, Clash(c[i], c[k])
      PROVE  i = k
  <2>1. CASE i \in DOMAIN a /\ c[i] = a[i] /\ k \in DOMAIN a /\ c[k] = a[k]
    BY <1>4, <2>1 DEF Distinct
  <2>2. CASE i - Len(a) \in DOMAIN b /\ c[i] = b[i - Len(a)] /\ k - Len(a) \in DOMAIN b /\ c[k] = b[k - Len(a)]
    <3>1. i - Len(a) = k - Len(a)
      BY <1>4, <2>2 DEF Distinct
    <3> QED BY <3>1, <1>2, <1>3
  <2> QED BY <1>1, <1>4, <2>1, <2>2 DEF Apart
<1>5. Avoids(a, S) /\ Avoids(b, S) => Avoids(c, S)
  BY <1>1 DEF Avoids
<1>6. Apart(d, a) /\ Apart(d, b) => Apart(d, c)
  BY <1>1 DEF Apart
<1>7. Distinct(a) /\ Distinct(b) /\ Apart(a, b) => Distinct(c)
  BY <1>4, ApartSymmetric DEF Distinct
<1>8. Apart(d, a) /\ Apart(d, b) => Apart(c, d)
  BY <1>6, ApartSymmetric
<1> QED BY <1>5, <1>7, <1>8 DEF Piece, c

-----------------------------------------------------------------------------
(* Every way the link handles messages leaves a command in one place.      *)

LEMMA OnceFollows ==
    ASSUME NEW j, NEW STATE C, NEW R \in Seq(C), NEW T \in Seq(C), NEW w, NEW v, NEW S,
           Once(j, R, w, S), Follows(T, R), v \in {w, <<>>}
    PROVE  Once(j, T, v, S)
<1>1. Piece(v, S) /\ Apart(j, v)
  BY EmptyPiece DEF Once
<1>2. ASSUME NEW n \in DOMAIN T
      PROVE  /\ T[n].got = <<>> \/ (n \in DOMAIN R /\ T[n] = R[n])
  BY DEF Follows, Barren
<1>3. ASSUME NEW n \in DOMAIN T
      PROVE  /\ Piece(T[n].got, S) /\ Apart(j, T[n].got) /\ Apart(v, T[n].got)
             /\ \A k \in DOMAIN T : k # n => Apart(T[k].got, T[n].got)
  <2>1. CASE T[n].got = <<>>
    BY <2>1, EmptyPiece
  <2>2. CASE n \in DOMAIN R /\ T[n] = R[n]
    <3>1. Piece(T[n].got, S) /\ Apart(j, T[n].got) /\ Apart(w, T[n].got)
      BY <2>2 DEF Once
    <3>2. Apart(v, T[n].got)
      BY <3>1, EmptyPiece
    <3>3. ASSUME NEW k \in DOMAIN T, k # n PROVE Apart(T[k].got, T[n].got)
      <4>1. CASE T[k].got = <<>>
        BY <4>1, EmptyPiece
      <4>2. CASE k \in DOMAIN R /\ T[k] = R[k]
        BY <2>2, <3>3, <4>2 DEF Once
      <4> QED BY <1>2, <4>1, <4>2
    <3> QED BY <3>1, <3>2, <3>3
  <2> QED BY <1>2, <2>1, <2>2
<1> QED BY <1>1, <1>3 DEF Once

LEMMA OncePopped ==
    ASSUME NEW j, NEW STATE C, NEW R \in Seq(C), R # <<>>, NEW w, NEW S,
           Once(j, R, w, S)
    PROVE  Once(j, Tail(R), w, S)
<1>1. \A n \in DOMAIN Tail(R) : n \in Nat /\ n + 1 \in DOMAIN R /\ Tail(R)[n] = R[n + 1]
  OBVIOUS
<1>2. ASSUME NEW n \in DOMAIN Tail(R), NEW k \in DOMAIN Tail(R), k # n
      PROVE  Apart(Tail(R)[k].got, Tail(R)[n].got)
  <2>1. n + 1 \in DOMAIN R /\ k + 1 \in DOMAIN R /\ n + 1 # k + 1
    BY <1>1, <1>2
  <2> QED BY <1>1, <2>1 DEF Once
<1> QED BY <1>1, <1>2 DEF Once

LEMMA OnceAnalized ==
    ASSUME NEW STATE G, NEW j \in Seq(G), j # <<>>, NEW R, NEW w, NEW S, Once(j, R, w, S)
    PROVE  Once(Tail(j), R, w, S)
BY TailPiece DEF Once

(* The command that is published was the only one for its request.         *)
LEMMA OnceMoved ==
    ASSUME NEW STATE G, NEW j \in Seq(G), j # <<>>, Head(j).t = "move", NEW R, NEW w, NEW S, NEW U,
           U \subseteq S \cup {Head(j).q}, Once(j, R, w, S)
    PROVE  Once(Tail(j), R, w, U)
<1> DEFINE m == Head(j)
<1>1. 1 \in DOMAIN j /\ m = j[1]
  OBVIOUS
<1>2. ASSUME NEW a, Apart(j, a), Avoids(a, S) PROVE Avoids(a, U)
  BY <1>1, <1>2 DEF Apart, Avoids, Clash, Over
<1>3. Avoids(Tail(j), U)
  <2>1. \A i \in DOMAIN Tail(j) : i \in Nat /\ i # 0 /\ i + 1 \in DOMAIN j /\ Tail(j)[i] = j[i + 1]
    OBVIOUS
  <2>2. ASSUME NEW i \in DOMAIN Tail(j), Over(Tail(j)[i], U) PROVE FALSE
    <3>1. i + 1 \in DOMAIN j /\ i + 1 # 1 /\ Over(j[i + 1], U)
      BY <2>1, <2>2
    <3>2. ~Clash(j[i + 1], m)
      BY <1>1, <3>1 DEF Once, Piece, Distinct
    <3>3. ~Over(j[i + 1], S)
      BY <3>1 DEF Once, Piece, Avoids
    <3> QED BY <3>1, <3>2, <3>3 DEF Over, Clash
  <2> QED BY <2>2 DEF Avoids
<1>4. Once(Tail(j), R, w, S)
  BY OnceAnalized
<1>5. Avoids(w, U)
  BY <1>2 DEF Once, Piece
<1>6. ASSUME NEW n \in DOMAIN R PROVE Avoids(R[n].got, U)
  BY <1>2 DEF Once, Piece
<1> QED BY <1>3, <1>4, <1>5, <1>6 DEF Once, Piece

LEMMA OnceRecived ==
    ASSUME NEW STATE G, NEW STATE D, NEW j \in Seq(G), NEW R \in Seq(Completions(G, D)), R # <<>>,
           NEW w, NEW S, Once(j, R, w, S)
    PROVE  Once(j \o Head(R).got, Tail(R), w, S)
<1> DEFINE g == Head(R).got
           T == Tail(R)
<1>1. 1 \in DOMAIN R /\ Head(R) = R[1] /\ Head(R) \in Completions(G, D)
  OBVIOUS
<1>2. g \in Seq(G)
  BY <1>1, GotType
<1>3. Piece(g, S) /\ Apart(j, g) /\ Apart(w, g)
  BY <1>1 DEF Once
<1>4. Once(j, T, w, S)
  BY OncePopped
<1>5. ASSUME NEW n \in DOMAIN T PROVE Apart(T[n].got, g)
  <2>1. n + 1 \in DOMAIN R /\ n + 1 # 1 /\ T[n] = R[n + 1]
    OBVIOUS
  <2> QED BY <1>1, <2>1 DEF Once
<1> HIDE DEF g, T
<1>6. Piece(j \o g, S)
  BY <1>2, <1>3, <1>4, JoinedPiece DEF Once
<1>7. Apart(j \o g, w)
  <2>1. Apart(w, j)
    BY <1>4, ApartSymmetric DEF Once
  <2> QED BY <1>2, <1>3, <2>1, JoinedPiece
<1>8. ASSUME NEW n \in DOMAIN T PROVE Apart(j \o g, T[n].got)
  <2>1. Apart(T[n].got, j)
    BY <1>4, ApartSymmetric DEF Once
  <2> QED BY <1>2, <1>5, <2>1, JoinedPiece
<1>9. Once(j \o g, T, w, S)
  BY <1>4, <1>6, <1>7, <1>8 DEF Once
<1> QED BY <1>9 DEF g, T

LEMMA OnceReceived ==
    ASSUME NEW j, NEW STATE G, NEW STATE C, NEW R \in Seq(C), NEW w \in Seq(G), NEW k \in Nat,
           k <= Len(w), NEW S, NEW c \in C, c.got = SubSeq(w, 1, k), Once(j, R, w, S)
    PROVE  Once(j, Append(R, c), SubSeq(w, k + 1, Len(w)), S)
<1> DEFINE f == SubSeq(w, 1, k)
           v == SubSeq(w, k + 1, Len(w))
           T == Append(R, c)
<1>0. Parted(w, k, f, v)
  BY DEF Parted
<1> HIDE DEF f, v
<1>1. Piece(f, S) /\ Piece(v, S) /\ Apart(v, f) /\ Apart(j, f) /\ Apart(j, v)
  BY <1>0, SubPiece DEF Once
<1>2. ASSUME NEW n \in DOMAIN R PROVE Apart(R[n].got, f) /\ Apart(R[n].got, v)
  <2>1. Apart(R[n].got, w)
    BY ApartSymmetric DEF Once
  <2> QED BY <1>0, <2>1, SubPiece
<1>3. \A n \in DOMAIN T : \/ n \in DOMAIN R /\ T[n] = R[n]
                          \/ n = Len(R) + 1 /\ T[n] = c
  OBVIOUS
<1>4. c.got = f
  BY DEF f
<1> HIDE DEF T
<1>5. ASSUME NEW n \in DOMAIN T
      PROVE  /\ Piece(T[n].got, S) /\ Apart(j, T[n].got) /\ Apart(v, T[n].got)
             /\ \A i \in DOMAIN T : i # n => Apart(T[i].got, T[n].got)
  <2>1. CASE n \in DOMAIN R /\ T[n] = R[n]
    <3>1. Piece(T[n].got, S) /\ Apart(j, T[n].got)
      BY <2>1 DEF Once
    <3>2. Apart(v, T[n].got) /\ Apart(f, T[n].got)
      BY <1>2, <2>1, ApartSymmetric
    <3>3. ASSUME NEW i \in DOMAIN T, i # n PROVE Apart(T[i].got, T[n].got)
      <4>1. CASE i \in DOMAIN R /\ T[i] = R[i]
        BY <2>1, <3>3, <4>1 DEF Once
      <4>2. CASE T[i] = c
        BY <1>4, <3>2, <4>2
      <4> QED BY <1>3, <4>1, <4>2
    <3> QED BY <3>1, <3>2, <3>3
  <2>2. CASE n = Len(R) + 1 /\ T[n] = c
    <3>1. ASSUME NEW i \in DOMAIN T, i # n PROVE Apart(T[i].got, T[n].got)
      BY <1>2, <1>3, <1>4, <2>2, <3>1
    <3> QED BY <1>1, <1>4, <2>2, <3>1
  <2> QED BY <1>3, <2>1, <2>2
<1>6. Once(j, T, v, S)
  BY <1>1, <1>5 DEF Once
<1> QED BY <1>6 DEF T, v

(* A message that clashes with none under way is sent.                     *)
LEMMA OnceSent ==
    ASSUME NEW j, NEW STATE G, NEW R, NEW w \in Seq(G), NEW m, NEW S, Once(j, R, w, S),
           ~Over(m, S), NEW T, T = <<m>>, Apart(j, T), Apart(w, T),
           \A n \in DOMAIN R : Apart(R[n].got, T)
    PROVE  Once(j, R, Append(w, m), S)
<1> DEFINE v == Append(w, m)
<1>1. \A i \in DOMAIN v : \/ i \in DOMAIN w /\ v[i] = w[i]
                          \/ i = Len(w) + 1 /\ v[i] = m
  OBVIOUS
<1>2. 1 \in DOMAIN T /\ T[1] = m
  OBVIOUS
<1> HIDE DEF v
<1>3. ASSUME NEW i \in DOMAIN w PROVE ~Clash(w[i], m) /\ ~Clash(m, w[i])
  BY <1>2 DEF Apart, Clash
<1>4. Distinct(v)
  BY <1>1, <1>3 DEF Once, Piece, Distinct
<1>5. Avoids(v, S)
  BY <1>1 DEF Once, Piece, Avoids
<1>6. ASSUME NEW a, Apart(a, w), Apart(a, T) PROVE Apart(a, v)
  BY <1>1, <1>2, <1>6 DEF Apart
<1>7. Apart(j, v)
  BY <1>6 DEF Once
<1>8. ASSUME NEW n \in DOMAIN R PROVE Apart(v, R[n].got)
  <2>1. Apart(R[n].got, w)
    BY ApartSymmetric DEF Once
  <2> QED BY <1>6, <2>1, ApartSymmetric
<1> QED BY <1>4, <1>5, <1>7, <1>8 DEF Once, Piece, v

-----------------------------------------------------------------------------
(* The steps of the link, for any sets G and D that hold what the link     *)
(* itself makes.                                                           *)

Greets(G) ==
    /\ G \subseteq MS!Msg
    /\ MS!Plain("connectOk") \in G /\ MS!Plain("connectFail") \in G /\ MS!Plain("ping") \in G

Replies(D) ==
    /\ MS!NoMsg \in D /\ MS!Plain("connect") \in D /\ MS!Plain("pong") \in D /\ MS!Plain("junk") \in D
    /\ \A q \in Requests \cup {NoRequest} : MS!Reply("unknown", q) \in D

(* Socket y has every command in one place if socket x has.                *)
Keeps(y, x, j, S) == Once(j, x.ready, x.toWorker, S) => Once(j, y.ready, y.toWorker, S)

LEMMA BegunKeeps ==
    ASSUME NEW STATE G, NEW STATE D, NEW x \in Sockets(G, D), NEW y, NEW j, NEW S,
           Begun(y, x, G, D) \/ Went(y, x, G, D)
    PROVE  Keeps(y, x, j, S)
<1>1. /\ x.ready \in Seq(Completions(G, D)) /\ y.ready \in Seq(Completions(G, D))
      /\ Follows(y.ready, x.ready) /\ y.toWorker = x.toWorker
  BY SocketFields DEF Begun, Went
<1> QED BY <1>1, OnceFollows DEF Keeps

LEMMA ClosedKeeps ==
    ASSUME NEW STATE G, NEW STATE D, NEW x \in Sockets(G, D), NEW j, NEW S
    PROVE  Keeps(MS!Close(x), x, j, S)
<1> DEFINE y == MS!Close(x)
<1>1. y \in Sockets(G, D) /\ Follows(y.ready, x.ready) /\ y.toWorker \in {x.toWorker, <<>>}
  BY CloseKept
<1> HIDE DEF y
<1>2. x.ready \in Seq(Completions(G, D)) /\ y.ready \in Seq(Completions(G, D))
  BY <1>1, SocketFields
<1>3. Keeps(y, x, j, S)
  BY <1>1, <1>2, OnceFollows DEF Keeps
<1> QED BY <1>3 DEF y

LEMMA PoppedKeeps ==
    ASSUME NEW STATE G, NEW STATE D, s \in Sockets(G, D), s.ready # <<>>, NEW j, NEW S
    PROVE  Keeps(MS!Popped, s, j, S)
BY PoppedKept, OncePopped DEF Keeps

(* What a step of the link keeps: the messages' sets, and commands in one  *)
(* place.                                                                  *)
Carries(G, D, S) ==
    /\ Flow(s', json', buf', G, D)
    /\ Once(json, s.ready, s.toWorker, S) => Once(json', s'.ready, s'.toWorker, S)

LEMMA ErrorCarries ==
    ASSUME NEW STATE G, NEW STATE D, NEW STATE S, Flow(s, json, buf, G, D), Replies(D),
           MS!HandlerError
    PROVE  Carries(G, D, S) /\ Size(s') = Size(s) /\ json' = json
<1> DEFINE p == MS!Popped
           c == MS!Close(p)
           y == MS!Start(c)
<1>1. s \in Sockets(G, D) /\ s.ready # <<>> /\ s' = y /\ json' = json /\ buf' = buf /\ MS!NoMsg \in D
  BY DEF Flow, Replies, MS!HandlerError, MS!Runs, MS!Stop
<1>2. p \in Sockets(G, D) /\ Size(p) = Size(s) - 1 /\ Size(s) \in Nat /\ Keeps(p, s, json, S)
  BY <1>1, PoppedKept, PoppedKeeps
<1> HIDE DEF p
<1>3. c \in Sockets(G, D) /\ Size(c) = Size(p) /\ Keeps(c, p, json, S)
  BY <1>2, CloseKept, ClosedKeeps
<1> HIDE DEF c
<1>4. Begun(y, c, G, D)
  BY <1>1, <1>3, ConnectKept
<1> HIDE DEF y
<1>5. Keeps(y, c, json, S)
  BY <1>3, <1>4, BegunKeeps
<1>6. y \in Sockets(G, D) /\ Size(y) = Size(c) + 1
  BY <1>4 DEF Begun
<1>7. Size(y) = Size(s)
  BY <1>2, <1>3, <1>6
<1> QED BY <1>1, <1>2, <1>3, <1>5, <1>6, <1>7 DEF Carries, Flow, Keeps

(* A handler begins the next operation.                                    *)
LEMMA NextCarries ==
    ASSUME NEW STATE G, NEW STATE D, NEW STATE S, Flow(s, json, buf, G, D), s.ready # <<>>,
           Begun(s', MS!Popped, G, D), json' = json, buf' \in D
    PROVE  Carries(G, D, S) /\ Size(s') = Size(s) /\ json' = json
<1> DEFINE p == MS!Popped
<1>1. p \in Sockets(G, D) /\ Size(p) = Size(s) - 1 /\ Size(s) \in Nat /\ Keeps(p, s, json, S)
  BY PoppedKept, PoppedKeeps DEF Flow
<1> HIDE DEF p
<1>2. Begun(s', p, G, D)
  BY DEF p
<1>3. Keeps(s', p, json, S)
  BY <1>1, <1>2, BegunKeeps
<1>4. s' \in Sockets(G, D) /\ Size(s') = Size(p) + 1
  BY <1>2 DEF Begun
<1>5. Size(s') = Size(s)
  BY <1>1, <1>4
<1> QED BY <1>1, <1>3, <1>4, <1>5 DEF Carries, Flow, Keeps

LEMMA HandlersCarry ==
    ASSUME NEW STATE G, NEW STATE D, NEW STATE S, Flow(s, json, buf, G, D), Replies(D),
           MS!RequestAuthentication \/ MS!SendCommand \/ MS!SendSkews
    PROVE  Carries(G, D, S) /\ Size(s') = Size(s) /\ json' = json
<1> DEFINE p == MS!Popped
<1>1. s.ready # <<>>
  BY DEF MS!RequestAuthentication, MS!SendCommand, MS!SendSkews, MS!Runs
<1>2. p \in Sockets(G, D) /\ Head(s.ready) \in Completions(G, D)
  BY <1>1, PoppedKept DEF Flow
<1> HIDE DEF p
<1>3. CASE MS!RequestAuthentication
  <2>1. s' = MS!Send(p, buf') /\ buf' = MS!Plain("connect") /\ json' = json
    BY <1>3 DEF MS!RequestAuthentication, p
  <2>2. buf' \in D
    BY <2>1 DEF Replies
  <2>3. Begun(s', p, G, D)
    BY <1>2, <2>1, <2>2, SendKept
  <2> QED BY <1>1, <2>1, <2>2, <2>3, NextCarries DEF p
<1>4. CASE MS!SendCommand
  <2>1. s' = MS!Receive(p) /\ buf' = MS!NoMsg /\ json' = json
    BY <1>4 DEF MS!SendCommand, p
  <2>2. buf' \in D /\ MS!NoMsg \in D
    BY <2>1 DEF Replies
  <2>3. Begun(s', p, G, D)
    BY <1>2, <2>1, <2>2, ReceiveKept
  <2> QED BY <1>1, <2>1, <2>2, <2>3, NextCarries DEF p
<1>5. CASE MS!SendSkews
  <2>1. /\ json' = json /\ buf' = buf
        /\ \/ s' = [p EXCEPT !.ready = Append(@, MS!Failed(Head(s.ready)))]
           \/ s' = MS!Send(p, MS!Plain("junk"))
    BY <1>5 DEF MS!SendSkews, p
  <2>2. buf' \in D /\ MS!Plain("junk") \in D
    BY <2>1 DEF Replies, Flow
  <2>3. CASE s' = MS!Send(p, MS!Plain("junk"))
    <3>1. Begun(s', p, G, D)
      BY <1>2, <2>2, <2>3, SendKept
    <3> QED BY <1>1, <2>1, <2>2, <3>1, NextCarries DEF p
  <2>4. CASE s' = [p EXCEPT !.ready = Append(@, MS!Failed(Head(s.ready)))]
    <3> DEFINE c == Head(s.ready)
               op == [h |-> c.h, m |-> c.m]
    <3>1. op \in Operations(D)
      BY <1>2 DEF Completions, Operations
    <3>2. MS!Failed(c) = MS!Failed(op)
      BY DEF MS!Failed
    <3> HIDE DEF op
    <3>3. Begun(s', p, G, D)
      BY <1>2, <2>4, <3>1, <3>2, FailsBegun
    <3> QED BY <1>1, <2>1, <2>2, <3>3, NextCarries DEF p
  <2> QED BY <2>1, <2>3, <2>4
<1> QED BY <1>3, <1>4, <1>5

LEMMA ReciveCarries ==
    ASSUME NEW STATE G, NEW STATE D, NEW STATE S, Flow(s, json, buf, G, D), MS!ReciveCommand
    PROVE  /\ Carries(G, D, S) /\ Size(s') = Size(s) - 1 /\ Size(s) \in Nat
           /\ json' = json \o Head(s.ready).got
           /\ Head(s.ready).got \in Seq(G) /\ Head(s.ready).got # <<>>
<1> DEFINE p == MS!Popped
           c == Head(s.ready)
<1>1. /\ s.ready # <<>> /\ c.h = "reciveCommand" /\ c.ok = TRUE
      /\ s' = p /\ json' = json \o c.got /\ buf' = buf
  BY DEF MS!ReciveCommand, MS!Runs
<1>2. /\ p \in Sockets(G, D) /\ Size(p) = Size(s) - 1 /\ Size(s) \in Nat
      /\ p.ready = Tail(s.ready) /\ p.toWorker = s.toWorker
      /\ c \in Completions(G, D) /\ s.ready \in Seq(Completions(G, D))
  BY <1>1, PoppedKept DEF Flow
<1>3. c.got \in Seq(G)
  BY <1>2, GotType
<1>4. c.got # <<>>
  BY <1>1, <1>2 DEF Completions, Fruitful
<1> HIDE DEF p
<1>5. Once(json, s.ready, s.toWorker, S) => Once(json \o c.got, Tail(s.ready), s.toWorker, S)
  BY <1>1, <1>2, OnceRecived DEF Flow
<1>6. json \o c.got \in Seq(G)
  BY <1>3, Concatenation DEF Flow
<1> QED BY <1>1, <1>2, <1>3, <1>4, <1>5, <1>6 DEF Carries, Flow

(* A message is analized: it leaves the queue, and a call begins the next  *)
(* operation.                                                              *)
LEMMA AnalizedCarries ==
    ASSUME NEW STATE G, NEW STATE D, NEW STATE S, Flow(s, json, buf, G, D), json # <<>>,
           Begun(s', s, G, D), json' = Tail(json), buf' \in D
    PROVE  Carries(G, D, S) /\ Size(s') = Size(s) + 1
<1>1. s' \in Sockets(G, D) /\ Size(s') = Size(s) + 1 /\ Keeps(s', s, json, S)
  BY BegunKeeps DEF Begun, Flow
<1>2. json \in Seq(G) /\ json' \in Seq(G)
  BY DEF Flow
<1>3. Once(json, s.ready, s.toWorker, S) => Once(Tail(json), s'.ready, s'.toWorker, S)
  BY <1>1, <1>2, OnceAnalized DEF Keeps
<1> QED BY <1>1, <1>2, <1>3 DEF Carries, Flow

LEMMA PingCarries ==
    ASSUME NEW STATE G, NEW STATE D, NEW STATE S, Flow(s, json, buf, G, D), Replies(D),
           MS!ResponsePing
    PROVE  /\ Carries(G, D, S) /\ Size(s') = Size(s) + 1
           /\ json # <<>> /\ json' = Tail(json) /\ Head(json).t # "move"
<1>1. /\ json # <<>> /\ Head(json).t = "ping" /\ json' = Tail(json)
      /\ buf' = MS!Plain("pong") /\ s' = MS!Send(s, buf')
  BY DEF MS!ResponsePing, MS!Analizes, MS!Analized
<1>2. buf' \in D
  BY <1>1 DEF Replies
<1>3. Begun(s', s, G, D)
  BY <1>1, <1>2, SendKept DEF Flow
<1>4. Carries(G, D, S) /\ Size(s') = Size(s) + 1
  BY <1>1, <1>2, <1>3, AnalizedCarries
<1> QED BY <1>1, <1>4

LEMMA ConnectCarries ==
    ASSUME NEW STATE G, NEW STATE D, NEW STATE S, Flow(s, json, buf, G, D), Replies(D),
           MS!ConnectAnalize
    PROVE  /\ Carries(G, D, S)
           /\ json # <<>> /\ json' = Tail(json) /\ Head(json).t # "move"
           /\ \/ Size(s') = Size(s) + 1 /\ refused' = refused
              \/ Size(s') = Size(s) /\ refused' = TRUE
<1>1. json # <<>> /\ Head(json).t # "move" /\ json' = Tail(json) /\ buf' = buf
  BY DEF MS!ConnectAnalize, MS!Analizes, MS!Analized
<1>2. json \in Seq(G) /\ json' \in Seq(G) /\ buf' \in D /\ s \in Sockets(G, D)
  BY <1>1 DEF Flow
<1>3. CASE s' = MS!Receive(s) /\ refused' = refused
  <2>1. Begun(s', s, G, D)
    BY <1>2, <1>3, ReceiveKept DEF Replies
  <2>2. Carries(G, D, S) /\ Size(s') = Size(s) + 1
    BY <1>1, <1>2, <2>1, AnalizedCarries
  <2> QED BY <1>1, <1>3, <2>2
<1>4. CASE s' = MS!Close(s) /\ refused' = TRUE
  <2>1. s' \in Sockets(G, D) /\ Size(s') = Size(s) /\ Keeps(s', s, json, S)
    BY <1>2, <1>4, CloseKept, ClosedKeeps
  <2>2. Once(json, s.ready, s.toWorker, S) => Once(Tail(json), s'.ready, s'.toWorker, S)
    BY <1>1, <1>2, <2>1, OnceAnalized DEF Keeps
  <2> QED BY <1>1, <1>2, <1>4, <2>1, <2>2 DEF Carries, Flow
<1> QED BY <1>3, <1>4 DEF MS!ConnectAnalize, MS!Analized, MS!Stop

LEMMA UnknownCarries ==
    ASSUME NEW STATE G, NEW STATE D, NEW STATE S, Flow(s, json, buf, G, D), Greets(G), Replies(D),
           MS!MoveUnknown
    PROVE  /\ Carries(G, D, S) /\ json' = json
           /\ json # <<>> /\ Head(json).t = "move" /\ Head(json).l \notin known
<1>1. /\ json # <<>> /\ Head(json).t = "move" /\ Head(json).l \notin known /\ json' = json
      /\ buf' = MS!Reply("unknown", Head(json).q) /\ s' = MS!Send(s, buf')
  BY DEF MS!MoveUnknown, MS!Analizes
<1>2. Head(json) \in MS!Msg
  BY <1>1 DEF Flow, Greets
<1>3. Head(json).q \in Requests \cup {NoRequest}
  BY <1>2 DEF MS!Msg
<1>4. buf' \in D
  BY <1>1, <1>3 DEF Replies
<1>5. Begun(s', s, G, D)
  BY <1>1, <1>4, SendKept DEF Flow
<1>6. Keeps(s', s, json, S)
  BY <1>5, BegunKeeps DEF Flow
<1> QED BY <1>1, <1>4, <1>5, <1>6 DEF Carries, Flow, Begun, Keeps

(* The answer to a command is said of the command's request.               *)
LEMMA MoveLiftCarries ==
    ASSUME NEW STATE G, NEW STATE D, NEW STATE S, NEW f \in BOOLEAN, Flow(s, json, buf, G, D),
           MS!MoveLift(f), MS!Reply(IF f THEN "done" ELSE "failed", Head(json).q) \in D
    PROVE  /\ Carries(G, D, S) /\ Size(s') = Size(s) + 1 /\ Begun(s', s, G, D)
           /\ json # <<>> /\ json' = Tail(json) /\ Head(json).t = "move" /\ Head(json).l \in known
<1>1. /\ json # <<>> /\ Head(json).t = "move" /\ Head(json).l \in known /\ json' = Tail(json)
      /\ buf' = MS!Reply(IF f THEN "done" ELSE "failed", Head(json).q) /\ s' = MS!Send(s, buf')
  BY DEF MS!MoveLift, MS!Analizes, MS!Analized
<1>2. buf' \in D
  BY <1>1
<1>3. Begun(s', s, G, D)
  BY <1>1, <1>2, SendKept DEF Flow
<1>4. Carries(G, D, S) /\ Size(s') = Size(s) + 1
  BY <1>1, <1>2, <1>3, AnalizedCarries
<1> QED BY <1>1, <1>3, <1>4

LEMMA EndsCarries ==
    ASSUME NEW STATE G, NEW STATE D, NEW STATE S, Flow(s, json, buf, G, D), MS!AnalizeEnds
    PROVE  Carries(G, D, S) /\ Size(s') = Size(s) /\ json' = json
BY DEF MS!AnalizeEnds, Carries, Flow

-----------------------------------------------------------------------------
(* The reactor and the server.                                             *)

LEMMA WentCarries ==
    ASSUME NEW STATE G, NEW STATE D, NEW STATE S, Flow(s, json, buf, G, D),
           Went(s', s, G, D), json' = json, buf' = buf
    PROVE  Carries(G, D, S) /\ Size(s') = Size(s)
<1>1. Keeps(s', s, json, S)
  BY BegunKeeps DEF Flow
<1> QED BY <1>1 DEF Carries, Flow, Went, Keeps

LEMMA ReceiveCarries ==
    ASSUME NEW STATE G, NEW STATE D, NEW STATE S, Flow(s, json, buf, G, D),
           NEW i \in DOMAIN s.pend, NEW k \in 1..MaxChunk, k <= Len(s.toWorker),
           MS!Wire(MS!ReceiveDone(s, i, k))
    PROVE  Carries(G, D, S) /\ Size(s') = Size(s) /\ json' = json
<1>1. /\ s' = MS!ReceiveDone(s, i, k) /\ json' = json /\ buf' = buf /\ k \in Nat \ {0}
      /\ s \in Sockets(G, D)
  BY DEF MS!Wire, Flow
<1>2. /\ s' \in Sockets(G, D) /\ Size(s') = Size(s)
      /\ s'.toWorker = SubSeq(s.toWorker, k + 1, Len(s.toWorker))
      /\ \E c \in Completions(G, D) :
             c.got = SubSeq(s.toWorker, 1, k) /\ s'.ready = Append(s.ready, c)
  <2>1. k \in Nat /\ k # 0
    BY <1>1
  <2>2. Received(s', s, k, G, D)
    BY <1>1, <2>1, ReceivedKept
  <2> QED BY <2>2 DEF Received
<1>3. PICK c \in Completions(G, D) :
          c.got = SubSeq(s.toWorker, 1, k) /\ s'.ready = Append(s.ready, c)
  BY <1>2
<1>4. s.ready \in Seq(Completions(G, D)) /\ s.toWorker \in Seq(G)
  BY <1>1, SocketFields
<1>5. Once(json, s.ready, s.toWorker, S) => Once(json', s'.ready, s'.toWorker, S)
  <2>1. k \in Nat /\ k <= Len(s.toWorker)
    BY <1>1
  <2>2. Once(json, s.ready, s.toWorker, S)
          => Once(json, Append(s.ready, c), SubSeq(s.toWorker, k + 1, Len(s.toWorker)), S)
    BY <1>3, <1>4, <2>1, OnceReceived
  <2> QED BY <1>1, <1>2, <1>3, <2>2
<1> QED BY <1>1, <1>2, <1>5 DEF Carries, Flow

LEMMA ReactorCarries ==
    ASSUME NEW STATE G, NEW STATE D, NEW STATE S, Flow(s, json, buf, G, D),
           MS!Reactor \/ MS!SendFails
    PROVE  Carries(G, D, S) /\ Size(s') = Size(s) /\ json' = json
<1>1. ASSUME NEW i \in DOMAIN s.pend, s.pend[i].h # "reciveCommand",
             MS!Wire(MS!Connected(s, i)) \/ MS!Wire(MS!SendDone(s, i))
      PROVE  Carries(G, D, S) /\ Size(s') = Size(s) /\ json' = json
  <2>1. Went(s', s, G, D) /\ json' = json /\ buf' = buf
    BY <1>1, ConnectedKept, SentKept DEF MS!Wire, Flow
  <2> QED BY <2>1, WentCarries
<1>2. ASSUME NEW i \in DOMAIN s.pend, MS!Wire(MS!OperationFails(s, i))
      PROVE  Carries(G, D, S) /\ Size(s') = Size(s) /\ json' = json
  <2>1. Went(s', s, G, D) /\ json' = json /\ buf' = buf
    BY <1>2, FailsKept DEF MS!Wire, Flow
  <2> QED BY <2>1, WentCarries
<1>3. ASSUME NEW i \in DOMAIN s.pend, NEW k \in 1..MaxChunk, k <= Len(s.toWorker),
             MS!Wire(MS!ReceiveDone(s, i, k))
      PROVE  Carries(G, D, S) /\ Size(s') = Size(s) /\ json' = json
  BY <1>3, ReceiveCarries
<1>4. ASSUME NEW i, s.pend[i].h = "requestAuthentication" \/ MS!IsSend(s.pend[i])
      PROVE  s.pend[i].h # "reciveCommand"
  BY <1>4 DEF MS!IsSend
<1> QED BY <1>1, <1>2, <1>3, <1>4 DEF MS!Reactor, MS!SendFails

LEMMA OtherSent ==
    ASSUME NEW j, NEW STATE G, NEW R, NEW w \in Seq(G), NEW m, NEW S, Once(j, R, w, S),
           m.t # "move"
    PROVE  Once(j, R, Append(w, m), S)
<1> DEFINE T == <<m>>
<1>1. \A i \in DOMAIN T : T[i] = m
  OBVIOUS
<1>2. T = <<m>> /\ ~Over(m, S)
  BY DEF Over
<1> HIDE DEF T
<1>3. ASSUME NEW a PROVE Apart(a, T)
  BY <1>1 DEF Apart, Clash
<1> QED BY <1>2, <1>3, OnceSent

(* The server has sent messages: the rest of the socket is as before.      *)
Served(y, x, G, D) ==
    /\ y \in Sockets(G, D) /\ Size(y) = Size(x) /\ y.ready = x.ready

Serving(x, t, w, p) == [x EXCEPT !.toServer = t, !.toWorker = w, !.peer = p]

LEMMA ServedFields ==
    ASSUME NEW STATE G, NEW STATE D, NEW x \in Sockets(G, D), NEW t \in Seq(D), NEW w \in Seq(G), NEW p,
           p \in MS!Peers, NEW y,
           y = Serving(x, t, w, p)
    PROVE  Served(y, x, G, D) /\ y.toWorker = w
<1>1. y \in Sockets(G, D) /\ y.pend = x.pend /\ y.ready = x.ready /\ y.toWorker = w
  BY Zenon DEF Sockets, Serving
<1> QED BY <1>1 DEF Served, Size

LEMMA PlainSends ==
    ASSUME NEW t
    PROVE  MS!Plain(t).t = t
BY DEF MS!Plain

LEMMA ReadsCarries ==
    ASSUME NEW STATE G, NEW STATE D, NEW STATE S, Flow(s, json, buf, G, D), Greets(G),
           MS!ServerReads
    PROVE  Carries(G, D, S) /\ Size(s') = Size(s) /\ json' = json
<1> DEFINE t == Tail(s.toServer)
           w == s.toWorker
           ok == MS!Plain("connectOk")
           no == MS!Plain("connectFail")
<1>1. /\ s.toServer # <<>> /\ json' = json /\ buf' = buf
      /\ \/ s' = [s EXCEPT !.toServer = Tail(@)]
         \/ s' = [[s EXCEPT !.toServer = Tail(@)] EXCEPT !.toWorker = Append(@, ok), !.peer = "accepted"]
         \/ s' = [[s EXCEPT !.toServer = Tail(@)] EXCEPT !.toWorker = Append(@, no), !.peer = "closed"]
  BY DEF MS!ServerReads
<1>2. s \in Sockets(G, D) /\ s.toServer \in Seq(D) /\ w \in Seq(G)
  BY SocketFields DEF Flow
<1>3. t \in Seq(D)
  BY <1>1, <1>2
<1>4. ok \in G /\ no \in G /\ ok.t # "move" /\ no.t # "move"
  BY PlainSends DEF Greets
<1> HIDE DEF ok, no
<1>5. Append(w, ok) \in Seq(G) /\ Append(w, no) \in Seq(G)
  BY <1>2, <1>4
<1>6. s.peer \in MS!Peers
  BY <1>2 DEF Sockets
<1>7. \/ s' = Serving(s, t, w, s.peer)
      \/ s' = Serving(s, t, Append(w, ok), "accepted")
      \/ s' = Serving(s, t, Append(w, no), "closed")
  BY <1>1, <1>2 DEF Sockets, Serving
<1> DEFINE a == Append(w, ok)
           b == Append(w, no)
<1>a. a \in Seq(G) /\ b \in Seq(G)
  BY <1>5
<1> HIDE DEF t, w, a, b
<1>8. Served(s', s, G, D) /\ s'.toWorker \in {w, a, b}
  <2>1. CASE s' = Serving(s, t, w, s.peer)
    BY <1>2, <1>3, <1>6, <2>1, ServedFields DEF w
  <2>2. CASE s' = Serving(s, t, a, "accepted")
    <3> DEFINE p == "accepted"
    <3>1. p \in MS!Peers /\ s' = Serving(s, t, a, p)
      BY <2>2 DEF MS!Peers
    <3> HIDE DEF p
    <3> QED BY <1>2, <1>3, <1>a, <3>1, ServedFields
  <2>3. CASE s' = Serving(s, t, b, "closed")
    <3> DEFINE p == "closed"
    <3>1. p \in MS!Peers /\ s' = Serving(s, t, b, p)
      BY <2>3 DEF MS!Peers
    <3> HIDE DEF p
    <3> QED BY <1>2, <1>3, <1>a, <3>1, ServedFields
  <2> QED BY <1>7, <2>1, <2>2, <2>3 DEF a, b
<1>9. ASSUME Once(json, s.ready, s.toWorker, S) PROVE Once(json', s'.ready, s'.toWorker, S)
  <2>1. Once(json, s.ready, w, S)
    BY <1>9 DEF w
  <2>2. Once(json, s.ready, a, S) /\ Once(json, s.ready, b, S)
    BY <1>2, <1>4, <2>1, OtherSent DEF a, b
  <2> QED BY <1>1, <1>8, <2>1, <2>2 DEF Served
<1> QED BY <1>1, <1>8, <1>9 DEF Carries, Flow, Served

LEMMA SendsFlow ==
    ASSUME NEW STATE G, NEW STATE D, Flow(s, json, buf, G, D), NEW m \in G,
           MS!ServerSends(m), json' = json, buf' = buf
    PROVE  /\ Flow(s', json', buf', G, D) /\ Size(s') = Size(s)
           /\ s'.ready = s.ready /\ s'.toWorker = Append(s.toWorker, m)
<1> DEFINE t == s.toServer
           w == Append(s.toWorker, m)
           p == s.peer
<1>1. s \in Sockets(G, D) /\ t \in Seq(D) /\ s.toWorker \in Seq(G)
  BY SocketFields DEF Flow
<1>2. w \in Seq(G) /\ p \in MS!Peers
  BY <1>1 DEF Sockets
<1>3. s' = Serving(s, t, w, p)
  BY <1>1 DEF MS!ServerSends, Sockets, Serving
<1> HIDE DEF t, w, p
<1>4. Served(s', s, G, D) /\ s'.toWorker = w
  BY <1>1, <1>2, <1>3, ServedFields
<1> QED BY <1>4 DEF Flow, Served, w

LEMMA PingsCarries ==
    ASSUME NEW STATE G, NEW STATE D, NEW STATE S, Flow(s, json, buf, G, D), Greets(G),
           MS!ServerPings
    PROVE  Carries(G, D, S) /\ Size(s') = Size(s) /\ json' = json
<1> DEFINE m == MS!Plain("ping")
<1>1. m \in G /\ m.t # "move"
  BY PlainSends DEF Greets
<1>2. MS!ServerSends(m) /\ json' = json /\ buf' = buf
  BY DEF MS!ServerPings
<1> HIDE DEF m
<1>3. s.toWorker \in Seq(G)
  BY SocketFields DEF Flow
<1>4. Once(json, s.ready, s.toWorker, S) => Once(json, s.ready, Append(s.toWorker, m), S)
  BY <1>1, <1>3, OtherSent
<1> QED BY <1>1, <1>2, <1>4, SendsFlow DEF Carries

LEMMA FailsCarries ==
    ASSUME NEW STATE G, NEW STATE D, NEW STATE S, Flow(s, json, buf, G, D), MS!ServerFails
    PROVE  Carries(G, D, S) /\ Size(s') = Size(s) /\ json' = json
<1>1. s \in Sockets(G, D) /\ s.toServer \in Seq(D) /\ s.toWorker \in Seq(G)
  BY SocketFields DEF Flow
<1>2. json' = json /\ buf' = buf
  BY DEF MS!ServerFails
<1>3. ASSUME NEW p \in {"closed", "gone"}, s' = [s EXCEPT !.peer = p]
      PROVE  Carries(G, D, S) /\ Size(s') = Size(s)
  <2> DEFINE t == s.toServer
             w == s.toWorker
  <2>1. s' = Serving(s, t, w, p) /\ p \in MS!Peers
    BY <1>1, <1>3 DEF Sockets, Serving, MS!Peers
  <2>2. t \in Seq(D) /\ w \in Seq(G)
    BY <1>1
  <2> HIDE DEF t, w
  <2>3. Served(s', s, G, D) /\ s'.toWorker = w
    BY <1>1, <2>1, <2>2, ServedFields
  <2> QED BY <1>2, <2>3 DEF Carries, Flow, Served, w
<1>4. ASSUME NEW i \in DOMAIN s.pend, s' = MS!ConnectRefused(s, i)
      PROVE  Carries(G, D, S) /\ Size(s') = Size(s)
  BY <1>1, <1>2, <1>4, RefusedKept, WentCarries
<1> QED BY <1>2, <1>3, <1>4 DEF MS!ServerFails

-----------------------------------------------------------------------------
(* The strands of the link: NeverDeaf and OneStrand.                       *)

Spins(j, K) == \E i \in DOMAIN j : j[i].t = "move" /\ j[i].l \notin K

Count(x, j) == Size(x) + Len(j)

Strung(x, j, K, r, t) ==
    /\ r \/ Spins(j, K) \/ Count(x, j) > 0
    /\ t \/ Spins(j, K) \/ Count(x, j) <= 1

LEMMA StrungMeans ==
    ASSUME NEW STATE G, NEW STATE D, Flow(s, json, buf, G, D)
    PROVE  Strung(s, json, known, refused, together) <=> MS!NeverDeaf /\ MS!OneStrand
<1>1. s.pend \in Seq(Operations(D)) /\ s.ready \in Seq(Completions(G, D)) /\ json \in Seq(G)
  BY SocketFields DEF Flow
<1>2. Count(s, json) = MS!Strands
  BY <1>1 DEF Count, Size, MS!Strands
<1> QED BY <1>2 DEF Strung, Spins, MS!NeverDeaf, MS!OneStrand, MS!Spinning

(* A message leaves the queue that the loop does not spin on.              *)
LEMMA SpinsOn ==
    ASSUME NEW STATE G, NEW j \in Seq(G), j # <<>>, NEW K, Spins(j, K),
           Head(j).t # "move" \/ Head(j).l \in K
    PROVE  Spins(Tail(j), K)
<1>1. PICK i \in DOMAIN j : j[i].t = "move" /\ j[i].l \notin K
  BY DEF Spins
<1>2. i # 1 /\ i - 1 \in DOMAIN Tail(j) /\ Tail(j)[i - 1] = j[i]
  BY <1>1
<1> QED BY <1>1, <1>2 DEF Spins

LEMMA SpinsLonger ==
    ASSUME NEW STATE G, NEW j \in Seq(G), NEW g \in Seq(G), NEW K, Spins(j, K)
    PROVE  Spins(j \o g, K)
<1>1. PICK i \in DOMAIN j : j[i].t = "move" /\ j[i].l \notin K
  BY DEF Spins
<1>2. i \in DOMAIN (j \o g) /\ (j \o g)[i] = j[i]
  BY <1>1
<1> QED BY <1>1, <1>2 DEF Spins

LEMMA SameStrung ==
    ASSUME Strung(s, json, known, refused, together), Size(s') = Size(s),
           UNCHANGED <<json, known, refused, together>>
    PROVE  Strung(s', json', known', refused', together')
BY DEF Strung, Count

LEMMA AnalizedStrung ==
    ASSUME NEW STATE G, NEW STATE D, Flow(s, json, buf, G, D), Strung(s, json, known, refused, together),
           json # <<>>, json' = Tail(json), Head(json).t # "move" \/ Head(json).l \in known,
           UNCHANGED <<known, together>>,
           \/ Size(s') = Size(s) + 1 /\ refused' = refused
           \/ Size(s') = Size(s) /\ refused' = TRUE
    PROVE  Strung(s', json', known', refused', together')
<1>1. Size(s) \in Nat /\ json \in Seq(G)
  BY SocketFields DEF Flow
<1> DEFINE n == Size(s)
           l == Len(json)
           k == Len(json')
<1>2. n \in Nat /\ l \in Nat /\ k = l - 1 /\ Count(s, json) = n + l /\ Count(s', json') = Size(s') + k
  BY <1>1 DEF Count
<1>3. Spins(json, known) => Spins(json', known')
  BY <1>1, SpinsOn
<1>4. \/ Size(s') = n + 1 /\ refused' = refused
      \/ Size(s') = n /\ refused' = TRUE
  OBVIOUS
<1> HIDE DEF n, l, k
<1>5. Count(s', json') <= Count(s, json) /\ (Count(s', json') = Count(s, json) \/ refused' = TRUE)
  BY <1>2, <1>4
<1>6. Count(s', json') > 0 \/ refused' \/ ~(Count(s, json) > 0)
  BY <1>5
<1>7. Count(s', json') <= 1 \/ ~(Count(s, json) <= 1)
  BY <1>2, <1>4
<1>8. refused => refused'
  BY <1>4
<1> QED BY <1>3, <1>6, <1>7, <1>8 DEF Strung

LEMMA ReciveStrung ==
    ASSUME NEW STATE G, NEW STATE D, Flow(s, json, buf, G, D), Strung(s, json, known, refused, together),
           Size(s') = Size(s) - 1, NEW g \in Seq(G), g # <<>>, json' = json \o g,
           UNCHANGED <<known, refused>>, together' = (together \/ Len(g) > 1)
    PROVE  Strung(s', json', known', refused', together')
<1>1. Size(s) \in Nat /\ json \in Seq(G)
  BY SocketFields DEF Flow
<1> DEFINE n == Size(s)
           l == Len(json)
           k == Len(g)
           e == Len(json')
<1>2. k \in Nat /\ k # 0
  OBVIOUS
<1>3. e = l + k /\ l \in Nat
  BY <1>1, Concatenation
<1>4. Count(s, json) = n + l /\ Count(s', json') = (n - 1) + e /\ n \in Nat
  BY <1>1 DEF Count
<1>5. Spins(json, known) => Spins(json', known')
  BY <1>1, SpinsLonger
<1>6. (together \/ k > 1) => together'
  OBVIOUS
<1> HIDE DEF n, l, k, e
<1>7. Count(s', json') > 0 \/ ~(Count(s, json) > 0)
  BY <1>2, <1>3, <1>4
<1>8. k > 1 \/ Count(s', json') <= 1 \/ ~(Count(s, json) <= 1)
  BY <1>2, <1>3, <1>4
<1> QED BY <1>5, <1>6, <1>7, <1>8 DEF Strung

LEMMA SpinStrung ==
    ASSUME NEW STATE G, json \in Seq(G), json # <<>>, Head(json).t = "move", Head(json).l \notin known,
           UNCHANGED <<json, known>>
    PROVE  Strung(s', json', known', refused', together')
<1>1. 1 \in DOMAIN json /\ json[1] = Head(json)
  OBVIOUS
<1>2. Spins(json, known)
  BY <1>1 DEF Spins
<1> QED BY <1>2 DEF Strung

(* Every step of the link but those that publish or bring a command.       *)
LEMMA LinkCarries ==
    ASSUME NEW STATE G, NEW STATE D, NEW STATE S, Flow(s, json, buf, G, D), Greets(G), Replies(D),
           MS!Handle \/ MS!AnalizeOther \/ MS!Reactor \/ MS!Environment
    PROVE  /\ Carries(G, D, S)
           /\ Strung(s, json, known, refused, together)
                => Strung(s', json', known', refused', together')
<1>1. CASE MS!HandlerError \/ MS!RequestAuthentication \/ MS!SendCommand \/ MS!SendSkews
  <2>1. Carries(G, D, S) /\ Size(s') = Size(s) /\ json' = json
    BY <1>1, ErrorCarries, HandlersCarry
  <2>2. UNCHANGED <<known, refused, together>>
    BY <1>1 DEF MS!HandlerError, MS!RequestAuthentication, MS!SendCommand, MS!SendSkews, MS!history
  <2> QED BY <2>1, <2>2, SameStrung
<1>2. CASE MS!ReciveCommand
  <2> DEFINE g == Head(s.ready).got
  <2>1. /\ Carries(G, D, S) /\ Size(s') = Size(s) - 1
        /\ json' = json \o g /\ g \in Seq(G) /\ g # <<>>
    BY <1>2, ReciveCarries
  <2>2. UNCHANGED <<known, refused>> /\ together' = (together \/ Len(g) > 1)
    BY <1>2 DEF MS!ReciveCommand
  <2> HIDE DEF g
  <2> QED BY <2>1, <2>2, ReciveStrung
<1>3. CASE MS!ResponsePing \/ MS!ConnectAnalize
  <2>1. /\ Carries(G, D, S) /\ json # <<>> /\ json' = Tail(json) /\ Head(json).t # "move"
        /\ \/ Size(s') = Size(s) + 1 /\ refused' = refused
           \/ Size(s') = Size(s) /\ refused' = TRUE
    BY <1>3, PingCarries, ConnectCarries DEF MS!ResponsePing
  <2>2. UNCHANGED <<known, together>>
    BY <1>3 DEF MS!ResponsePing, MS!ConnectAnalize, MS!Analized
  <2> QED BY <2>1, <2>2, AnalizedStrung
<1>4. CASE MS!MoveUnknown
  <2>1. /\ Carries(G, D, S) /\ json' = json
        /\ json # <<>> /\ Head(json).t = "move" /\ Head(json).l \notin known
    BY <1>4, UnknownCarries
  <2>2. known' = known /\ json \in Seq(G)
    BY <1>4 DEF MS!MoveUnknown, Flow
  <2> QED BY <2>1, <2>2, SpinStrung
<1>5. CASE MS!AnalizeEnds \/ MS!Reactor \/ MS!SendFails
  <2>1. Carries(G, D, S) /\ Size(s') = Size(s) /\ json' = json
    BY <1>5, EndsCarries, ReactorCarries
  <2>2. UNCHANGED <<known, refused, together>>
    BY <1>5 DEF MS!AnalizeEnds, MS!Reactor, MS!SendFails, MS!Wire, MS!history
  <2> QED BY <2>1, <2>2, SameStrung
<1>6. CASE MS!ServerReads \/ MS!ServerPings \/ MS!ServerFails
  <2>1. Carries(G, D, S) /\ Size(s') = Size(s) /\ json' = json
    BY <1>6, ReadsCarries, PingsCarries, FailsCarries
  <2>2. UNCHANGED <<known, refused, together>>
    BY <1>6 DEF MS!ServerReads, MS!ServerPings, MS!ServerFails, MS!history
  <2> QED BY <2>1, <2>2, SameStrung
<1> QED BY <1>1, <1>2, <1>3, <1>4, <1>5, <1>6 DEF MS!Handle, MS!AnalizeOther, MS!Environment

LEMMA MoveLiftStrung ==
    ASSUME NEW STATE G, NEW STATE D, NEW f \in BOOLEAN, Flow(s, json, buf, G, D),
           MS!MoveLift(f), MS!Reply(IF f THEN "done" ELSE "failed", Head(json).q) \in D,
           Strung(s, json, known, refused, together)
    PROVE  Strung(s', json', known', refused', together')
<1>1. /\ Size(s') = Size(s) + 1
      /\ json # <<>> /\ json' = Tail(json) /\ Head(json).l \in known
  BY MoveLiftCarries
<1>2. UNCHANGED <<known, refused, together>>
  BY DEF MS!MoveLift, MS!Analized
<1> QED BY <1>1, <1>2, AnalizedStrung

LEMMA RegistersKept ==
    ASSUME Registers, NEW STATE G, NEW STATE D, Flow(s, json, buf, G, D), D \subseteq MS!Msg, MS!Next
    PROVE  Registers'
<1>1. CASE MS!Handle
  BY <1>1 DEF MS!Handle, MS!HandlerError, MS!RequestAuthentication, MS!SendCommand, MS!SendSkews,
              MS!ReciveCommand, MS!history, MS!server, Registers
<1>2. CASE MS!Analize
  BY <1>2 DEF MS!Analize, MS!AnalizeOther, MS!ResponsePing, MS!ConnectAnalize, MS!MoveUnknown,
              MS!MoveLift, MS!AnalizeEnds, MS!Analized, MS!history, MS!server, Registers
<1>3. CASE MS!Reactor \/ MS!SendFails
  BY <1>3 DEF MS!Reactor, MS!SendFails, MS!Wire, MS!history, MS!server, Registers
<1>4. CASE MS!ServerReads
  <2>1. s.toServer # <<>> /\ s.toServer \in Seq(D)
    BY <1>4, SocketFields DEF MS!ServerReads, Flow
  <2>2. Head(s.toServer) \in MS!Msg
    BY <2>1
  <2>3. {Head(s.toServer).q} \ {NoRequest} \subseteq Requests
    BY <2>2 DEF MS!Msg
  <2> QED BY <1>4, <2>3 DEF MS!ServerReads, MS!history, Registers
<1>5. CASE MS!ServerPings
  <2>1. pings' \in 0..MaxSent
    BY <1>5, LiftWorkerAssumption DEF MS!ServerPings, Registers, LiftWorkerAssumption
  <2> QED BY <1>5, <2>1 DEF MS!ServerPings, MS!history, Registers
<1>6. CASE MS!ServerFails
  <2>1. faults' \in 0..MaxFaults
    BY <1>6, LiftWorkerAssumption DEF MS!ServerFails, Registers, LiftWorkerAssumption
  <2> QED BY <1>6, <2>1 DEF MS!ServerFails, MS!history, Registers
<1>7. CASE \E q \in Requests, l \in Lifts : MS!ServerMoves(q, l)
  BY <1>7 DEF MS!ServerMoves, MS!history, Registers
<1> QED BY <1>1, <1>2, <1>3, <1>4, <1>5, <1>6, <1>7 DEF MS!Next, MS!Environment

-----------------------------------------------------------------------------
(* The link on its own, module MSWorker.                                   *)

MInv ==
    /\ Flow(s, json, buf, MS!Msg, MS!Msg) /\ Registers /\ known \subseteq Lifts
    /\ Strung(s, json, known, refused, together)

LEMMA ReplyType ==
    ASSUME NEW t \in {"unknown", "done", "failed"}, NEW q \in Requests \cup {NoRequest}
    PROVE  MS!Reply(t, q) \in MS!Msg
BY DEF MS!Reply, MS!Msg

LEMMA MsgFlows == Greets(MS!Msg) /\ Replies(MS!Msg)
<1>1. /\ MS!Plain("connectOk") \in MS!Msg /\ MS!Plain("connectFail") \in MS!Msg
      /\ MS!Plain("ping") \in MS!Msg /\ MS!NoMsg \in MS!Msg /\ MS!Plain("connect") \in MS!Msg
      /\ MS!Plain("pong") \in MS!Msg /\ MS!Plain("junk") \in MS!Msg
  BY DEF MS!Plain, MS!Msg, MS!NoMsg
<1>2. ASSUME NEW q \in Requests \cup {NoRequest} PROVE MS!Reply("unknown", q) \in MS!Msg
  BY ReplyType
<1> QED BY <1>1, <1>2 DEF Greets, Replies

LEMMA NewSocketSized ==
    ASSUME NEW STATE G, NEW STATE D
    PROVE  MS!NewSocket \in Sockets(G, D) /\ Size(MS!NewSocket) = 0
<1>1. <<>> \in Seq(G) /\ <<>> \in Seq(D) /\ <<>> \in Seq(Operations(D)) /\ <<>> \in Seq(Completions(G, D))
  OBVIOUS
<1>2. MS!NewSocket \in Sockets(G, D)
  BY <1>1, Zenon DEF MS!NewSocket, Sockets, MS!Peers
<1>3. MS!NewSocket.pend = <<>> /\ MS!NewSocket.ready = <<>>
  BY DEF MS!NewSocket
<1> QED BY <1>2, <1>3 DEF Size

LEMMA LinkInit == MS!Init => MInv
<1> SUFFICES ASSUME MS!Init PROVE MInv
  OBVIOUS
<1> DEFINE x == MS!NewSocket
<1>1. x \in Sockets(MS!Msg, MS!Msg) /\ Size(x) = 0
  BY NewSocketSized
<1>2. s = MS!Start(x) /\ json = <<>> /\ buf = MS!NoMsg /\ MS!NoMsg \in MS!Msg
  BY MsgFlows DEF MS!Init, Replies
<1> HIDE DEF x
<1>3. Begun(s, x, MS!Msg, MS!Msg)
  BY <1>1, <1>2, ConnectKept
<1>4. s \in Sockets(MS!Msg, MS!Msg) /\ Size(s) = 1
  BY <1>1, <1>3 DEF Begun
<1>5. Flow(s, json, buf, MS!Msg, MS!Msg)
  BY <1>2, <1>4 DEF Flow
<1>6. Registers
  <2>1. 0 \in 0..MaxSent /\ 0 \in 0..MaxFaults
    BY LiftWorkerAssumption
  <2> QED BY <2>1, Zenon DEF MS!Init, Registers
<1>7. Len(json) = 0
  BY <1>2
<1>8. Strung(s, json, known, refused, together)
  BY <1>4, <1>7 DEF Strung, Count
<1> QED BY <1>5, <1>6, <1>8 DEF MInv, MS!Init

LEMMA LinkNext == MInv /\ [MS!Next]_(MS!vars) => MInv'
<1> SUFFICES ASSUME MInv, [MS!Next]_(MS!vars) PROVE MInv'
  OBVIOUS
<1> DEFINE M == MS!Msg
<1>0. M' = M
  BY DEF MS!Msg
<1>1. Flow(s, json, buf, M, M) /\ Strung(s, json, known, refused, together) /\ known \subseteq Lifts
  BY DEF MInv
<1>2. CASE UNCHANGED MS!vars
  BY <1>2 DEF MInv, MS!vars, MS!server, MS!history, Flow, Registers, Strung
<1>3. ASSUME MS!Next, Flow(s', json', buf', M, M), Strung(s', json', known', refused', together'),
             known' = known
      PROVE  MInv'
  <2>1. Registers'
    BY <1>3, RegistersKept DEF MInv
  <2> QED BY <1>1, <1>3, <2>1 DEF MInv, Flow
<1>4. CASE MS!Handle \/ MS!AnalizeOther \/ MS!Reactor \/ MS!Environment
  <2>1. Carries(M, M, {}) /\ Strung(s', json', known', refused', together')
    BY <1>1, <1>4, LinkCarries, MsgFlows
  <2>2. MS!Next
    BY <1>4 DEF MS!Next, MS!Analize
  <2> QED BY <1>3, <1>4, <2>1, <2>2, LinkLeavesTable DEF Carries
<1>5. CASE \E f \in BOOLEAN : MS!MoveLift(f)
  <2>1. PICK f \in BOOLEAN : MS!MoveLift(f)
    BY <1>5
  <2>2. json # <<>> /\ json \in Seq(M) /\ known' = known
    BY <1>1, <2>1 DEF MS!MoveLift, MS!Analizes, MS!Analized, Flow
  <2>3. Head(json).q \in Requests \cup {NoRequest}
    <3>1. Head(json) \in M
      BY <2>2
    <3> QED BY <3>1 DEF MS!Msg
  <2>4. MS!Reply(IF f THEN "done" ELSE "failed", Head(json).q) \in M
    BY <2>3, ReplyType
  <2>5. Carries(M, M, {}) /\ Strung(s', json', known', refused', together')
    BY <1>1, <2>1, <2>4, MoveLiftCarries, MoveLiftStrung
  <2>6. MS!Next
    BY <1>5 DEF MS!Next, MS!Analize
  <2> QED BY <1>3, <2>2, <2>5, <2>6 DEF Carries
<1>6. ASSUME NEW q \in Requests, NEW l \in Lifts, MS!ServerMoves(q, l) PROVE MInv'
  <2> DEFINE m == [t |-> "move", q |-> q, l |-> l]
  <2>1. m \in M
    BY DEF MS!Msg
  <2>2. MS!ServerSends(m) /\ UNCHANGED <<json, buf, known, refused, together>>
    BY <1>6 DEF MS!ServerMoves, MS!history
  <2> HIDE DEF m
  <2>3. Flow(s', json', buf', M, M) /\ Size(s') = Size(s)
    BY <1>1, <2>1, <2>2, SendsFlow
  <2>4. Strung(s', json', known', refused', together')
    BY <1>1, <2>2, <2>3, SameStrung
  <2>5. MS!Next
    BY <1>6 DEF MS!Next
  <2> QED BY <1>3, <2>2, <2>3, <2>4, <2>5
<1> QED BY <1>2, <1>4, <1>5, <1>6 DEF MS!Next, MS!Analize

LEMMA FlowTypes ==
    ASSUME Flow(s, json, buf, MS!Msg, MS!Msg), Registers, known \subseteq Lifts
    PROVE  MS!TypeOK
<1> DEFINE M == MS!Msg
<1>1. Operations(M) = MS!Op
  BY DEF Operations, MS!Op
<1>2. Completions(M, M) \subseteq MS!Completion
  BY DEF Completions, MS!Completion
<1>3. s.ready \in Seq(MS!Completion)
  BY <1>2, SocketFields DEF Flow
<1>4. s \in MS!SocketType
  BY <1>1, <1>3, Zenon DEF Flow, Sockets, MS!SocketType
<1> QED BY <1>4 DEF Flow, Registers, MS!TypeOK

LEMMA LinkMeans == MInv => MS!LinkSound
BY FlowTypes, StrungMeans DEF MInv, MS!LinkSound

(* The link on its own keeps its types, never goes deaf, and handles one   *)
(* thing at a time as long as messages arrive one by one: through every    *)
(* error, reconnect, refused connect and send of what is not the message,  *)
(* a handler of MSWorker.cpp that returns has begun exactly one operation. *)
THEOREM LinkAlwaysSound == MS!Spec => []MS!LinkSound
<1> QED BY LinkInit, LinkNext, LinkMeans, PTL DEF MS!Spec

-----------------------------------------------------------------------------
(* The composed worker.                                                    *)

(* What publish returned for a command: nothing yet, or one value.         *)
Results == {<<>>, <<TRUE>>, <<FALSE>>}

(* What the composed worker knows of the messages on its link: a command   *)
(* was asked for, and an answer says what publish returned.                *)
Incoming == {m \in MS!Msg : m.t = "move" => m.q \in asked}

Outgoing ==
    {m \in MS!Msg :
        /\ m.t = "done" => m.q \in Requests /\ moves[m.q] = <<TRUE>>
        /\ m.t = "failed" => m.q \in Requests /\ moves[m.q] = <<FALSE>>}

Published == {q \in Requests : moves[q] # <<>>}

(* Before __startWorkers the link is untouched.                            *)
Unstarted == s = MS!NewSocket /\ json = <<>> /\ ~busy

(* The invariant of the composed worker's link.                            *)
LInv ==
    /\ Flow(s, json, buf, Incoming, Outgoing) /\ Registers
    /\ starts = 0 => Unstarted
    /\ starts # 0 => Strung(s, json, known, refused, together)
    /\ changes \in 0..MaxChanges
    /\ Once(json, s.ready, s.toWorker, Published) /\ Published \subseteq asked
    /\ moves \in [Requests -> Results]

LEMMA FlowGrows ==
    ASSUME NEW x, NEW j, NEW b, NEW G, NEW D, NEW H, NEW E, Flow(x, j, b, G, D),
           G \subseteq H, D \subseteq E
    PROVE  Flow(x, j, b, H, E)
<1>1. Seq(G) \subseteq Seq(H) /\ Seq(D) \subseteq Seq(E)
  OBVIOUS
<1>2. Operations(D) \subseteq Operations(E)
  BY DEF Operations
<1>3. Completions(G, D) \subseteq Completions(H, E)
  <2> SUFFICES ASSUME NEW c \in Completions(G, D) PROVE c \in Completions(H, E)
    OBVIOUS
  <2> QED BY <1>1, Zenon DEF Completions
<1>4. x.pend \in Seq(Operations(E)) /\ x.ready \in Seq(Completions(H, E))
  <2>1. x.pend \in Seq(Operations(D)) /\ x.ready \in Seq(Completions(G, D))
    BY DEF Flow, Sockets
  <2> QED BY <1>2, <1>3, <2>1
<1>5. x \in Sockets(H, E)
  BY <1>1, <1>4, Zenon DEF Flow, Sockets
<1> QED BY <1>1, <1>5 DEF Flow

LEMMA LinkLeavesAsked ==
    ASSUME MS!Handle \/ MS!AnalizeOther \/ MS!Reactor \/ MS!Environment
    PROVE  asked' = asked
<1>1. CASE MS!Handle
  BY <1>1 DEF MS!Handle, MS!HandlerError, MS!RequestAuthentication, MS!SendCommand,
              MS!SendSkews, MS!ReciveCommand, MS!server
<1>2. CASE MS!AnalizeOther
  BY <1>2 DEF MS!AnalizeOther, MS!ResponsePing, MS!ConnectAnalize, MS!MoveUnknown,
              MS!AnalizeEnds, MS!Analized, MS!server
<1>3. CASE MS!Reactor
  BY <1>3 DEF MS!Reactor, MS!Wire, MS!server
<1>4. CASE MS!Environment
  BY <1>4 DEF MS!Environment, MS!SendFails, MS!Wire, MS!ServerReads, MS!ServerPings,
              MS!ServerFails, MS!server
<1> QED BY <1>1, <1>2, <1>3, <1>4

(* Nothing happens on the link before it is started.                       *)
LEMMA UnstartedStays ==
    ASSUME Unstarted, MS!Next
    PROVE  FALSE
<1>1. s.pend = <<>> /\ s.ready = <<>> /\ s.toServer = <<>> /\ s.peer = "none" /\ s.sock = "closed"
  BY DEF Unstarted, MS!NewSocket
<1>2. ~busy
  BY DEF Unstarted
<1>3. CASE MS!Handle
  BY <1>1, <1>3 DEF MS!Handle, MS!HandlerError, MS!RequestAuthentication, MS!SendCommand,
                    MS!SendSkews, MS!ReciveCommand, MS!Runs
<1>4. CASE MS!Analize
  BY <1>2, <1>4 DEF MS!Analize, MS!AnalizeOther, MS!ResponsePing, MS!ConnectAnalize, MS!MoveUnknown,
                    MS!MoveLift, MS!AnalizeEnds, MS!Analizes
<1>5. CASE MS!Reactor \/ MS!SendFails
  BY <1>1, <1>5 DEF MS!Reactor, MS!SendFails
<1>6. CASE MS!ServerReads \/ MS!ServerPings \/ MS!ServerFails \/ \E q \in Requests, l \in Lifts : MS!ServerMoves(q, l)
  BY <1>1, <1>6 DEF MS!ServerReads, MS!ServerPings, MS!ServerFails, MS!ServerMoves, MS!ServerSends
<1> QED BY <1>3, <1>4, <1>5, <1>6 DEF MS!Next, MS!Environment

LEMMA InAndOut ==
    ASSUME LInv
    PROVE  Greets(Incoming) /\ Replies(Outgoing) /\ Incoming \subseteq MS!Msg /\ Outgoing \subseteq MS!Msg
<1>1. Greets(MS!Msg) /\ Replies(MS!Msg)
  BY MsgFlows
<1>2. ASSUME NEW m \in MS!Msg, m.t # "move" PROVE m \in Incoming
  BY <1>2 DEF Incoming
<1>3. ASSUME NEW m \in MS!Msg, m.t # "done", m.t # "failed" PROVE m \in Outgoing
  BY <1>3 DEF Outgoing
<1>4. Greets(Incoming)
  BY <1>1, <1>2, PlainSends DEF Greets, Incoming
<1>5. ASSUME NEW q \in Requests \cup {NoRequest} PROVE MS!Reply("unknown", q) \in Outgoing
  <2>1. MS!Reply("unknown", q) \in MS!Msg /\ MS!Reply("unknown", q).t = "unknown"
    BY <1>1 DEF Replies, MS!Reply
  <2> QED BY <1>3, <2>1
<1>6. MS!NoMsg.t = "none"
  BY PlainSends DEF MS!NoMsg
<1>7. Replies(Outgoing)
  BY <1>1, <1>3, <1>5, <1>6, PlainSends DEF Replies
<1> QED BY <1>4, <1>7 DEF Incoming, Outgoing

(* A step that leaves the link and what was published alone.               *)
LEMMA QuietKeeps ==
    ASSUME LInv, UNCHANGED <<link, moves, starts>>, Incoming \subseteq Incoming',
           changes' \in 0..MaxChanges
    PROVE  LInv'
<1>1. Outgoing' = Outgoing /\ Published' = Published
  BY DEF Outgoing, Published, MS!Msg
<1>2. UNCHANGED <<s, json, buf, busy, skewed, known, asked, pings, faults, answered, refused, together>>
  BY DEF link
<1>3. Flow(s, json, buf, Incoming', Outgoing')
  BY <1>1, FlowGrows DEF LInv
<1>4. Registers' /\ (starts' = 0 => Unstarted') /\ (starts' # 0 => Strung(s, json, known, refused, together))
  BY <1>2 DEF LInv, Registers, Unstarted
<1>5. Once(json, s.ready, s.toWorker, Published) /\ Published \subseteq asked /\ moves' \in [Requests -> Results]
  BY DEF LInv
<1> QED BY <1>1, <1>2, <1>3, <1>4, <1>5 DEF LInv

LEMMA LinkKeepsLInv ==
    ASSUME LInv, Link
    PROVE  LInv'
<1>1. /\ MS!Handle \/ MS!AnalizeOther \/ MS!Reactor \/ MS!Environment
      /\ UNCHANGED <<starts, respData, db, changes, moves>>
  BY DEF Link, loader, outside
<1>2. MS!Next
  BY <1>1 DEF MS!Next, MS!Analize
<1>3. starts # 0 /\ Strung(s, json, known, refused, together)
  BY <1>2, UnstartedStays DEF LInv
<1>4. known' = known /\ asked' = asked
  BY <1>1, LinkLeavesTable, LinkLeavesAsked
<1>5. Incoming' = Incoming /\ Outgoing' = Outgoing /\ Published' = Published
  BY <1>1, <1>4 DEF Incoming, Outgoing, Published, MS!Msg
<1>6. Flow(s, json, buf, Incoming, Outgoing) /\ Once(json, s.ready, s.toWorker, Published) /\ Published \subseteq asked
  BY DEF LInv
<1>7. /\ Carries(Incoming, Outgoing, Published)
      /\ Strung(s', json', known', refused', together')
  BY <1>1, <1>3, <1>6, InAndOut, LinkCarries
<1>8. Registers'
  BY <1>2, <1>6, InAndOut, RegistersKept DEF LInv
<1>9. changes' \in 0..MaxChanges /\ moves' \in [Requests -> Results]
  BY <1>1, <1>4 DEF LInv
<1> QED BY <1>1, <1>3, <1>4, <1>5, <1>6, <1>7, <1>8, <1>9 DEF LInv, Carries

LEMMA StartKeepsLInv ==
    ASSUME LInv, IInv, StartWorkers
    PROVE  LInv'
<1>1. /\ starts = 0 /\ starts' = 1 /\ respData # {} /\ known' = respData /\ s' = MS!Start(s)
      /\ UNCHANGED <<respData, db, changes, moves, buf, json, busy, skewed, asked,
                     pings, faults, answered, refused, together>>
  BY DEF StartWorkers, Called, UpdateData, Untouched, IInv, outside
<1>2. Unstarted /\ Flow(s, json, buf, Incoming, Outgoing)
  BY <1>1 DEF LInv
<1>3. Begun(s', s, Incoming, Outgoing)
  BY <1>1, <1>2, ConnectKept, InAndOut DEF Flow, Replies
<1>4. Keeps(s', s, json, Published)
  BY <1>2, <1>3, BegunKeeps DEF Flow
<1>5. Incoming' = Incoming /\ Outgoing' = Outgoing /\ Published' = Published
  BY <1>1 DEF Incoming, Outgoing, Published, MS!Msg
<1>6. Flow(s', json', buf', Incoming, Outgoing)
  BY <1>1, <1>2, <1>3 DEF Flow, Begun
<1>7. Strung(s', json', known', refused', together')
  <2>1. Size(s) = 0 /\ json' = <<>>
    BY <1>1, <1>2, NewSocketSized DEF Unstarted
  <2>2. Size(s') = 1 /\ Len(json') = 0
    BY <1>3, <2>1 DEF Begun
  <2> QED BY <2>2 DEF Strung, Count
<1>8. changes' \in 0..MaxChanges /\ moves' \in [Requests -> Results]
  BY <1>1 DEF LInv
<1>9. Registers' /\ Once(json', s'.ready, s'.toWorker, Published) /\ Published \subseteq asked
  BY <1>1, <1>4 DEF LInv, Registers, Keeps
<1> QED BY <1>1, <1>5, <1>6, <1>7, <1>8, <1>9 DEF LInv

LEMMA LoadKeepsLInv ==
    ASSUME LInv, IInv, Load
    PROVE  LInv'
<1>1. CASE StartWorkers
  BY <1>1, StartKeepsLInv
<1>2. CASE StartWorkersFails \/ UpdateDataCallback \/ UpdateTimer \/ DbAnswers
  <2>1. UNCHANGED <<link, moves, starts, changes>>
    BY <1>2 DEF StartWorkersFails, UpdateDataCallback, UpdateTimer, DbAnswers, Untouched, link, outside
  <2>2. Incoming' = Incoming
    BY <2>1 DEF Incoming, MS!Msg, link
  <2>3. changes' \in 0..MaxChanges
    BY <2>1 DEF LInv
  <2> QED BY <2>1, <2>2, <2>3, QuietKeeps
<1> QED BY <1>1, <1>2 DEF Load

LEMMA OutsideKeepsLInv ==
    ASSUME LInv, Broker \/ DbChanges
    PROVE  LInv'
<1>1. UNCHANGED <<link, moves, starts>>
  BY DEF Broker, DbChanges, loader
<1>2. changes' \in 0..MaxChanges
  BY LiftWorkerAssumption DEF LInv, Broker, DbChanges, outside
<1>3. Incoming' = Incoming
  BY <1>1 DEF Incoming, MS!Msg, link
<1> QED BY <1>1, <1>2, <1>3, QuietKeeps

(* A command is sent for a request that has none yet.                      *)
LEMMA FreshApart ==
    ASSUME NEW a \in Seq(Incoming), NEW m, m.q \notin asked, NEW T, T = <<m>>
    PROVE  Apart(a, T)
<1>1. \A i \in DOMAIN T : T[i] = m
  OBVIOUS
<1>2. ASSUME NEW i \in DOMAIN a PROVE ~Clash(a[i], m)
  BY DEF Incoming, Clash
<1> QED BY <1>1, <1>2 DEF Apart

LEMMA ServerMovesKeepsLInv ==
    ASSUME LInv, NEW q \in Requests, NEW l \in Lifts, ServerMoves(q, l)
    PROVE  LInv'
<1> DEFINE m == [t |-> "move", q |-> q, l |-> l]
           H == Incoming'
<1>1. /\ q \notin asked /\ asked' = asked \cup {q} /\ MS!ServerSends(m)
      /\ UNCHANGED <<starts, respData, db, changes, moves, json, buf, known, refused, together>>
  BY DEF ServerMoves, MS!ServerMoves, loader, outside, MS!history
<1>2. MS!Next
  BY DEF ServerMoves, MS!Next
<1>3. starts # 0 /\ Strung(s, json, known, refused, together)
  BY <1>2, UnstartedStays DEF LInv
<1>4. Outgoing' = Outgoing /\ Published' = Published
  BY <1>1 DEF Outgoing, Published, MS!Msg
<1>5. Incoming \subseteq Incoming'
  BY <1>1 DEF Incoming, MS!Msg
<1>6. m \in Incoming'
  <2>1. m \in MS!Msg /\ m.t = "move" /\ m.q = q /\ m.l = l
    BY DEF MS!Msg
  <2> HIDE DEF m
  <2> QED BY <1>1, <2>1 DEF Incoming, MS!Msg
<1>7. m.q = q
  OBVIOUS
<1> HIDE DEF m, H
<1>8. /\ Flow(s, json, buf, Incoming, Outgoing) /\ Once(json, s.ready, s.toWorker, Published)
      /\ Published \subseteq asked
  BY DEF LInv
<1>9. Flow(s, json, buf, H, Outgoing) /\ m \in H
  BY <1>5, <1>6, <1>8, FlowGrows DEF H
<1>10. /\ Flow(s', json', buf', H, Outgoing) /\ Size(s') = Size(s)
       /\ s'.ready = s.ready /\ s'.toWorker = Append(s.toWorker, m)
  BY <1>1, <1>9, SendsFlow
<1>11. Strung(s', json', known', refused', together')
  BY <1>1, <1>3, <1>10, SameStrung
<1>12. Once(json, s.ready, Append(s.toWorker, m), Published)
  <2> DEFINE T == <<m>>
  <2>1. T = <<m>> /\ ~Over(m, Published) /\ m.q \notin asked
    BY <1>1, <1>7, <1>8 DEF Over
  <2> HIDE DEF T
  <2>2. json \in Seq(Incoming) /\ s.toWorker \in Seq(Incoming) /\ s.ready \in Seq(Completions(Incoming, Outgoing))
    BY <1>8, SocketFields DEF Flow
  <2>3. Apart(json, T) /\ Apart(s.toWorker, T)
    BY <2>1, <2>2, FreshApart
  <2>4. ASSUME NEW n \in DOMAIN s.ready PROVE Apart(s.ready[n].got, T)
    <3>1. s.ready[n].got \in Seq(Incoming)
      BY <2>2, GotType
    <3> QED BY <2>1, <3>1, FreshApart
  <2> QED BY <1>8, <2>1, <2>2, <2>3, <2>4, OnceSent
<1>13. Registers'
  BY <1>2, <1>8, InAndOut, RegistersKept DEF LInv
<1>14. changes' \in 0..MaxChanges /\ moves' \in [Requests -> Results]
  BY <1>1 DEF LInv
<1>15. Once(json', s'.ready, s'.toWorker, Published') /\ Published' \subseteq asked'
  BY <1>1, <1>4, <1>8, <1>10, <1>12
<1>16. Flow(s', json', buf', Incoming', Outgoing')
  BY <1>4, <1>10 DEF H
<1> QED BY <1>1, <1>3, <1>11, <1>13, <1>14, <1>15, <1>16 DEF LInv

LEMMA OneResult ==
    ASSUME NEW f
    PROVE  Append(<<>>, f) = <<f>> /\ <<f>> # <<>> /\ Len(<<f>>) = 1
OBVIOUS

LEMMA FirstResult ==
    ASSUME NEW f \in BOOLEAN
    PROVE  /\ Append(<<>>, f) \in Results /\ Append(<<>>, f) # <<>>
           /\ Append(<<>>, f) = IF f THEN <<TRUE>> ELSE <<FALSE>>
<1>1. Append(<<>>, f) = <<f>> /\ <<f>> # <<>>
  BY OneResult
<1>2. f = TRUE \/ f = FALSE
  OBVIOUS
<1> QED BY <1>1, <1>2, Zenon DEF Results

(* A command is published: it was the only one for its request, and from   *)
(* now on there is none.                                                   *)
LEMMA MoveKeepsLInv ==
    ASSUME LInv, MoveLift
    PROVE  LInv'
<1> DEFINE m == Head(json)
           f == BR!Found(m.l) # 0
           d == MS!Reply(IF f THEN "done" ELSE "failed", m.q)
           E == Outgoing \cup {d}
<1>1. /\ MS!MoveLift(f) /\ f \in BOOLEAN /\ json # <<>> /\ m.t = "move"
      /\ moves' = [moves EXCEPT ![m.q] = Append(@, f)]
      /\ UNCHANGED <<starts, respData, db, changes, known, asked, refused, together>>
  BY DEF MoveLift, MS!MoveLift, MS!Analizes, MS!Analized, MS!server, loader, outside
<1>2. MS!Next
  BY <1>1 DEF MS!Next, MS!Analize
<1>3. starts # 0 /\ Strung(s, json, known, refused, together)
  BY <1>2, UnstartedStays DEF LInv
<1>4. /\ Flow(s, json, buf, Incoming, Outgoing) /\ Once(json, s.ready, s.toWorker, Published)
      /\ Published \subseteq asked /\ asked \subseteq Requests /\ moves \in [Requests -> Results]
  BY DEF LInv, Registers
<1>5. 1 \in DOMAIN json /\ json[1] = m /\ m \in Incoming /\ json \in Seq(Incoming)
  BY <1>1, <1>4 DEF Flow
<1>6. m.q \in asked /\ m.q \in Requests
  BY <1>1, <1>4, <1>5 DEF Incoming
<1>7. m.q \notin Published
  BY <1>1, <1>4, <1>5 DEF Once, Piece, Avoids, Over
<1>8. moves[m.q] = <<>>
  BY <1>6, <1>7 DEF Published
<1> HIDE DEF f, m
<1>a. /\ Append(<<>>, f) \in Results /\ Append(<<>>, f) # <<>>
      /\ Append(<<>>, f) = IF f THEN <<TRUE>> ELSE <<FALSE>>
  BY <1>1, FirstResult
<1>9. /\ moves' \in [Requests -> Results] /\ moves'[m.q] = Append(<<>>, f)
      /\ \A q \in Requests : q # m.q => moves'[q] = moves[q]
  BY <1>1, <1>4, <1>6, <1>8, <1>a
<1>10. Published' = Published \cup {m.q}
  BY <1>6, <1>9, <1>a DEF Published
<1>11. Incoming' = Incoming
  BY <1>1 DEF Incoming, MS!Msg
<1>12. E \subseteq Outgoing'
  <2>1. ASSUME NEW x \in Outgoing PROVE x \in Outgoing'
    BY <1>8, <1>9, OneResult DEF Outgoing, MS!Msg
  <2>2. /\ d \in MS!Msg /\ d.q = m.q /\ d.t = IF f THEN "done" ELSE "failed"
    BY <1>1, <1>6, ReplyType DEF MS!Reply
  <2> HIDE DEF d
  <2>3. d \in Outgoing'
    BY <1>1, <1>6, <1>9, <1>a, <2>2 DEF Outgoing, MS!Msg
  <2> QED BY <2>1, <2>3
<1>13. MS!Reply(IF f THEN "done" ELSE "failed", m.q) \in E /\ Outgoing \subseteq E
  OBVIOUS
<1> HIDE DEF E
<1>14. Flow(s, json, buf, Incoming, E)
  BY <1>4, <1>13, FlowGrows
<1>15. /\ Carries(Incoming, E, Published) /\ Begun(s', s, Incoming, E) /\ json' = Tail(json)
       /\ Strung(s', json', known', refused', together')
  BY <1>1, <1>3, <1>13, <1>14, MoveLiftCarries, MoveLiftStrung DEF m
<1>16. Flow(s', json', buf', Incoming', Outgoing')
  BY <1>11, <1>12, <1>15, FlowGrows DEF Carries
<1>17. Once(json', s'.ready, s'.toWorker, Published')
  <2>1. Once(json, s'.ready, s'.toWorker, Published)
    BY <1>4, <1>14, <1>15, BegunKeeps DEF Keeps, Flow
  <2> DEFINE U == Published \cup {m.q}
  <2>2. U \subseteq Published \cup {Head(json).q} /\ Head(json).t = "move"
    BY <1>1 DEF m
  <2> HIDE DEF U
  <2>3. Once(Tail(json), s'.ready, s'.toWorker, U)
    BY <1>1, <1>5, <2>1, <2>2, OnceMoved
  <2> QED BY <1>10, <1>15, <2>3 DEF U
<1>18. Published' \subseteq asked' /\ changes' \in 0..MaxChanges
  BY <1>1, <1>4, <1>6, <1>10 DEF LInv
<1>19. Registers'
  BY <1>2, <1>4, InAndOut, RegistersKept DEF LInv
<1> QED BY <1>1, <1>3, <1>9, <1>15, <1>16, <1>17, <1>18, <1>19 DEF LInv

LEMMA ComposedInit == Init => LInv
<1> SUFFICES ASSUME Init PROVE LInv
  OBVIOUS
<1>1. s = MS!NewSocket /\ json = <<>> /\ buf = MS!NoMsg /\ s.ready = <<>> /\ s.toWorker = <<>> /\ ~busy
  BY DEF Init, MS!NewSocket
<1>2. moves = [q \in Requests |-> <<>>] /\ Published = {} /\ starts = 0 /\ changes = 0
  BY DEF Init, Published
<1>3. buf \in Outgoing
  <2>1. MS!NoMsg \in MS!Msg /\ MS!NoMsg.t = "none"
    BY MsgFlows, PlainSends DEF Replies, MS!NoMsg
  <2> QED BY <1>1, <2>1 DEF Outgoing
<1>4. Flow(s, json, buf, Incoming, Outgoing)
  BY <1>1, <1>3, NewSocketSized DEF Flow
<1>5. Registers
  <2>1. 0 \in 0..MaxSent /\ 0 \in 0..MaxFaults
    BY LiftWorkerAssumption
  <2> QED BY <2>1, Zenon DEF Init, Registers
<1>6. Once(json, s.ready, s.toWorker, Published)
  <2>1. Piece(json, Published) /\ Piece(s.toWorker, Published) /\ Apart(json, s.toWorker)
    BY <1>1, EmptyPiece
  <2> QED BY <1>1, <2>1 DEF Once
<1>7. changes \in 0..MaxChanges
  BY <1>2, LiftWorkerAssumption
<1>8. moves \in [Requests -> Results]
  BY <1>2 DEF Results
<1> QED BY <1>1, <1>2, <1>4, <1>5, <1>6, <1>7, <1>8 DEF LInv, Unstarted

LEMMA ComposedNext == LInv /\ IInv /\ [Next]_vars => LInv'
<1> SUFFICES ASSUME LInv, IInv, [Next]_vars PROVE LInv'
  OBVIOUS
<1>1. CASE UNCHANGED vars
  <2>1. UNCHANGED <<link, moves, starts, changes>>
    BY <1>1 DEF vars, loader, outside
  <2>2. Incoming' = Incoming
    BY <2>1 DEF Incoming, MS!Msg, link
  <2>3. changes' \in 0..MaxChanges
    BY <2>1 DEF LInv, link
  <2> QED BY <2>1, <2>2, <2>3, QuietKeeps
<1> QED BY <1>1, LoadKeepsLInv, MoveKeepsLInv, LinkKeepsLInv, OutsideKeepsLInv, ServerMovesKeepsLInv DEF Next

-----------------------------------------------------------------------------
(* The types of the broker, in the composed worker.                        *)

LEMMA BrokerIndexed ==
    ASSUME BR!TypeOK, NEW i \in DOMAIN conn
    PROVE  i \in DOMAIN sessions /\ sessions[i] \in BR!SessionType /\ conn[i] \in BR!ConnType
<1>1. DOMAIN conn = 1..Len(conn) /\ DOMAIN sessions = 1..Len(sessions) /\ Len(conn) = Len(sessions)
  BY DEF BR!TypeOK
<1>2. i \in DOMAIN sessions
  BY <1>1
<1> QED BY <1>2 DEF BR!TypeOK

LEMMA BrokerHandled ==
    ASSUME BR!TypeOK, NEW i \in DOMAIN conn, NEW r \in BR!SessionType, NEW c \in BR!ConnType,
           BR!Handled(i, r, c)
    PROVE  BR!TypeOK'
<1>1. i \in DOMAIN sessions
  BY BrokerIndexed
<1>2. sessions' = [sessions EXCEPT ![i] = r] /\ conn' = [conn EXCEPT ![i] = c]
      /\ UNCHANGED <<capacity, logins, down, last>>
  BY DEF BR!Handled
<1>3. sessions' \in Seq(BR!SessionType) /\ conn' \in Seq(BR!ConnType)
  BY <1>1, <1>2 DEF BR!TypeOK
<1>4. Len(conn') = Len(conn) /\ Len(sessions') = Len(sessions)
  BY <1>2 DEF BR!TypeOK
<1>5. BR!SessionType' = BR!SessionType /\ BR!ConnType' = BR!ConnType /\ BR!PublishType' = BR!PublishType
  BY DEF BR!SessionType, BR!ConnType, BR!PublishType
<1> QED BY <1>2, <1>3, <1>4, <1>5 DEF BR!TypeOK

LEMMA BrokerAstray ==
    ASSUME BR!TypeOK, NEW i \in DOMAIN conn, NEW links,
           links \subseteq {"tcp", "mqtt", "stuck", "closed"}, BR!Astray(i, links)
    PROVE  BR!TypeOK'
<1>1. CASE UNCHANGED conn /\ down' = TRUE
  BY <1>1 DEF BR!TypeOK, BR!Astray, BR!SessionType, BR!ConnType, BR!PublishType
<1>2. CASE \E l \in links : conn' = [conn EXCEPT ![i].link = l, ![i].astray = TRUE] /\ UNCHANGED down
  <2>1. PICK l \in links : conn' = [conn EXCEPT ![i].link = l, ![i].astray = TRUE] /\ UNCHANGED down
    BY <1>2
  <2> DEFINE c == [conn[i] EXCEPT !.link = l, !.astray = TRUE]
  <2>2. conn' = [conn EXCEPT ![i] = c]
    BY <2>1, BrokerIndexed DEF BR!ConnType
  <2>3. c \in BR!ConnType
    BY BrokerIndexed, <2>1 DEF BR!ConnType
  <2>4. BR!Handled(i, sessions[i], c)
    <3> HIDE DEF c
    <3>1. sessions = [sessions EXCEPT ![i] = sessions[i]]
      BY DEF BR!TypeOK
    <3> QED BY <2>1, <2>2, <3>1 DEF BR!Handled, BR!Astray
  <2> QED BY <2>3, <2>4, BrokerHandled, BrokerIndexed
<1> QED BY <1>1, <1>2 DEF BR!Astray

LEMMA BrokerSession ==
    ASSUME BR!TypeOK, NEW i \in DOMAIN conn, BR!Session(i)
    PROVE  BR!TypeOK'
<1> DEFINE r == sessions[i]
           c == conn[i]
<1>1. r \in BR!SessionType /\ c \in BR!ConnType
  BY BrokerIndexed
<1>2. ASSUME BR!Astray(i, {"mqtt", "stuck"}) \/ BR!Astray(i, {"closed"}) \/ BR!Astray(i, {"mqtt"})
      PROVE  BR!TypeOK'
  BY <1>2, BrokerAstray
<1>3. ASSUME NEW u \in Logins, BR!ConnectHandler(i, u) PROVE BR!TypeOK'
  <2>1. [r EXCEPT !.name = c.who] \in BR!SessionType /\ [r EXCEPT !.live = FALSE] \in BR!SessionType
    BY <1>1 DEF BR!SessionType, BR!ConnType
  <2>2. [c EXCEPT !.link = "mqtt", !.login = u] \in BR!ConnType /\ [c EXCEPT !.link = "stuck"] \in BR!ConnType
    BY <1>1 DEF BR!ConnType
  <2> QED BY <1>2, <1>3, <2>1, <2>2, BrokerHandled DEF BR!ConnectHandler
<1>4. CASE BR!CloseProc(i)
  <2>1. [r EXCEPT !.name = NoLift, !.live = FALSE] \in BR!SessionType
    BY <1>1 DEF BR!SessionType
  <2>2. [c EXCEPT !.link = "closed", !.subs = {}] \in BR!ConnType
    BY <1>1 DEF BR!ConnType
  <2> QED BY <1>2, <1>4, <2>1, <2>2, BrokerHandled DEF BR!CloseProc
<1>5. ASSUME NEW peer \in {"left", "gone"}, BR!Leaves(i, peer) PROVE BR!TypeOK'
  <2>1. [c EXCEPT !.peer = peer] \in BR!ConnType
    BY <1>1 DEF BR!ConnType
  <2> QED BY <1>1, <1>5, <2>1, BrokerHandled DEF BR!Leaves
<1>6. ASSUME NEW t \in Topics, BR!SubscribeHandler(i, t) \/ BR!UnsubscribeHandler(i, t)
      PROVE  BR!TypeOK'
  <2>1. [c EXCEPT !.subs = @ \cup {t}] \in BR!ConnType /\ [c EXCEPT !.subs = @ \ {t}] \in BR!ConnType
    BY <1>1 DEF BR!ConnType
  <2> QED BY <1>1, <1>2, <1>6, <2>1, BrokerHandled DEF BR!SubscribeHandler, BR!UnsubscribeHandler
<1> QED BY <1>3, <1>4, <1>5, <1>6
        DEF BR!Session, BR!CloseHandler, BR!DisconnectHandler, BR!ErrorHandler

LEMMA BrokerAccept ==
    ASSUME BR!TypeOK, NEW k \in Lifts, BR!Accept(k)
    PROVE  BR!TypeOK'
<1> DEFINE full == Len(sessions) = capacity
           old  == IF full THEN [i \in DOMAIN conn |-> [conn[i] EXCEPT !.bound = FALSE]] ELSE conn
<1>1. old \in Seq(BR!ConnType) /\ Len(old) = Len(conn)
  <2>1. ASSUME NEW i \in DOMAIN conn PROVE [conn[i] EXCEPT !.bound = FALSE] \in BR!ConnType
    BY BrokerIndexed DEF BR!ConnType
  <2> QED BY <2>1 DEF BR!TypeOK
<1> HIDE DEF old
<1>2. /\ sessions' = Append(sessions, BR!NewSession) /\ conn' = Append(old, BR!NewConn(k))
      /\ logins' = logins /\ down' = down /\ last' = last
      /\ capacity' = IF full THEN BR!Grown ELSE capacity
  BY DEF BR!Accept, old
<1>3. BR!NewSession \in BR!SessionType /\ BR!NewConn(k) \in BR!ConnType
  BY DEF BR!NewSession, BR!NewConn, BR!SessionType, BR!ConnType
<1>4. sessions' \in Seq(BR!SessionType) /\ conn' \in Seq(BR!ConnType) /\ Len(conn') = Len(sessions')
  BY <1>1, <1>2, <1>3 DEF BR!TypeOK
<1>5. capacity' \in Nat /\ Len(sessions') <= capacity'
  BY <1>2, <1>3 DEF BR!TypeOK, BR!Grown
<1>6. BR!SessionType' = BR!SessionType /\ BR!ConnType' = BR!ConnType /\ BR!PublishType' = BR!PublishType
  BY DEF BR!SessionType, BR!ConnType, BR!PublishType
<1> QED BY <1>2, <1>4, <1>5, <1>6 DEF BR!TypeOK

LEMMA BrokerPublish ==
    ASSUME BR!TypeOK, NEW l \in Lifts, BR!Publish(l)
    PROVE  BR!TypeOK'
<1> DEFINE i == BR!Found(l)
           a == i # 0
           b == i # 0 /\ BR!Open(i) /\ conn[i].who = l
           d == i # 0 /\ conn[i].peer # "up"
<1>1. UNCHANGED <<sessions, capacity, conn, logins, down>>
      /\ last' = [lift |-> l, found |-> a, delivered |-> b, late |-> d]
  BY DEF BR!Publish
<1>2. a \in BOOLEAN /\ b \in BOOLEAN /\ d \in BOOLEAN
  BY Zenon
<1> HIDE DEF i, a, b, d
<1>3. last' \in BR!PublishType
  BY <1>1, <1>2, Zenon DEF BR!PublishType
<1>4. BR!SessionType' = BR!SessionType /\ BR!ConnType' = BR!ConnType /\ BR!PublishType' = BR!PublishType
  BY DEF BR!SessionType, BR!ConnType, BR!PublishType
<1> QED BY <1>1, <1>3, <1>4 DEF BR!TypeOK

(* The rest of the composed worker's types.                                *)
TablesTyped ==
    /\ {db, respData, descriptors} \subseteq SUBSET Lifts /\ passwords \subseteq Logins
    /\ known \subseteq Lifts /\ rounds \in 0..MaxRounds /\ asking \in Nat

TInv == TablesTyped /\ BR!TypeOK

LEMMA TypesInit == Init => TInv
<1> SUFFICES ASSUME Init PROVE TInv
  OBVIOUS
<1>1. TablesTyped
  BY LiftWorkerAssumption DEF Init, TablesTyped
<1>2. last \in BR!PublishType
  <2>1. last = [lift |-> NoLift, found |-> FALSE, delivered |-> FALSE, late |-> FALSE]
    BY DEF Init
  <2> QED BY <2>1, Zenon DEF BR!PublishType
<1>3. BR!TypeOK
  <2>1. sessions = <<>> /\ conn = <<>> /\ capacity = 0 /\ logins = {} /\ down = FALSE
    BY DEF Init
  <2>2. sessions \in Seq(BR!SessionType) /\ conn \in Seq(BR!ConnType)
    BY <2>1
  <2>3. Len(sessions) = 0 /\ Len(conn) = 0
    BY <2>1
  <2>4. down \in BOOLEAN
    BY <2>1
  <2> QED BY <1>2, <2>1, <2>2, <2>3, <2>4 DEF BR!TypeOK
<1> QED BY <1>1, <1>3 DEF TInv

LEMMA TypesLoad ==
    ASSUME TInv, IInv, Load
    PROVE  TInv'
<1>1. CASE StartWorkers
  <2>1. /\ UNCHANGED <<db, respData, rounds, sessions, capacity, conn, down, last>>
        /\ asking > 0 /\ asking' = asking - 1
        /\ descriptors' = respData /\ passwords' = LoginsOf(respData)
        /\ known' = respData /\ logins' = LoginsOf(respData)
    BY <1>1 DEF StartWorkers, Called, UpdateData, Untouched, outside, LoginsOf
  <2>a. LoginsOf(respData) \subseteq Logins
    BY LiftWorkerAssumption DEF TInv, TablesTyped, LoginsOf
  <2>2. TablesTyped'
    BY <2>1, <2>a DEF TInv, TablesTyped
  <2>3. BR!TypeOK'
    BY <2>1, <2>a DEF TInv, TablesTyped, BR!TypeOK, BR!SessionType, BR!ConnType, BR!PublishType
  <2> QED BY <2>2, <2>3 DEF TInv
<1>2. CASE StartWorkersFails \/ UpdateDataCallback \/ UpdateTimer \/ DbAnswers
  <2>1. UNCHANGED <<db, known, sessions, capacity, conn, logins, down, last>>
    BY <1>2 DEF StartWorkersFails, UpdateDataCallback, UpdateTimer, DbAnswers, Untouched, outside, link, broker
  <2>2. respData' \in {respData, db} /\ descriptors' \in {descriptors, respData} /\ passwords' \in {passwords, LoginsOf(respData)}
    BY <1>2 DEF StartWorkersFails, UpdateDataCallback, UpdateTimer, DbAnswers, Untouched, UpdateData, LoginsOf
  <2>a. LoginsOf(respData) \subseteq Logins
    BY LiftWorkerAssumption DEF TInv, TablesTyped, LoginsOf
  <2>3. rounds' \in 0..MaxRounds
    BY <1>2, LiftWorkerAssumption
       DEF StartWorkersFails, UpdateDataCallback, UpdateTimer, DbAnswers, Untouched, TInv, TablesTyped
  <2>4. asking' \in Nat
    BY <1>2 DEF StartWorkersFails, UpdateDataCallback, UpdateTimer, DbAnswers, Called, TInv, TablesTyped
  <2>5. TablesTyped'
    BY <2>1, <2>2, <2>a, <2>3, <2>4 DEF TInv, TablesTyped
  <2>6. BR!TypeOK'
    BY <2>1 DEF TInv, BR!TypeOK, BR!SessionType, BR!ConnType, BR!PublishType
  <2> QED BY <2>5, <2>6 DEF TInv
<1> QED BY <1>1, <1>2 DEF Load

LEMMA TypesNext == TInv /\ LInv /\ IInv /\ [Next]_vars => TInv'
<1> SUFFICES ASSUME TInv, LInv, IInv, [Next]_vars PROVE TInv'
  OBVIOUS
<1>1. CASE Load
  BY <1>1, TypesLoad
<1>2. ASSUME UNCHANGED tables, UNCHANGED <<respData, rounds, asking>>,
             db' \in SUBSET Lifts, BR!TypeOK'
      PROVE  TInv'
  BY <1>2 DEF TInv, TablesTyped, tables
<1>3. ASSUME UNCHANGED broker PROVE BR!TypeOK'
  BY <1>3 DEF broker, TInv, BR!TypeOK, BR!SessionType, BR!ConnType, BR!PublishType
<1>4. CASE UNCHANGED vars
  BY <1>2, <1>3, <1>4 DEF vars, loader, outside, link, broker, tables, TInv, TablesTyped
<1>5. CASE MoveLift
  <2>1. UNCHANGED <<respData, rounds, asking, db>> /\ UNCHANGED tables
    BY <1>5, OthersLeaveTables DEF MoveLift, loader, outside
  <2>2. BR!Publish(Head(json).l) /\ json # <<>> /\ Head(json).l \in known
    BY <1>5 DEF MoveLift, MS!MoveLift, MS!Analizes
  <2>3. Head(json).l \in Lifts
    BY <2>2 DEF TInv, TablesTyped
  <2>4. BR!TypeOK'
    BY <2>2, <2>3, BrokerPublish DEF TInv
  <2> QED BY <1>2, <2>1, <2>4 DEF TInv, TablesTyped
<1>6. CASE Broker
  <2>1. UNCHANGED <<respData, rounds, asking, db>> /\ UNCHANGED tables
    BY <1>6, OthersLeaveTables DEF Broker, loader, outside
  <2>2. BR!TypeOK'
    BY <1>6, BrokerAccept, BrokerSession DEF Broker, BR!Network, TInv
  <2> QED BY <1>2, <2>1, <2>2 DEF TInv, TablesTyped
<1>7. CASE Link \/ DbChanges \/ \E q \in Requests, l \in Lifts : ServerMoves(q, l)
  <2>1. UNCHANGED <<respData, rounds, asking, broker>>
    BY <1>7 DEF Link, DbChanges, ServerMoves, loader
  <2>2. UNCHANGED tables
    BY <1>7, OthersLeaveTables
  <2>3. db' \in SUBSET Lifts
    BY <1>7 DEF Link, DbChanges, ServerMoves, outside, TInv, TablesTyped
  <2> QED BY <1>2, <1>3, <2>1, <2>2, <2>3
<1> QED BY <1>1, <1>4, <1>5, <1>6, <1>7 DEF Next

(* The composed worker keeps the types of its components, and a request's  *)
(* command is given to publish at most once, however often the link breaks *)
(* and connects anew.  An answer on its way says what publish returned:    *)
(* "done" when it found a session, "failed" when it found none.            *)
THEOREM MovesAlwaysSound == Spec => []MovesSound
<1>1. IInv /\ LInv /\ TInv => MovesSound
  <2> SUFFICES ASSUME IInv, LInv, TInv PROVE MovesSound
    OBVIOUS
  <2>1. Flow(s, json, buf, MS!Msg, MS!Msg)
    BY InAndOut, FlowGrows DEF LInv
  <2>2. MS!TypeOK
    BY <2>1, FlowTypes DEF LInv, TInv, TablesTyped
  <2>3. moves \in [Requests -> Results] /\ moves \in [Requests -> Seq(BOOLEAN)]
    <3>1. Results \subseteq Seq(BOOLEAN)
      BY DEF Results
    <3> QED BY <3>1 DEF LInv
  <2>4. starts \in 0..1 /\ callback \in {"startWorkers", "updateData"}
    BY DEF IInv
  <2>5. TypeOK
    BY <2>2, <2>3, <2>4 DEF TypeOK, LInv, TInv, TablesTyped
  <2>6. s.toServer \in Seq(Outgoing)
    BY SocketFields DEF LInv, Flow
  <2>7. ASSUME NEW i \in DOMAIN s.toServer
        PROVE  /\ s.toServer[i].t = "done" => moves[s.toServer[i].q] = <<TRUE>>
               /\ s.toServer[i].t = "failed" => moves[s.toServer[i].q] = <<FALSE>>
    <3>1. s.toServer[i] \in Outgoing
      BY <2>6
    <3> QED BY <3>1 DEF Outgoing
  <2>8. \A q \in Requests : Len(moves[q]) <= 1
    <3>1. \A r \in Results : Len(r) <= 1
      <4>1. Len(<<>>) = 0 /\ Len(<<TRUE>>) = 1 /\ Len(<<FALSE>>) = 1
        BY OneResult, Zenon
      <4>2. 0 <= 1 /\ 1 <= 1
        OBVIOUS
      <4> QED BY <4>1, <4>2, Zenon DEF Results
    <3> QED BY <2>3, <3>1
  <2> QED BY <2>5, <2>7, <2>8 DEF MovesSound, MovedOnce
<1> QED BY <1>1, InitLoaded, NextKeeps, ComposedInit, ComposedNext, TypesInit, TypesNext, PTL DEF Spec

(* Started by MQTTWorker with its tables and beside the broker, the link   *)
(* still keeps what it promises on its own.                                *)
THEOREM ComposedLinkSound == Spec => [](starts # 0 => MS!LinkSound)
<1>1. LInv /\ TInv => (starts # 0 => MS!LinkSound)
  <2> SUFFICES ASSUME LInv, TInv, starts # 0 PROVE MS!LinkSound
    OBVIOUS
  <2>1. Flow(s, json, buf, MS!Msg, MS!Msg)
    BY InAndOut, FlowGrows DEF LInv
  <2>2. MInv
    BY <2>1 DEF MInv, LInv, TInv, TablesTyped
  <2> QED BY <2>2, LinkMeans
<1> QED BY <1>1, InitLoaded, NextKeeps, ComposedInit, ComposedNext, TypesInit, TypesNext, PTL DEF Spec
=============================================================================
