--------------------------- MODULE ClientDBProofs ---------------------------
(***************************************************************************)
(* What the refresh of the tables guarantees for every list of tables and  *)
(* every number of exchanges, faults and refused connects, however the     *)
(* exchanges overlap.                                                      *)
(***************************************************************************)
EXTENDS ClientDB, SequenceTheorems, WellFoundedInduction, TLAPS

(* The state of the main server alone carries both invariants: the servers *)
(* have been started exactly when the first callback has been replaced.    *)
Installed ==
    /\ callback \in {"start", "update"}
    /\ starts = IF callback = "start" THEN 0 ELSE 1
    /\ Complete(tables) \/ tables = Nothing
    /\ Complete(used) \/ used = Nothing

(* A callback of the client, with any data, keeps the main server's state  *)
(* in order: __startServers or __updateDataCallback.                       *)
LEMMA CallbackInstalls ==
    ASSUME NEW data, Installed, Callback(data)
    PROVE  Installed'
<1>1. Complete(tables)' \/ (tables = Nothing)'
  <2>1. tables' = UpdateData(data)
    BY DEF Callback, StartServers, UpdateDataCallback
  <2>2. CASE Complete(data)
    BY <2>1, <2>2 DEF UpdateData, Complete
  <2>3. CASE ~Complete(data)
    BY <2>1, <2>3 DEF UpdateData, Complete, Installed, Nothing
  <2> QED BY <2>2, <2>3
<1>2. CASE callback = "start" /\ Complete(data)
  <2>1. used' = tables' /\ starts' = starts + 1 /\ callback' = "update"
    BY <1>2 DEF Callback, StartServers
  <2>2. Complete(used)' \/ (used = Nothing)'
    BY <1>1, <2>1 DEF Complete, Nothing
  <2>3. starts' = 1
    BY <1>2, <2>1 DEF Installed
  <2> QED BY <1>1, <2>1, <2>2, <2>3 DEF Installed
<1>3. CASE ~(callback = "start" /\ Complete(data))
  <2>1. UNCHANGED <<used, starts, callback>>
    BY <1>3 DEF Callback, StartServers, UpdateDataCallback
  <2> QED BY <1>1, <2>1 DEF Installed, Complete, Nothing
<1> QED BY <1>2, <1>3

LEMMA NoCallbackInstalls ==
    ASSUME Installed, NoCallback
    PROVE  Installed'
BY DEF Installed, NoCallback, Complete, Nothing

(* Only the handlers of a completed connect and of a received message call *)
(* the callback; every other step leaves the main server's state alone.    *)
LEMMA NextInstalls ==
    ASSUME Installed, [Next]_vars
    PROVE  Installed'
<1>1. CASE UNCHANGED vars
  BY <1>1, NoCallbackInstalls DEF vars, NoCallback
<1>2. CASE UpdateTimer
  BY <1>2, NoCallbackInstalls DEF UpdateTimer
<1>3. CASE Handler
  <2>1. CASE HandlerError
    BY <2>1, NoCallbackInstalls DEF HandlerError
  <2>2. CASE HandlerConnect
    BY <2>2, NoCallbackInstalls, CallbackInstalls DEF HandlerConnect
  <2>3. CASE SendCommand
    BY <2>3, NoCallbackInstalls DEF SendCommand
  <2>4. CASE SendRest
    BY <2>4, NoCallbackInstalls DEF SendRest
  <2>5. CASE SendWraps
    BY <2>5, NoCallbackInstalls DEF SendWraps
  <2>6. CASE ReciveCommand
    BY <2>6, NoCallbackInstalls, CallbackInstalls DEF ReciveCommand
  <2> QED BY <1>3, <2>1, <2>2, <2>3, <2>4, <2>5, <2>6 DEF Handler
<1>4. CASE Reactor \/ Refused
  BY <1>4, NoCallbackInstalls
     DEF Reactor, Refused, Connected, PendingSend, Receive, PendingFails
<1>5. CASE Session
  BY <1>5, NoCallbackInstalls DEF Session, DbConnect, DbQuery, DbDisconnect, DbJunk
<1>6. CASE Break \/ DbChanges
  BY <1>6, NoCallbackInstalls DEF Break, DbChanges
<1> QED BY <1>1, <1>2, <1>3, <1>4, <1>5, <1>6 DEF Next

THEOREM InstalledAlways == Spec => []Installed
<1>1. Init => Installed
  BY DEF Init, Installed
<1> QED BY <1>1, NextInstalls, PTL DEF Spec

(* MainServer::__startServers starts the servers at most once.             *)
THEOREM ServersStartOnce == Spec => []StartedOnce
<1>1. Installed => StartedOnce
  BY DEF Installed, StartedOnce
<1> QED BY <1>1, InstalledAlways, PTL

(* MainServer::__updateData installs all tables or none, and the servers   *)
(* are started with all of them.                                           *)
THEOREM TablesAllOrNothing == Spec => []AllOrNothing
<1>1. Installed => AllOrNothing
  BY DEF Installed, AllOrNothing
<1> QED BY <1>1, InstalledAlways, PTL

-----------------------------------------------------------------------------
(* The refinement: what a callback does to the tables is a step of the     *)
(* abstract store, or nothing.                                             *)
LEMMA CallbackRefines ==
    ASSUME NEW data, Installed, Callback(data)
    PROVE  Store!Next \/ UNCHANGED Store!vars
<1>1. CASE ~Complete(data)
  BY <1>1 DEF Callback, StartServers, UpdateDataCallback, UpdateData, Store!vars
<1>2. CASE Complete(data)
  <2>1. tables' = data
    BY <1>2 DEF Callback, StartServers, UpdateDataCallback, UpdateData
  <2>2. Store!Whole(tables')
    BY <1>2, <2>1 DEF Complete, Store!Whole
  <2>3. CASE callback = "start"
    <3>1. starts = 0 /\ used' = tables' /\ starts' = 1
      BY <1>2, <2>3 DEF Callback, StartServers, Installed
    <3> QED BY <2>2, <3>1 DEF Store!Next, Store!Start
  <2>4. CASE callback = "update"
    <3>1. starts = 1 /\ UNCHANGED <<used, starts>>
      BY <2>4 DEF Callback, UpdateDataCallback, Installed
    <3> QED BY <2>2, <3>1 DEF Store!Next, Store!Refresh
  <2> QED BY <2>3, <2>4 DEF Installed
<1> QED BY <1>1, <1>2

LEMMA NoCallbackRefines ==
    ASSUME NoCallback
    PROVE  UNCHANGED Store!vars
BY DEF NoCallback, Store!vars

LEMMA NextRefines ==
    ASSUME Installed, [Next]_vars
    PROVE  Store!Next \/ UNCHANGED Store!vars
<1>1. CASE UNCHANGED vars
  BY <1>1 DEF vars, Store!vars
<1>2. CASE UpdateTimer
  BY <1>2, NoCallbackRefines DEF UpdateTimer
<1>3. CASE Handler
  <2>1. CASE HandlerError
    BY <2>1, NoCallbackRefines DEF HandlerError
  <2>2. CASE HandlerConnect
    BY <2>2, NoCallbackRefines, CallbackRefines DEF HandlerConnect
  <2>3. CASE SendCommand
    BY <2>3, NoCallbackRefines DEF SendCommand
  <2>4. CASE SendRest
    BY <2>4, NoCallbackRefines DEF SendRest
  <2>5. CASE SendWraps
    BY <2>5, NoCallbackRefines DEF SendWraps
  <2>6. CASE ReciveCommand
    BY <2>6, NoCallbackRefines, CallbackRefines DEF ReciveCommand
  <2> QED BY <1>3, <2>1, <2>2, <2>3, <2>4, <2>5, <2>6 DEF Handler
<1>4. CASE Reactor \/ Refused
  BY <1>4, NoCallbackRefines
     DEF Reactor, Refused, Connected, PendingSend, Receive, PendingFails
<1>5. CASE Session
  BY <1>5, NoCallbackRefines DEF Session, DbConnect, DbQuery, DbDisconnect, DbJunk
<1>6. CASE Break \/ DbChanges
  BY <1>6, NoCallbackRefines DEF Break, DbChanges
<1> QED BY <1>1, <1>2, <1>3, <1>4, <1>5, <1>6 DEF Next

(* The main server implements TableStore: MainServer::__updateData,        *)
(* __startServers and __updateDataCallback, behind a client whose          *)
(* exchanges overlap and fail, install complete sets only.                 *)
THEOREM TablesRefineStore == Spec => ImplementsTableStore
<1>1. Init => Store!Init
  BY DEF Init, Store!Init, Store!None, Nothing
<1>2. Installed /\ [Next]_vars => [Store!Next]_(Store!vars)
  BY NextRefines
<1> QED BY <1>1, <1>2, InstalledAlways, PTL DEF Spec, ImplementsTableStore, Store!Spec

-----------------------------------------------------------------------------
(* The client and its connection.                                          *)

(* What a session of the data base server answers, and what a receive      *)
(* makes of it.                                                            *)
Answers == {"connectOk", "connectFail", "disconnect", "table", "rest"}

Heard == Answers \cup {"part", "junk"}

Event == [op : Ops, ok : BOOLEAN, msg : Msg]

(* Only answers are received, and nothing is under way on a socket that is *)
(* not connected.                                                          *)
Wired(r) ==
    /\ r \in ClientType
    /\ \A i \in DOMAIN r.toClient : r.toClient[i].t \in Answers
    /\ \A i \in DOMAIN r.ready :
          r.ready[i].op = "receive" /\ r.ready[i].ok => r.ready[i].msg.t \in Heard
    /\ r.sock # "connected" => r.peer = "none" /\ r.toDb = <<>> /\ r.toClient = <<>>

Busy(r) == r.pend # <<>> \/ r.ready # <<>>

Kept(r) == Wired(r) /\ (Busy(r) \/ r.sock = "closed")

(* The inductive invariant for ExchangeSound.                              *)
CInv == TypeOK /\ Kept(c)

LEMMA PlainType ==
    /\ \A t \in {"none", "connect", "disconnect", "junk", "connectOk", "connectFail", "part"} :
          Plain(t) \in Msg /\ Plain(t).t = t
BY ConstantsAssumption DEF Plain, Msg

LEMMA QueryType ==
    ASSUME NEW t \in TableSet \cup {NoTable}, NEW k \in 0..MaxVersion
    PROVE  /\ [t |-> "query", tab |-> t, ver |-> k] \in Msg
           /\ [t |-> "table", tab |-> t, ver |-> k] \in Msg
BY DEF Msg

LEMMA ClientFields ==
    ASSUME NEW r \in ClientType
    PROVE  /\ r.pend \in Seq(Ops) /\ r.ready \in Seq(Event) /\ r.queue \in Seq(TableSet)
           /\ r.sent \in TableSet \cup {NoTable} /\ r.buf \in Msg /\ r.resp \in Data
           /\ r.toDb \in Seq(Msg) /\ r.toClient \in Seq(Msg)
           /\ r.flagConnet \in BOOLEAN /\ r.flagDisconnect \in BOOLEAN
BY Zenon DEF ClientType, Event

(* A step that leaves the connection and the handlers alone.               *)
SameWire(r, u) ==
    /\ u.toClient = r.toClient /\ u.ready = r.ready /\ u.sock = r.sock
    /\ u.peer = r.peer /\ u.toDb = r.toDb

LEMMA SameWired ==
    ASSUME NEW r, NEW u \in ClientType, Wired(r), SameWire(r, u)
    PROVE  Wired(u)
BY DEF Wired, SameWire

LEMMA CompletedWired ==
    ASSUME NEW r, Wired(r), NEW op \in Ops, NEW ok \in BOOLEAN, NEW m \in Msg,
           op = "receive" /\ ok => m.t \in Heard
    PROVE  Wired(Completed(r, op, ok, m)) /\ Busy(Completed(r, op, ok, m))
<1> DEFINE e == [op |-> op, ok |-> ok, msg |-> m]
           q == Append(r.ready, e)
           u == [r EXCEPT !.ready = q]
<1>1. r \in ClientType /\ r.ready \in Seq(Event)
  BY ClientFields DEF Wired
<1>2. e \in Event
  BY Zenon DEF Event
<1>3. e.op = op /\ e.ok = ok /\ e.msg = m
  BY Zenon
<1> HIDE DEF e
<1>4. /\ q \in Seq(Event) /\ q # <<>>
      /\ \A i \in DOMAIN q : (i \in DOMAIN r.ready /\ q[i] = r.ready[i]) \/ q[i] = e
  BY <1>1, <1>2
<1> HIDE DEF q
<1>5. u \in ClientType
  BY <1>1, <1>4, Zenon DEF ClientType, Event
<1>6. /\ u.toClient = r.toClient /\ u.ready = q /\ u.sock = r.sock
      /\ u.peer = r.peer /\ u.toDb = r.toDb
  BY <1>1, Zenon DEF ClientType
<1>7. Completed(r, op, ok, m) = u
  BY DEF Completed, q, e
<1> HIDE DEF u
<1>8. \A i \in DOMAIN u.ready :
          u.ready[i].op = "receive" /\ u.ready[i].ok => u.ready[i].msg.t \in Heard
  BY <1>3, <1>4, <1>6 DEF Wired
<1> QED BY <1>4, <1>5, <1>6, <1>7, <1>8 DEF Wired, Busy

LEMMA StopWired ==
    ASSUME NEW r, Wired(r)
    PROVE  Wired(Stop(r)) /\ Stop(r).sock = "closed"
<1>1. CASE r.sock = "closed"
  BY <1>1 DEF Stop
<1>2. CASE r.sock # "closed"
  <2> DEFINE f == [i \in DOMAIN r.pend |-> Failed(r.pend[i])]
             q == r.ready \o f
             u == [r EXCEPT !.sock = "closed", !.pend = <<>>, !.ready = q,
                            !.peer = "none", !.toDb = <<>>, !.toClient = <<>>]
  <2>1. r \in ClientType /\ r.ready \in Seq(Event) /\ r.pend \in Seq(Ops)
    BY ClientFields DEF Wired
  <2>2. \A op \in Ops : Failed(op) \in Event /\ ~Failed(op).ok
    <3>1. Plain("none") \in Msg
      BY PlainType
    <3> QED BY <3>1, Zenon DEF Failed, Event
  <2>3. f \in Seq(Event) /\ \A i \in DOMAIN f : ~f[i].ok
    BY <2>1, <2>2
  <2> HIDE DEF f
  <2>4. /\ q \in Seq(Event)
        /\ \A i \in DOMAIN q : \/ i \in DOMAIN r.ready /\ q[i] = r.ready[i]
                               \/ \E j \in DOMAIN f : q[i] = f[j]
    BY <2>1, <2>3
  <2>5. Stop(r) = u
    BY <1>2 DEF Stop, f
  <2> HIDE DEF q
  <2>6. <<>> \in Seq(Ops) /\ <<>> \in Seq(Msg)
    OBVIOUS
  <2>7. u \in ClientType
    BY <2>1, <2>4, <2>6, Zenon DEF ClientType, Event
  <2>8. /\ u.toClient = <<>> /\ u.ready = q /\ u.sock = "closed"
        /\ u.peer = "none" /\ u.toDb = <<>>
    BY <2>1, Zenon DEF ClientType
  <2> HIDE DEF u
  <2> QED BY <2>3, <2>4, <2>5, <2>7, <2>8 DEF Wired
<1> QED BY <1>1, <1>2

LEMMA StartWired ==
    ASSUME NEW r, Wired(r)
    PROVE  Wired(Start(r)) /\ Busy(Start(r))
<1> DEFINE s == [r EXCEPT !.flagConnet = FALSE, !.flagDisconnect = FALSE]
           q == Append(s.pend, "connect")
           u == [s EXCEPT !.sock = "connecting", !.pend = q]
<1>1. s \in ClientType
  BY Zenon DEF ClientType, Wired
<1>2. SameWire(r, s) /\ s.pend = r.pend
  BY Zenon DEF ClientType, Wired, SameWire
<1>3. Wired(s)
  BY <1>1, <1>2, SameWired
<1>4. s.sock \in {"closed", "opened"} => Start(r) = u
  BY DEF Start
<1>5. s.sock \notin {"closed", "opened"} => Start(r) = Completed(s, "connect", FALSE, Plain("none"))
  BY DEF Start
<1> HIDE DEF s
<1>6. CASE s.sock \in {"closed", "opened"}
  <2>1. q \in Seq(Ops) /\ q # <<>>
    <3>1. s.pend \in Seq(Ops) /\ "connect" \in Ops
      BY <1>1, ClientFields DEF Ops
    <3> QED BY <3>1
  <2> HIDE DEF q
  <2>2. u \in ClientType
    BY <1>1, <2>1, Zenon DEF ClientType
  <2>3. /\ u.toClient = s.toClient /\ u.ready = s.ready /\ u.sock = "connecting"
        /\ u.peer = s.peer /\ u.toDb = s.toDb /\ u.pend = q
    BY <1>1, Zenon DEF ClientType
  <2> HIDE DEF u
  <2> QED BY <1>3, <1>4, <1>6, <2>1, <2>2, <2>3 DEF Wired, Busy
<1>7. CASE s.sock \notin {"closed", "opened"}
  <2>1. Plain("none") \in Msg /\ "connect" \in Ops
    BY PlainType DEF Ops
  <2>2. Wired(Completed(s, "connect", FALSE, Plain("none"))) /\ Busy(Completed(s, "connect", FALSE, Plain("none")))
    BY <1>3, <2>1, CompletedWired
  <2> QED BY <1>5, <1>7, <2>2
<1> QED BY <1>6, <1>7

LEMMA AsyncSendWired ==
    ASSUME NEW r, Wired(r), NEW m \in Msg
    PROVE  Wired(AsyncSend(r, m)) /\ Busy(AsyncSend(r, m))
<1> DEFINE s == [r EXCEPT !.buf = m]
           d == Append(s.toDb, m)
           x == [s EXCEPT !.toDb = d]
           p == Append(s.pend, "send")
           y == [s EXCEPT !.pend = p]
<1>1. s \in ClientType
  BY Zenon DEF ClientType, Wired
<1>2. SameWire(r, s)
  BY Zenon DEF ClientType, Wired, SameWire
<1>3. Wired(s)
  BY <1>1, <1>2, SameWired
<1>4. AsyncSend(r, m) = CASE r.sock = "connected" -> Completed(x, "send", TRUE, m)
                          [] r.sock = "connecting" -> y
                          [] OTHER -> Completed(s, "send", FALSE, m)
  BY DEF AsyncSend
<1> HIDE DEF s
<1>5. s.toDb \in Seq(Msg) /\ s.pend \in Seq(Ops) /\ "send" \in Ops /\ "send" # "receive"
  BY <1>1, ClientFields DEF Ops
<1>6. CASE r.sock = "connected"
  <2>1. d \in Seq(Msg)
    BY <1>5
  <2> HIDE DEF d
  <2>2. x \in ClientType
    BY <1>1, <2>1, Zenon DEF ClientType
  <2>3. x.toClient = s.toClient /\ x.ready = s.ready /\ x.sock = s.sock /\ x.peer = s.peer
    BY <1>1, Zenon DEF ClientType
  <2> HIDE DEF x
  <2>4. Wired(x)
    BY <1>2, <1>3, <1>6, <2>2, <2>3 DEF Wired, SameWire
  <2>5. Wired(Completed(x, "send", TRUE, m)) /\ Busy(Completed(x, "send", TRUE, m))
    BY <1>5, <2>4, CompletedWired
  <2> QED BY <1>4, <1>6, <2>5
<1>7. CASE r.sock = "connecting"
  <2>1. p \in Seq(Ops) /\ p # <<>>
    BY <1>5
  <2> HIDE DEF p
  <2>2. y \in ClientType
    BY <1>1, <2>1, Zenon DEF ClientType
  <2>3. SameWire(s, y) /\ y.pend = p
    BY <1>1, Zenon DEF ClientType, SameWire
  <2> HIDE DEF y
  <2>4. Wired(y) /\ Busy(y)
    BY <1>3, <2>1, <2>2, <2>3, SameWired DEF Busy
  <2> QED BY <1>4, <1>7, <2>4
<1>8. CASE r.sock \notin {"connected", "connecting"}
  <2>1. Wired(Completed(s, "send", FALSE, m)) /\ Busy(Completed(s, "send", FALSE, m))
    BY <1>3, <1>5, CompletedWired
  <2> QED BY <1>4, <1>8, <2>1
<1> QED BY <1>6, <1>7, <1>8

LEMMA AsyncReceiveWired ==
    ASSUME NEW r, Wired(r)
    PROVE  Wired(AsyncReceive(r)) /\ Busy(AsyncReceive(r))
<1> DEFINE p == Append(r.pend, "receive")
           y == [r EXCEPT !.pend = p]
<1>1. r \in ClientType /\ r.pend \in Seq(Ops) /\ "receive" \in Ops
  BY ClientFields DEF Wired, Ops
<1>2. p \in Seq(Ops) /\ p # <<>>
  BY <1>1
<1>3. AsyncReceive(r) = IF r.sock \in {"connected", "connecting"} THEN y
                        ELSE Completed(r, "receive", FALSE, Plain("none"))
  BY DEF AsyncReceive
<1> HIDE DEF p
<1>4. y \in ClientType
  BY <1>1, <1>2, Zenon DEF ClientType
<1>5. SameWire(r, y) /\ y.pend = p
  BY <1>1, Zenon DEF ClientType, SameWire
<1> HIDE DEF y
<1>6. Wired(y) /\ Busy(y)
  BY <1>2, <1>4, <1>5, SameWired DEF Busy
<1>7. Plain("none") \in Msg
  BY PlainType
<1>8. Wired(Completed(r, "receive", FALSE, Plain("none"))) /\ Busy(Completed(r, "receive", FALSE, Plain("none")))
  BY <1>1, <1>7, CompletedWired
<1> QED BY <1>3, <1>6, <1>8

(* The first pending operation of a kind is taken out.                     *)
LEMMA LeastChosen ==
    ASSUME NEW I \in SUBSET Nat, I # {}
    PROVE  Min(I) \in I
<1> DEFINE R == {ss \in Nat \X Nat : ss[1] < ss[2]}
<1>1. IsWellFoundedOn(R, Nat)
  BY NatLessThanWellFounded DEF OpToRel
<1>2. \A m, n \in Nat : m < n => <<m, n>> \in R
  OBVIOUS
<1> HIDE DEF R
<1>3. PICK n \in I : \A m \in I : <<m, n>> \notin R
  BY <1>1, WFMin
<1>4. ASSUME NEW m \in I PROVE n <= m
  <2>1. m \in Nat /\ n \in Nat
    OBVIOUS
  <2>2. ~(m < n)
    BY <1>2, <1>3, <2>1
  <2> QED BY <2>1, <2>2
<1> QED BY <1>4 DEF Min

LEMMA FirstRemoved ==
    ASSUME NEW s \in Seq(Ops), NEW e
    PROVE  /\ RemoveFirst(s, e) \in Seq(Ops)
           /\ s = <<e>> => RemoveFirst(s, e) = <<>>
<1> DEFINE I == {j \in 1..Len(s) : s[j] = e}
           k == SelectInSeq(s, LAMBDA v : v = e)
<1>1. k = IF I # {} THEN Min(I) ELSE 0
  BY DEF SelectInSeq
<1>2. I \in SUBSET Nat /\ I \in SUBSET (1..Len(s))
  OBVIOUS
<1>3. I # {} <=> \E i \in 1..Len(s) : s[i] = e
  OBVIOUS
<1>4. RemoveFirst(s, e) = IF I # {} THEN RemoveAt(s, k) ELSE s
  BY <1>3 DEF RemoveFirst
<1>5. s = <<e>> => I # {}
  <2>1. s = <<e>> => 1 \in 1..Len(s) /\ s[1] = e
    OBVIOUS
  <2> QED BY <1>3, <2>1
<1> HIDE DEF I, k
<1>6. CASE I = {}
  BY <1>4, <1>5, <1>6
<1>7. CASE I # {}
  <2>1. k \in I
    BY <1>1, <1>2, <1>7, LeastChosen
  <2>2. k \in 1..Len(s)
    BY <1>2, <2>1, Zenon
  <2> DEFINE a == SubSeq(s, 1, k - 1)
             b == SubSeq(s, k + 1, Len(s))
  <2>3. a \in Seq(Ops) /\ Len(a) = k - 1 /\ b \in Seq(Ops) /\ Len(b) = Len(s) - k
    BY <2>2
  <2>4. RemoveFirst(s, e) = a \o b
    BY <1>4, <1>7 DEF RemoveAt
  <2> HIDE DEF a, b
  <2>5. a \o b \in Seq(Ops) /\ Len(a \o b) = Len(a) + Len(b)
    BY <2>3
  <2>6. s = <<e>> => a \o b = <<>>
    BY <2>2, <2>3, <2>5
  <2> QED BY <2>4, <2>5, <2>6
<1> QED BY <1>6, <1>7

-----------------------------------------------------------------------------
(* The handlers.                                                           *)

(* The handler that runs next, taken off the queue.                        *)
LEMMA PoppedWired ==
    ASSUME Wired(c), c.ready # <<>>
    PROVE  /\ Wired(Popped) /\ Head(c.ready) \in Event
           /\ Head(c.ready).op = "receive" /\ Head(c.ready).ok => Head(c.ready).msg.t \in Heard
<1> DEFINE q == Tail(c.ready)
           u == [c EXCEPT !.ready = q]
<1>1. c \in ClientType /\ c.ready \in Seq(Event)
  BY ClientFields DEF Wired
<1>2. /\ q \in Seq(Event) /\ Head(c.ready) = c.ready[1] /\ 1 \in DOMAIN c.ready
      /\ Head(c.ready) \in Event
      /\ \A i \in DOMAIN q : i + 1 \in DOMAIN c.ready /\ q[i] = c.ready[i + 1]
  BY <1>1
<1> HIDE DEF q
<1>3. u \in ClientType
  BY <1>1, <1>2, Zenon DEF ClientType, Event
<1>4. /\ u.toClient = c.toClient /\ u.ready = q /\ u.sock = c.sock
      /\ u.peer = c.peer /\ u.toDb = c.toDb
  BY <1>1, Zenon DEF ClientType
<1>5. Popped = u
  BY DEF Popped, q
<1> HIDE DEF u
<1>6. \A i \in DOMAIN u.ready :
          u.ready[i].op = "receive" /\ u.ready[i].ok => u.ready[i].msg.t \in Heard
  BY <1>2, <1>4 DEF Wired
<1>7. Wired(u)
  BY <1>3, <1>4, <1>6 DEF Wired
<1>8. Head(c.ready).op = "receive" /\ Head(c.ready).ok => Head(c.ready).msg.t \in Heard
  BY <1>2 DEF Wired
<1> QED BY <1>2, <1>5, <1>7, <1>8

LEMMA QueryGeneratorKept ==
    ASSUME NEW r, Wired(r)
    PROVE  Kept(QueryGenerator(r))
<1>1. CASE r.flagDisconnect
  BY <1>1, StopWired DEF QueryGenerator, Kept
<1>2. CASE ~r.flagDisconnect /\ r.queue = <<>>
  <2>1. Plain("disconnect") \in Msg
    BY PlainType
  <2> QED BY <1>2, <2>1, AsyncSendWired DEF QueryGenerator, Kept
<1>3. CASE ~r.flagDisconnect /\ r.queue # <<>>
  <2> DEFINE h == Head(r.queue)
             q == Tail(r.queue)
             u == [r EXCEPT !.sent = h, !.queue = q]
             m == [t |-> "query", tab |-> h, ver |-> 0]
  <2>1. r \in ClientType /\ r.queue \in Seq(TableSet)
    BY ClientFields DEF Wired
  <2>2. h \in TableSet /\ q \in Seq(TableSet)
    BY <1>3, <2>1
  <2>3. QueryGenerator(r) = AsyncSend(u, m)
    BY <1>3 DEF QueryGenerator
  <2> HIDE DEF h, q
  <2>4. u \in ClientType
    BY <2>1, <2>2, Zenon DEF ClientType
  <2>5. SameWire(r, u)
    BY <2>1, Zenon DEF ClientType, SameWire
  <2>6. m \in Msg
    BY <2>2, ConstantsAssumption DEF Msg
  <2> HIDE DEF u, m
  <2>7. Wired(u)
    BY <2>4, <2>5, SameWired
  <2> QED BY <2>3, <2>6, <2>7, AsyncSendWired DEF Kept
<1> QED BY <1>1, <1>2, <1>3

LEMMA CheckConnectKept ==
    ASSUME NEW r, Wired(r)
    PROVE  Kept(CheckConnect(r))
<1>1. Plain("connect") \in Msg
  BY PlainType
<1> QED BY <1>1, QueryGeneratorKept, StopWired, AsyncSendWired DEF CheckConnect, Kept

LEMMA CommandAnalizeWired ==
    ASSUME NEW r, Wired(r), NEW m \in Msg, m.t \in Answers
    PROVE  Wired(CommandAnalize(r, m))
<1>1. r \in ClientType /\ r.resp \in Data /\ r.sent \in TableSet \cup {NoTable}
  BY ClientFields DEF Wired
<1>2. CASE m.t = "connectOk"
  <2> DEFINE u == [r EXCEPT !.flagConnet = TRUE, !.flagDisconnect = FALSE]
  <2>1. u \in ClientType
    BY <1>1, Zenon DEF ClientType
  <2>2. SameWire(r, u)
    BY <1>1, Zenon DEF ClientType, SameWire
  <2>3. CommandAnalize(r, m) = u
    BY <1>2 DEF CommandAnalize
  <2> QED BY <2>1, <2>2, <2>3, SameWired
<1>3. CASE m.t \in {"connectFail", "disconnect"}
  <2> DEFINE u == [r EXCEPT !.flagDisconnect = TRUE]
  <2>1. u \in ClientType
    BY <1>1, Zenon DEF ClientType
  <2>2. SameWire(r, u)
    BY <1>1, Zenon DEF ClientType, SameWire
  <2>3. CommandAnalize(r, m) = u
    BY <1>3 DEF CommandAnalize
  <2> QED BY <2>1, <2>2, <2>3, SameWired
<1>4. CASE m.t \in {"table", "rest"}
  <2> DEFINE d == [r.resp EXCEPT ![r.sent] = [from |-> m.tab, ver |-> m.ver]]
             u == [r EXCEPT !.resp = d]
  <2>1. CommandAnalize(r, m) = IF <<r.sent, m.tab>> \in Fits THEN u ELSE r
    BY <1>4 DEF CommandAnalize
  <2>2. d \in Data
    <3>1. [from |-> m.tab, ver |-> m.ver] \in [from : TableSet \cup {NoTable}, ver : 0..MaxVersion]
      BY DEF Msg
    <3> QED BY <1>1, <3>1, Zenon DEF Data
  <2> HIDE DEF d
  <2>3. u \in ClientType
    BY <1>1, <2>2, Zenon DEF ClientType
  <2>4. SameWire(r, u)
    BY <1>1, Zenon DEF ClientType, SameWire
  <2> HIDE DEF u
  <2> QED BY <2>1, <2>3, <2>4, SameWired
<1> QED BY <1>2, <1>3, <1>4 DEF Answers

-----------------------------------------------------------------------------
(* The steps.  MainTyped and CountersTyped are the rest of TypeOK.         *)
MainTyped ==
    /\ callback \in {"start", "update"} /\ tables \in Data /\ used \in Data
    /\ starts \in Nat /\ timer \in BOOLEAN

CountersTyped ==
    /\ version \in Versions /\ since \in Versions
    /\ rounds \in 0..MaxRounds /\ faults \in 0..MaxFaults /\ refused \in 0..MaxRefused
    /\ clean \in BOOLEAN /\ overlaps \in Nat

LEMMA CInvParts == CInv <=> Kept(c) /\ MainTyped /\ CountersTyped
BY Zenon DEF CInv, Kept, Wired, TypeOK, MainTyped, CountersTyped

LEMMA CInvPartsNext == (Kept(c) /\ MainTyped /\ CountersTyped)' => CInv'
BY Zenon DEF CInv, Kept, Wired, TypeOK, MainTyped, CountersTyped

LEMMA ParsedType ==
    ASSUME NEW m, c.parser \in {"clean", "partial", "failed"}
    PROVE  /\ Parsed(m) \in {"clean", "partial", "failed"}
           /\ Parsed(m) = "clean" => m.t \notin {"part", "junk"}
BY DEF Parsed

LEMMA CallbackTyped ==
    ASSUME NEW data \in Data, MainTyped, Callback(data)
    PROVE  MainTyped'
<1>1. tables' = UpdateData(data)
  BY DEF Callback, StartServers, UpdateDataCallback
<1>2. tables' \in Data
  BY <1>1 DEF UpdateData, MainTyped
<1>3. CASE UNCHANGED <<used, starts, callback, timer>>
  BY <1>2, <1>3 DEF MainTyped
<1>4. CASE used' = tables' /\ starts' = starts + 1 /\ callback' = "update" /\ timer' = TRUE
  BY <1>2, <1>4 DEF MainTyped
<1> QED BY <1>3, <1>4, Zenon DEF Callback, StartServers, UpdateDataCallback

LEMMA NoCallbackTyped ==
    ASSUME MainTyped, NoCallback
    PROVE  MainTyped'
BY DEF MainTyped, NoCallback

LEMMA StepKeeps ==
    ASSUME CInv, NEW r, Kept(r), Becomes(r), MainTyped'
    PROVE  CInv'
<1>1. CountersTyped'
  BY CInvParts DEF Becomes, CountersTyped
<1>2. Kept(c)'
  BY DEF Becomes
<1> QED BY <1>1, <1>2, CInvPartsNext

LEMMA UpdateTimerKeeps ==
    ASSUME CInv, UpdateTimer
    PROVE  CInv'
<1> DEFINE u == [c EXCEPT !.queue = Tables]
<1>1. Wired(c) /\ c \in ClientType /\ MainTyped /\ CountersTyped
  BY CInvParts DEF Kept, Wired
<1>2. Tables \in Seq(TableSet)
  BY ConstantsAssumption
<1>3. u \in ClientType
  BY <1>1, <1>2, Zenon DEF ClientType
<1>4. SameWire(c, u)
  BY <1>1, Zenon DEF ClientType, SameWire
<1>5. c' = Start(u) /\ NoCallback
  BY DEF UpdateTimer
<1> HIDE DEF u
<1>6. Kept(c)'
  BY <1>1, <1>3, <1>4, <1>5, SameWired, StartWired DEF Kept
<1>7. CountersTyped'
  <2>1. clean' \in BOOLEAN
    BY Zenon DEF UpdateTimer, Idle
  <2>2. rounds' \in 0..MaxRounds /\ overlaps' \in Nat /\ since' \in Versions
    BY <1>1, ConstantsAssumption DEF UpdateTimer, CountersTyped
  <2>3. UNCHANGED <<version, faults, refused>>
    BY DEF UpdateTimer
  <2> QED BY <1>1, <2>1, <2>2, <2>3 DEF CountersTyped
<1>8. MainTyped'
  BY <1>1, <1>5, NoCallbackTyped
<1> QED BY <1>6, <1>7, <1>8, CInvPartsNext

LEMMA HandlerErrorKeeps ==
    ASSUME CInv, HandlerError
    PROVE  CInv'
<1>1. Wired(c) /\ MainTyped /\ c.ready # <<>>
  BY CInvParts DEF Kept, HandlerError, Runs
<1>2. Wired(Popped)
  BY <1>1, PoppedWired
<1>3. Kept(Start(Stop(Popped)))
  BY <1>2, StopWired, StartWired DEF Kept
<1> QED BY <1>1, <1>3, NoCallbackTyped, StepKeeps DEF HandlerError

LEMMA HandlerConnectKeeps ==
    ASSUME CInv, HandlerConnect
    PROVE  CInv'
<1>1. Wired(c) /\ MainTyped /\ c.ready # <<>> /\ c.resp \in Data
  BY CInvParts, ClientFields DEF Kept, Wired, HandlerConnect, Runs
<1>2. Wired(Popped)
  BY <1>1, PoppedWired
<1>3. Kept(CheckConnect(Popped))
  BY <1>2, CheckConnectKept
<1>4. MainTyped'
  BY <1>1, NoCallbackTyped, CallbackTyped DEF HandlerConnect
<1> QED BY <1>3, <1>4, StepKeeps DEF HandlerConnect

LEMMA SendCommandKeeps ==
    ASSUME CInv, SendCommand
    PROVE  CInv'
<1> DEFINE b == Plain("none")
           u == [Popped EXCEPT !.buf = b]
<1>1. Wired(c) /\ MainTyped /\ c.ready # <<>>
  BY CInvParts DEF Kept, SendCommand, Runs
<1>2. Wired(Popped) /\ Popped \in ClientType
  BY <1>1, PoppedWired DEF Wired
<1>3. b \in Msg
  BY PlainType
<1>4. Becomes(AsyncReceive(u)) /\ NoCallback
  BY DEF SendCommand
<1> HIDE DEF b
<1>5. u \in ClientType
  BY <1>2, <1>3, Zenon DEF ClientType
<1>6. SameWire(Popped, u)
  BY <1>2, Zenon DEF ClientType, SameWire
<1> HIDE DEF u
<1>7. Kept(AsyncReceive(u))
  BY <1>2, <1>5, <1>6, SameWired, AsyncReceiveWired DEF Kept
<1> QED BY <1>1, <1>4, <1>7, NoCallbackTyped, StepKeeps

LEMMA SendRestKeeps ==
    ASSUME CInv, SendRest
    PROVE  CInv'
<1> DEFINE j == Plain("junk")
           d == Append(Popped.toDb, j)
           u == [Popped EXCEPT !.toDb = d]
<1>1. Wired(c) /\ c \in ClientType /\ c.buf \in Msg /\ MainTyped /\ c.ready # <<>>
  BY CInvParts, ClientFields DEF Kept, Wired, SendRest, Runs
<1>2. Wired(Popped) /\ Popped \in ClientType /\ Popped.toDb \in Seq(Msg)
  BY <1>1, PoppedWired, ClientFields DEF Wired
<1>3. Popped.sock = "connected"
  <2>1. Popped.sock = c.sock
    BY <1>1, Zenon DEF ClientType, Popped
  <2> QED BY <2>1 DEF SendRest
<1>4. d \in Seq(Msg)
  <2>1. j \in Msg
    BY PlainType
  <2> QED BY <1>2, <2>1
<1>5. Becomes(Completed(u, "send", TRUE, c.buf)) /\ NoCallback
  BY DEF SendRest
<1> HIDE DEF d
<1>6. u \in ClientType
  BY <1>2, <1>4, Zenon DEF ClientType
<1>7. /\ u.toClient = Popped.toClient /\ u.ready = Popped.ready /\ u.sock = Popped.sock
      /\ u.peer = Popped.peer
  BY <1>2, Zenon DEF ClientType
<1> HIDE DEF u
<1>8. Wired(u)
  BY <1>2, <1>3, <1>6, <1>7 DEF Wired
<1>9. Kept(Completed(u, "send", TRUE, c.buf))
  <2>1. "send" \in Ops /\ "send" # "receive"
    BY DEF Ops
  <2> QED BY <1>1, <1>8, <2>1, CompletedWired DEF Kept
<1> QED BY <1>1, <1>5, <1>9, NoCallbackTyped, StepKeeps

LEMMA SendWrapsKeeps ==
    ASSUME CInv, SendWraps
    PROVE  CInv'
<1> DEFINE u == [Popped EXCEPT !.skewed = TRUE]
<1>1. Wired(c) /\ c.buf \in Msg /\ MainTyped /\ c.ready # <<>>
  BY CInvParts, ClientFields DEF Kept, Wired, SendWraps, Runs
<1>2. Wired(Popped) /\ Popped \in ClientType
  BY <1>1, PoppedWired DEF Wired
<1>3. Becomes(Completed(u, "send", FALSE, c.buf)) /\ NoCallback
  BY DEF SendWraps
<1>4. u \in ClientType
  BY <1>2, Zenon DEF ClientType
<1>5. SameWire(Popped, u)
  BY <1>2, Zenon DEF ClientType, SameWire
<1> HIDE DEF u
<1>6. Wired(u)
  BY <1>2, <1>4, <1>5, SameWired
<1>7. Kept(Completed(u, "send", FALSE, c.buf))
  <2>1. "send" \in Ops /\ "send" # "receive"
    BY DEF Ops
  <2> QED BY <1>1, <1>6, <2>1, CompletedWired DEF Kept
<1> QED BY <1>1, <1>3, <1>7, NoCallbackTyped, StepKeeps

LEMMA ReciveCommandKeeps ==
    ASSUME CInv, ReciveCommand
    PROVE  CInv'
<1> DEFINE m == Head(c.ready).msg
           x == Parsed(m)
           r == [Popped EXCEPT !.parser = x]
           a == CommandAnalize(r, m)
<1>1. Wired(c) /\ c \in ClientType /\ MainTyped /\ c.ready # <<>>
  BY CInvParts DEF Kept, Wired, ReciveCommand, Runs
<1>2. /\ Wired(Popped) /\ Popped \in ClientType /\ m \in Msg /\ m.t \in Heard
  <2>1. Head(c.ready).op = "receive" /\ Head(c.ready).ok
    BY DEF ReciveCommand, Runs
  <2>2. Wired(Popped) /\ Head(c.ready) \in Event /\ m.t \in Heard
    BY <1>1, <2>1, PoppedWired
  <2>3. m \in Msg
    BY <2>2, Zenon DEF Event
  <2> QED BY <2>2, <2>3 DEF Wired
<1>3. c.parser \in {"clean", "partial", "failed"}
  BY <1>1, Zenon DEF ClientType
<1>4. x \in {"clean", "partial", "failed"} /\ (x = "clean" => m.t \notin {"part", "junk"})
  BY <1>3, ParsedType
<1>5. x = "clean" => m.t \in Answers
  BY <1>2, <1>4 DEF Heard
<1>6. /\ NoCallback \/ (x = "clean" /\ Callback(a.resp))
      /\ \/ Becomes(AsyncReceive(r))
         \/ x = "clean" /\ Becomes(CheckConnect(a))
  BY Zenon DEF ReciveCommand
<1> HIDE DEF x, m
<1>7. r \in ClientType
  BY <1>2, <1>4, Zenon DEF ClientType
<1>8. SameWire(Popped, r)
  BY <1>2, Zenon DEF ClientType, SameWire
<1> HIDE DEF r
<1>9. Wired(r)
  BY <1>2, <1>7, <1>8, SameWired
<1>10. x = "clean" => Wired(a)
  BY <1>2, <1>5, <1>9, CommandAnalizeWired
<1>11. x = "clean" => a.resp \in Data
  BY <1>10, ClientFields DEF Wired
<1> HIDE DEF a
<1>12. MainTyped'
  BY <1>1, <1>6, <1>11, NoCallbackTyped, CallbackTyped
<1>13. Kept(AsyncReceive(r))
  BY <1>9, AsyncReceiveWired DEF Kept
<1>14. x = "clean" => Kept(CheckConnect(a))
  BY <1>10, CheckConnectKept
<1> QED BY <1>6, <1>12, <1>13, <1>14, StepKeeps

(* An operation leaves the reactor and its handler is queued.              *)
LEMMA PendingType ==
    ASSUME CInv, NEW op
    PROVE  Without(op) \in Seq(Ops)
<1>1. c.pend \in Seq(Ops)
  BY CInvParts, ClientFields DEF Kept, Wired
<1> QED BY <1>1, FirstRemoved DEF Without

LEMMA ConnectedKeeps ==
    ASSUME CInv, Connected
    PROVE  CInv'
<1> DEFINE p == Without("connect")
           u == [c EXCEPT !.sock = "connected", !.peer = "open", !.pend = p]
<1>1. Wired(c) /\ c \in ClientType /\ MainTyped /\ p \in Seq(Ops) /\ Plain("none") \in Msg
  BY CInvParts, PendingType, PlainType DEF Kept, Wired
<1>2. Becomes(Completed(u, "connect", TRUE, Plain("none"))) /\ NoCallback
  BY DEF Connected
<1> HIDE DEF p
<1>3. u \in ClientType
  BY <1>1, Zenon DEF ClientType
<1>4. u.toClient = c.toClient /\ u.ready = c.ready /\ u.sock = "connected"
  BY <1>1, Zenon DEF ClientType
<1> HIDE DEF u
<1>5. Wired(u)
  BY <1>1, <1>3, <1>4 DEF Wired
<1>6. Kept(Completed(u, "connect", TRUE, Plain("none")))
  <2>1. "connect" \in Ops /\ "connect" # "receive"
    BY DEF Ops
  <2> QED BY <1>1, <1>5, <2>1, CompletedWired DEF Kept
<1> QED BY <1>1, <1>2, <1>6, NoCallbackTyped, StepKeeps

LEMMA RefusedKeeps ==
    ASSUME CInv, Refused
    PROVE  CInv'
<1> DEFINE p == Without("connect")
           u == [c EXCEPT !.sock = "opened", !.pend = p]
<1>1. /\ Wired(c) /\ c \in ClientType /\ MainTyped /\ CountersTyped
      /\ p \in Seq(Ops) /\ Plain("none") \in Msg
  BY CInvParts, PendingType, PlainType DEF Kept, Wired
<1>2. c' = Completed(u, "connect", FALSE, Plain("none")) /\ NoCallback /\ c.sock = "connecting"
  BY DEF Refused
<1> HIDE DEF p
<1>3. u \in ClientType
  BY <1>1, Zenon DEF ClientType
<1>4. /\ u.toClient = c.toClient /\ u.ready = c.ready /\ u.sock = "opened"
      /\ u.peer = c.peer /\ u.toDb = c.toDb
  BY <1>1, Zenon DEF ClientType
<1> HIDE DEF u
<1>5. Wired(u)
  BY <1>1, <1>2, <1>3, <1>4 DEF Wired
<1>6. Kept(c)'
  <2>1. "connect" \in Ops /\ "connect" # "receive"
    BY DEF Ops
  <2>2. Kept(Completed(u, "connect", FALSE, Plain("none")))
    BY <1>1, <1>5, <2>1, CompletedWired DEF Kept
  <2> QED BY <1>2, <2>2
<1>7. MainTyped'
  BY <1>1, <1>2, NoCallbackTyped
<1>8. CountersTyped'
  <2>1. refused' \in 0..MaxRefused
    BY <1>1, ConstantsAssumption DEF Refused, CountersTyped
  <2>2. UNCHANGED <<version, rounds, faults, since, clean, overlaps>>
    BY DEF Refused
  <2> QED BY <1>1, <2>1, <2>2 DEF CountersTyped
<1> QED BY <1>6, <1>7, <1>8, CInvPartsNext

LEMMA PendingSendKeeps ==
    ASSUME CInv, PendingSend
    PROVE  CInv'
<1> DEFINE p == Without("send")
<1>1. /\ Wired(c) /\ c \in ClientType /\ MainTyped /\ p \in Seq(Ops) /\ c.buf \in Msg
      /\ Plain("junk") \in Msg /\ c.toDb \in Seq(Msg)
  BY CInvParts, PendingType, PlainType, ClientFields DEF Kept, Wired
<1>2. PICK m \in {c.buf, Plain("junk")} \ {Plain("none")} :
          Becomes(Completed([c EXCEPT !.pend = p, !.toDb = Append(@, m)], "send", TRUE, m))
  BY DEF PendingSend
<1>3. NoCallback /\ c.sock = "connected" /\ m \in Msg
  BY <1>1, <1>2 DEF PendingSend
<1> DEFINE d == Append(c.toDb, m)
           u == [c EXCEPT !.pend = p, !.toDb = d]
<1>4. d \in Seq(Msg)
  BY <1>1, <1>3
<1>5. Becomes(Completed(u, "send", TRUE, m))
  BY <1>2
<1> HIDE DEF p, d
<1>6. u \in ClientType
  BY <1>1, <1>4, Zenon DEF ClientType
<1>7. /\ u.toClient = c.toClient /\ u.ready = c.ready /\ u.sock = c.sock
      /\ u.peer = c.peer
  BY <1>1, Zenon DEF ClientType
<1> HIDE DEF u
<1>8. Wired(u)
  BY <1>1, <1>3, <1>6, <1>7 DEF Wired
<1>9. Kept(Completed(u, "send", TRUE, m))
  <2>1. "send" \in Ops /\ "send" # "receive"
    BY DEF Ops
  <2> QED BY <1>3, <1>8, <2>1, CompletedWired DEF Kept
<1> QED BY <1>1, <1>3, <1>5, <1>9, NoCallbackTyped, StepKeeps

LEMMA PendingFailsKeeps ==
    ASSUME CInv, NEW op \in Ops, PendingFails(op)
    PROVE  CInv'
<1> DEFINE p == Without(op)
           u == [c EXCEPT !.pend = p]
<1>1. Wired(c) /\ c \in ClientType /\ MainTyped /\ p \in Seq(Ops) /\ Plain("none") \in Msg
  BY CInvParts, PendingType, PlainType DEF Kept, Wired
<1>2. Becomes(Completed(u, op, FALSE, Plain("none"))) /\ NoCallback
  BY DEF PendingFails
<1> HIDE DEF p
<1>3. u \in ClientType
  BY <1>1, Zenon DEF ClientType
<1>4. SameWire(c, u)
  BY <1>1, Zenon DEF ClientType, SameWire
<1> HIDE DEF u
<1>5. Wired(u)
  BY <1>1, <1>3, <1>4, SameWired
<1>6. Kept(Completed(u, op, FALSE, Plain("none")))
  BY <1>1, <1>5, CompletedWired DEF Kept
<1> QED BY <1>1, <1>2, <1>6, NoCallbackTyped, StepKeeps

(* What arrives and the rest of what is on its way are answers.            *)
LEMMA ReceiveWired ==
    ASSUME CInv, c.sock = "connected", NEW q \in Seq(Msg), NEW m \in Msg,
           \A i \in DOMAIN q : q[i].t \in Answers, m.t \in Heard
    PROVE  Kept(Completed([c EXCEPT !.pend = Without("receive"), !.toClient = q],
                          "receive", TRUE, m))
<1> DEFINE p == Without("receive")
           u == [c EXCEPT !.pend = p, !.toClient = q]
<1>1. Wired(c) /\ c \in ClientType /\ p \in Seq(Ops)
  BY CInvParts, PendingType DEF Kept, Wired
<1> HIDE DEF p
<1>2. u \in ClientType
  BY <1>1, Zenon DEF ClientType
<1>3. u.toClient = q /\ u.ready = c.ready /\ u.sock = c.sock
  BY <1>1, Zenon DEF ClientType
<1> HIDE DEF u
<1>4. Wired(u)
  BY <1>1, <1>2, <1>3 DEF Wired
<1>5. "receive" \in Ops
  BY DEF Ops
<1>6. Kept(Completed(u, "receive", TRUE, m))
  BY <1>4, <1>5, CompletedWired DEF Kept
<1> QED BY <1>6 DEF u, p

LEMMA ReceiveKeeps ==
    ASSUME CInv, Receive
    PROVE  CInv'
<1> DEFINE m == Head(c.toClient)
           r == [c EXCEPT !.pend = Without("receive")]
           rest == [c.toClient[1] EXCEPT !.t = "rest"]
           q == [c.toClient EXCEPT ![1] = rest]
<1>1. /\ Wired(c) /\ c \in ClientType /\ MainTyped /\ c.toClient \in Seq(Msg)
      /\ c.toClient # <<>> /\ c.sock = "connected" /\ NoCallback
  BY CInvParts, ClientFields DEF Kept, Wired, Receive
<1>2. /\ m \in Msg /\ m.t \in Answers /\ 1 \in DOMAIN c.toClient /\ m = c.toClient[1]
      /\ Tail(c.toClient) \in Seq(Msg)
      /\ \A i \in DOMAIN Tail(c.toClient) : Tail(c.toClient)[i].t \in Answers
  <2>1. /\ m = c.toClient[1] /\ 1 \in DOMAIN c.toClient /\ m \in Msg
        /\ Tail(c.toClient) \in Seq(Msg)
        /\ \A i \in DOMAIN Tail(c.toClient) : i + 1 \in DOMAIN c.toClient /\ Tail(c.toClient)[i] = c.toClient[i + 1]
    BY <1>1
  <2> QED BY <1>1, <2>1 DEF Wired
<1>3. CASE Becomes(Completed([r EXCEPT !.toClient = Tail(@)], "receive", TRUE, m))
  <2>1. [r EXCEPT !.toClient = Tail(@)] = [c EXCEPT !.pend = Without("receive"), !.toClient = Tail(c.toClient)]
    BY <1>1, Zenon DEF ClientType
  <2>2. m.t \in Heard
    BY <1>2 DEF Heard
  <2>3. Kept(Completed([c EXCEPT !.pend = Without("receive"), !.toClient = Tail(c.toClient)], "receive", TRUE, m))
    BY <1>1, <1>2, <2>2, ReceiveWired
  <2> QED BY <1>1, <1>3, <2>1, <2>3, NoCallbackTyped, StepKeeps
<1>4. CASE Becomes(Completed([r EXCEPT !.toClient[1].t = "rest"], "receive", TRUE, Plain("part")))
  <2>1. [r EXCEPT !.toClient[1].t = "rest"] = [c EXCEPT !.pend = Without("receive"), !.toClient = q]
    BY <1>1, Zenon DEF ClientType
  <2>2. rest \in Msg /\ rest.t = "rest"
    BY <1>2 DEF Msg
  <2> HIDE DEF rest
  <2>3. q \in Seq(Msg) /\ \A i \in DOMAIN q : i \in DOMAIN c.toClient /\ (q[i] = rest \/ q[i] = c.toClient[i])
    BY <1>1, <2>2
  <2> HIDE DEF q
  <2>4. \A i \in DOMAIN q : q[i].t \in Answers
    BY <1>1, <2>2, <2>3 DEF Wired, Answers
  <2>5. Plain("part") \in Msg /\ Plain("part").t \in Heard
    BY PlainType DEF Heard
  <2>6. Kept(Completed([c EXCEPT !.pend = Without("receive"), !.toClient = q], "receive", TRUE, Plain("part")))
    BY <1>1, <2>3, <2>4, <2>5, ReceiveWired
  <2> QED BY <1>1, <1>4, <2>1, <2>6, NoCallbackTyped, StepKeeps
<1>5. CASE Becomes(Completed([r EXCEPT !.toClient = <<>>], "receive", TRUE, Plain("junk")))
  <2>1. [r EXCEPT !.toClient = <<>>] = [c EXCEPT !.pend = Without("receive"), !.toClient = <<>>]
    BY <1>1, Zenon DEF ClientType
  <2>2. Plain("junk") \in Msg /\ Plain("junk").t \in Heard
    BY PlainType DEF Heard
  <2>3. <<>> \in Seq(Msg) /\ \A i \in DOMAIN <<>> : <<>>[i].t \in Answers
    OBVIOUS
  <2>4. Kept(Completed([c EXCEPT !.pend = Without("receive"), !.toClient = <<>>], "receive", TRUE, Plain("junk")))
    BY <1>1, <2>2, <2>3, ReceiveWired
  <2> QED BY <1>1, <1>5, <2>1, <2>4, NoCallbackTyped, StepKeeps
<1> QED BY <1>3, <1>4, <1>5 DEF Receive

(* The session reads a request and answers it or says nothing.             *)
LEMMA SessionWired ==
    ASSUME CInv, NEW t, DbRequest(t), NEW p \in {"open", "auth", "ended", "deaf"}
    PROVE  /\ Kept(Silent(p))
           /\ \A m \in Msg : m.t \in Answers => Kept(Answered(m, p))
<1> DEFINE d == Tail(c.toDb)
           s == [c EXCEPT !.toDb = d, !.peer = p]
<1>1. /\ Wired(c) /\ Kept(c) /\ c \in ClientType /\ c.toDb \in Seq(Msg) /\ c.toDb # <<>>
      /\ c.toClient \in Seq(Msg)
  BY CInvParts, ClientFields DEF Kept, Wired, DbRequest
<1>2. c.sock = "connected"
  BY <1>1 DEF Wired
<1>3. d \in Seq(Msg)
  BY <1>1
<1>4. Silent(p) = s
  BY DEF Silent
<1> HIDE DEF d
<1>5. s \in ClientType
  BY <1>1, <1>3, Zenon DEF ClientType
<1>6. s.toClient = c.toClient /\ s.ready = c.ready /\ s.sock = c.sock /\ s.pend = c.pend
  BY <1>1, Zenon DEF ClientType
<1> HIDE DEF s
<1>7. Kept(s)
  BY <1>1, <1>2, <1>5, <1>6 DEF Kept, Wired, Busy
<1>8. ASSUME NEW m \in Msg, m.t \in Answers PROVE Kept(Answered(m, p))
  <2> DEFINE q == Append(c.toClient, m)
             u == [c EXCEPT !.toDb = d, !.peer = p, !.toClient = q]
  <2>1. /\ q \in Seq(Msg)
        /\ \A i \in DOMAIN q : (i \in DOMAIN c.toClient /\ q[i] = c.toClient[i]) \/ q[i] = m
    BY <1>1
  <2>2. Answered(m, p) = u
    BY DEF Answered, d
  <2> HIDE DEF q
  <2>3. u \in ClientType
    BY <1>1, <1>3, <2>1, Zenon DEF ClientType
  <2>4. u.toClient = q /\ u.ready = c.ready /\ u.sock = c.sock /\ u.pend = c.pend
    BY <1>1, Zenon DEF ClientType
  <2> HIDE DEF u
  <2>5. \A i \in DOMAIN u.toClient : u.toClient[i].t \in Answers
    BY <1>1, <1>8, <2>1, <2>4 DEF Wired
  <2>6. Kept(u)
    BY <1>1, <1>2, <2>3, <2>4, <2>5 DEF Kept, Wired, Busy
  <2> QED BY <2>2, <2>6
<1> QED BY <1>4, <1>7, <1>8

LEMMA FaultKeeps ==
    ASSUME CInv, NEW r, Kept(r), c' = r, Fault, NoCallback
    PROVE  CInv'
<1>1. MainTyped'
  BY CInvParts, NoCallbackTyped
<1>2. CountersTyped'
  <2>1. faults' \in 0..MaxFaults
    BY CInvParts, ConstantsAssumption DEF Fault, CountersTyped
  <2>2. UNCHANGED <<version, rounds, refused, since, overlaps>> /\ clean' = FALSE
    BY DEF Fault
  <2> QED BY <2>1, <2>2, CInvParts DEF CountersTyped
<1>3. Kept(c)'
  OBVIOUS
<1> QED BY <1>1, <1>2, <1>3, CInvPartsNext

LEMMA SessionKeeps ==
    ASSUME CInv, Session
    PROVE  CInv'
<1>1. MainTyped'
  BY CInvParts, NoCallbackTyped DEF Session, DbConnect, DbQuery, DbDisconnect, DbJunk
<1>2. NoCallback
  BY DEF Session, DbConnect, DbQuery, DbDisconnect, DbJunk
<1>3. CASE DbConnect
  <2>1. /\ Plain("connectOk") \in Msg /\ Plain("connectOk").t \in Answers
        /\ Plain("connectFail") \in Msg /\ Plain("connectFail").t \in Answers
    BY PlainType DEF Answers
  <2>2. DbRequest("connect")
    BY <1>3 DEF DbConnect
  <2>3. /\ Kept(Answered(Plain("connectOk"), "auth")) /\ Kept(Silent("auth"))
        /\ Kept(Answered(Plain("connectFail"), "ended"))
    BY <2>1, <2>2, SessionWired
  <2> QED BY <1>1, <1>2, <1>3, <2>3, StepKeeps, FaultKeeps DEF DbConnect
<1>4. CASE DbQuery
  <2> DEFINE m == [t |-> "table", tab |-> Head(c.toDb).tab, ver |-> version]
  <2>1. DbRequest("query") /\ c.toDb \in Seq(Msg) /\ c.toDb # <<>>
    BY <1>4, CInvParts, ClientFields DEF DbQuery, DbRequest, Kept, Wired
  <2>2. m \in Msg /\ m.t \in Answers
    <3>1. Head(c.toDb) \in Msg
      BY <2>1
    <3>2. Head(c.toDb).tab \in TableSet \cup {NoTable}
      BY <3>1 DEF Msg
    <3>3. version \in 0..MaxVersion
      BY CInvParts, ConstantsAssumption DEF CountersTyped, Versions
    <3> QED BY <3>2, <3>3, QueryType DEF Answers
  <2>3. Plain("disconnect") \in Msg /\ Plain("disconnect").t \in Answers
    BY PlainType DEF Answers
  <2>4. \/ Becomes(Silent("open")) \/ Becomes(Answered(m, "auth"))
        \/ Fault /\ c' = Answered(Plain("disconnect"), "ended")
    BY <1>4 DEF DbQuery
  <2> HIDE DEF m
  <2>5. /\ Kept(Answered(m, "auth")) /\ Kept(Silent("open"))
        /\ Kept(Answered(Plain("disconnect"), "ended"))
    BY <2>1, <2>2, <2>3, SessionWired
  <2> QED BY <1>1, <1>2, <2>4, <2>5, StepKeeps, FaultKeeps
<1>5. CASE DbDisconnect
  <2>1. Plain("disconnect") \in Msg /\ Plain("disconnect").t \in Answers
    BY PlainType DEF Answers
  <2>2. DbRequest("disconnect")
    BY <1>5 DEF DbDisconnect
  <2>3. Kept(Answered(Plain("disconnect"), "ended")) /\ Kept(Silent("open"))
    BY <2>1, <2>2, SessionWired
  <2> QED BY <1>1, <1>5, <2>3, StepKeeps DEF DbDisconnect
<1>6. CASE DbJunk
  <2>1. DbRequest("junk")
    BY <1>6 DEF DbJunk
  <2>2. Kept(Silent("deaf"))
    BY <2>1, SessionWired
  <2> QED BY <1>1, <1>6, <2>2, StepKeeps DEF DbJunk
<1> QED BY <1>3, <1>4, <1>5, <1>6 DEF Session

LEMMA BreakKeeps ==
    ASSUME CInv, Break
    PROVE  CInv'
<1> DEFINE u == [c EXCEPT !.peer = "none", !.toDb = <<>>, !.toClient = <<>>]
<1>1. Kept(c) /\ c \in ClientType /\ <<>> \in Seq(Msg)
  BY CInvParts DEF Kept, Wired
<1>2. c' = u /\ Fault /\ NoCallback
  BY DEF Break
<1>3. u \in ClientType
  BY <1>1, Zenon DEF ClientType
<1>4. /\ u.toClient = <<>> /\ u.toDb = <<>> /\ u.peer = "none"
      /\ u.ready = c.ready /\ u.sock = c.sock /\ u.pend = c.pend
  BY <1>1, Zenon DEF ClientType
<1> HIDE DEF u
<1>5. Kept(u)
  BY <1>1, <1>3, <1>4 DEF Kept, Wired, Busy
<1> QED BY <1>2, <1>5, FaultKeeps

LEMMA DbChangesKeeps ==
    ASSUME CInv, DbChanges
    PROVE  CInv'
<1>1. Kept(c)'
  BY CInvParts DEF DbChanges
<1>2. MainTyped'
  BY CInvParts, NoCallbackTyped DEF DbChanges
<1>3. CountersTyped'
  <2>1. version' \in Versions
    BY CInvParts, ConstantsAssumption DEF DbChanges, CountersTyped, Versions
  <2>2. UNCHANGED <<rounds, faults, refused, since, clean, overlaps>>
    BY DEF DbChanges
  <2> QED BY <2>1, <2>2, CInvParts DEF CountersTyped
<1> QED BY <1>1, <1>2, <1>3, CInvPartsNext

LEMMA NewClientType == NewClient \in ClientType
<1>1. Plain("none") \in Msg /\ Tables \in Seq(TableSet)
  BY PlainType, ConstantsAssumption
<1>2. Nothing \in Data
  BY ConstantsAssumption DEF Nothing, Data, Absent
<1>3. <<>> \in Seq(Ops) /\ <<>> \in Seq(Msg) /\ <<>> \in Seq(Event)
  OBVIOUS
<1> QED BY <1>1, <1>2, <1>3, Zenon DEF NewClient, ClientType, Event

LEMMA InitKept == Init => CInv
<1> SUFFICES ASSUME Init PROVE CInv
  OBVIOUS
<1>1. NewClient \in ClientType
  BY NewClientType
<1>2. /\ NewClient.toClient = <<>> /\ NewClient.ready = <<>>
      /\ NewClient.peer = "none" /\ NewClient.toDb = <<>>
  BY Zenon DEF NewClient
<1>3. Wired(NewClient)
  BY <1>1, <1>2 DEF Wired
<1>4. Kept(c)
  BY <1>3, StartWired DEF Init, Kept
<1>5. MainTyped
  <2>1. Nothing \in Data
    BY ConstantsAssumption DEF Nothing, Data, Absent
  <2> QED BY <2>1 DEF Init, MainTyped
<1>6. CountersTyped
  BY ConstantsAssumption DEF Init, CountersTyped, Versions
<1> QED BY <1>4, <1>5, <1>6, CInvParts

LEMMA NextKept ==
    ASSUME CInv, [Next]_vars
    PROVE  CInv'
<1>1. CASE UNCHANGED vars
  <2>1. Kept(c)'
    BY <1>1, CInvParts DEF vars
  <2>2. MainTyped'
    BY <1>1, CInvParts DEF vars, MainTyped
  <2>3. CountersTyped'
    BY <1>1, CInvParts DEF vars, CountersTyped
  <2> QED BY <2>1, <2>2, <2>3, CInvPartsNext
<1>2. CASE UpdateTimer
  BY <1>2, UpdateTimerKeeps
<1>3. CASE Handler
  BY <1>3, HandlerErrorKeeps, HandlerConnectKeeps, SendCommandKeeps, SendRestKeeps,
     SendWrapsKeeps, ReciveCommandKeeps, Zenon DEF Handler
<1>4. CASE Reactor
  BY <1>4, ConnectedKeeps, PendingSendKeeps, ReceiveKeeps, PendingFailsKeeps DEF Reactor
<1>5. CASE Refused \/ Session \/ Break \/ DbChanges
  BY <1>5, RefusedKeeps, SessionKeeps, BreakKeeps, DbChangesKeeps
<1> QED BY <1>1, <1>2, <1>3, <1>4, <1>5 DEF Next

THEOREM ClientKept == Spec => []CInv
BY InitKept, NextKept, PTL DEF Spec

(* However exchanges overlap and break off on the one socket of ClientDB,  *)
(* no handler leaves it open with nothing left to do, and MainServer       *)
(* starts the servers once, with all tables.                               *)
THEOREM ExchangesSound == Spec => []ExchangeSound
<1>1. CInv => TypeOK /\ IdleIsClosed
  BY Zenon DEF CInv, Kept, Busy, IdleIsClosed, Idle
<1>2. CInv => ExchangeSound \/ ~(StartedOnce /\ AllOrNothing)
  BY <1>1, Zenon DEF ExchangeSound
<1> QED BY <1>2, ClientKept, ServersStartOnce, TablesAllOrNothing, PTL

-----------------------------------------------------------------------------
(* An exchange that began alone and has met no fault: a client r whose     *)
(* exchange was begun at version s of the data base file.                  *)

(* The rows of table t in d are its own, no older than version s.          *)
Fresh(d, t, s) == d[t].from = t /\ d[t].ver >= s

Done(op, ok, m) == [op |-> op, ok |-> ok, msg |-> m]

Queried(t) == [t |-> "query", tab |-> t, ver |-> 0]

(* a is the whole answer to q.                                             *)
Answer(a, q, s) ==
    /\ a \in Msg
    /\ \/ q = Plain("connect") /\ a = Plain("connectOk")
       \/ q.t = "query" /\ a.t = "table" /\ a.tab = q.tab /\ a.ver >= s
       \/ q = Plain("disconnect") /\ a = Plain("disconnect")

(* a is what is left of the answer to the query q.                         *)
Remainder(a, q, s) ==
    a \in Msg /\ q.t = "query" /\ a.t = "rest" /\ a.tab = q.tab /\ a.ver >= s

PeerBefore(q) == IF q.t = "connect" THEN "open" ELSE "auth"

PeerAfter(q) == IF q.t = "disconnect" THEN "ended" ELSE "auth"

(* The one request q is with the server, or its answer on its way back.    *)
OnTheLine(r, q, s) ==
    \/ r.toDb = <<q>> /\ r.toClient = <<>> /\ r.peer = PeerBefore(q)
    \/ /\ r.toDb = <<>> /\ r.peer = PeerAfter(q)
       /\ \E a \in Msg : r.toClient = <<a>> /\ Answer(a, q, s)

Handling(r, e) == r.pend = <<>> /\ r.ready = <<e>>

Receiving(r) == r.pend = <<"receive">> /\ r.ready = <<>>

Sending(r, q, s) ==
    Handling(r, Done("send", TRUE, q)) /\ r.buf = q /\ OnTheLine(r, q, s)

Received(r, q, s) ==
    /\ r.toDb = <<>> /\ r.toClient = <<>> /\ r.peer = PeerAfter(q)
    /\ \E a \in Msg : Handling(r, Done("receive", TRUE, a)) /\ Answer(a, q, s)

(* The stages of an answer that comes in two parts.                        *)
InParts(r, q, s) ==
    /\ r.toDb = <<>> /\ r.peer = "auth"
    /\ \E a \in Msg :
          /\ Remainder(a, q, s)
          /\ \/ /\ Handling(r, Done("receive", TRUE, Plain("part")))
                /\ r.toClient = <<a>> /\ r.parser = "clean"
             \/ Receiving(r) /\ r.toClient = <<a>> /\ r.parser = "partial"
             \/ /\ Handling(r, Done("receive", TRUE, a))
                /\ r.toClient = <<>> /\ r.parser = "partial"

(* One request at a time, from the send to the answer.                     *)
Asking(r, q, s) ==
    /\ r.sock = "connected"
    /\ \/ /\ q.t # "connect" => r.parser = "clean"
          /\ \/ Sending(r, q, s)
             \/ ~r.skewed /\ Receiving(r) /\ OnTheLine(r, q, s)
             \/ ~r.skewed /\ Received(r, q, s)
       \/ ~r.skewed /\ InParts(r, q, s)

Unconnected(r) == ~r.flagConnet /\ ~r.flagDisconnect /\ r.queue = Tables

Authorised(r) == r.flagConnet /\ ~r.flagDisconnect /\ ~r.skewed

(* Why q is asked: once connected every table is fresh, or asked for, or   *)
(* still to be asked for; the disconnect comes when all are fresh.         *)
Purpose(r, q, s) ==
    \/ q = Plain("connect") /\ Unconnected(r)
    \/ /\ q = Queried(r.sent) /\ r.sent \in TableSet /\ Authorised(r)
       /\ \A t \in TableSet : Fresh(r.resp, t, s) \/ t \in ToSet(r.queue) \/ t = r.sent
    \/ /\ q = Plain("disconnect") /\ Authorised(r)
       /\ \A t \in TableSet : Fresh(r.resp, t, s)

(* Before the first request and after a failed one.  What an earlier       *)
(* exchange may have spoilt keeps it here: a count in the static variable  *)
(* makes every send fail, a parser that has failed waits for ever.         *)
Connecting(r) ==
    /\ Unconnected(r)
    /\ \/ r.sock = "connecting" /\ r.pend = <<"connect">> /\ r.ready = <<>>
       \/ r.sock = "opened" /\ Handling(r, Failed("connect"))
       \/ /\ r.sock = "connected"
          /\ \/ /\ Handling(r, Done("connect", TRUE, Plain("none")))
                /\ r.peer = "open" /\ r.toDb = <<>> /\ r.toClient = <<>>
             \/ \E m \in Msg : Handling(r, Done("send", FALSE, m))
             \/ /\ Receiving(r)
                /\ r.peer = "auth" /\ r.toDb = <<>> /\ r.toClient = <<>>

Ended(r, s, d) ==
    r.pend = <<>> /\ r.ready = <<>> /\ \A t \in TableSet : Fresh(d, t, s)

Alone(r, s, d) ==
    \/ Connecting(r)
    \/ \E q \in Msg : Purpose(r, q, s) /\ Asking(r, q, s)
    \/ Ended(r, s, d)

(* The inductive invariant for FreshInstall, with CInv.                    *)
FInv == since <= version /\ (clean => Alone(c, since, tables))

(* A step that leaves the flags, the queries and the tables received alone.*)
SameProgress(r, u) ==
    /\ u.flagConnet = r.flagConnet /\ u.flagDisconnect = r.flagDisconnect
    /\ u.queue = r.queue /\ u.sent = r.sent /\ u.skewed = r.skewed
    /\ u.resp = r.resp

LEMMA PurposeKept ==
    ASSUME NEW r, NEW u, NEW q, NEW s, SameProgress(r, u), Purpose(r, q, s)
    PROVE  Purpose(u, q, s)
BY DEF Purpose, SameProgress, Unconnected, Authorised

LEMMA PurposeTypes ==
    ASSUME NEW r, NEW q, NEW s, Purpose(r, q, s)
    PROVE  q.t \in {"connect", "query", "disconnect"}
BY DEF Purpose, Plain, Queried

(* On a connection at rest a request is sent.                              *)
LEMMA SendAsks ==
    ASSUME NEW r \in ClientType, NEW q \in Msg, NEW s,
           r.sock = "connected", r.pend = <<>>, r.ready = <<>>, r.toDb = <<>>,
           r.toClient = <<>>, r.peer = PeerBefore(q), q.t # "connect" => r.parser = "clean"
    PROVE  Asking(AsyncSend(r, q), q, s) /\ SameProgress(r, AsyncSend(r, q))
<1> DEFINE w == [r EXCEPT !.buf = q]
           d == Append(w.toDb, q)
           x == [w EXCEPT !.toDb = d]
           e == Append(x.ready, Done("send", TRUE, q))
           u == [x EXCEPT !.ready = e]
<1>1. AsyncSend(r, q) = u
  BY DEF AsyncSend, Completed, Done
<1>2. w \in ClientType /\ w.toDb = r.toDb
  BY Zenon DEF ClientType
<1>3. x.ready = r.ready
  BY Zenon DEF ClientType
<1> HIDE DEF w, x
<1>4. d = <<q>> /\ d \in Seq(Msg)
  BY <1>2
<1> HIDE DEF d
<1>5. e = <<Done("send", TRUE, q)>>
  BY <1>3
<1> HIDE DEF e
<1>6. /\ u.sock = r.sock /\ u.pend = r.pend /\ u.ready = e /\ u.toDb = d
      /\ u.toClient = r.toClient /\ u.peer = r.peer /\ u.buf = q /\ u.parser = r.parser
  BY Zenon DEF ClientType, w, x
<1>7. SameProgress(r, u)
  BY Zenon DEF ClientType, SameProgress, w, x
<1> HIDE DEF u
<1>8. Asking(u, q, s)
  BY <1>4, <1>5, <1>6 DEF Asking, Sending, Handling, OnTheLine
<1> QED BY <1>1, <1>7, <1>8

(* A client with nothing under way starts to connect.                      *)
LEMMA StartConnects ==
    ASSUME NEW r \in ClientType, r.sock = "closed", r.pend = <<>>, r.ready = <<>>,
           r.queue = Tables
    PROVE  Connecting(Start(r))
<1> DEFINE w == [r EXCEPT !.flagConnet = FALSE, !.flagDisconnect = FALSE]
           p == Append(w.pend, "connect")
           u == [w EXCEPT !.sock = "connecting", !.pend = p]
<1>1. w.sock = r.sock /\ w.pend = r.pend
  BY Zenon DEF ClientType
<1>2. Start(r) = u
  BY <1>1 DEF Start
<1> HIDE DEF w
<1>3. p = <<"connect">>
  BY <1>1
<1> HIDE DEF p
<1>4. u.sock = "connecting" /\ u.pend = p /\ u.ready = r.ready /\ u.queue = r.queue
  BY Zenon DEF ClientType, w
<1>5. ~u.flagConnet /\ ~u.flagDisconnect
  BY Zenon DEF ClientType, w
<1> HIDE DEF u
<1> QED BY <1>2, <1>3, <1>4, <1>5 DEF Connecting, Unconnected

(* Once connected, __queryGenerator asks for the next table or, when all   *)
(* are fresh, takes its leave.                                             *)
LEMMA GeneratorAsks ==
    ASSUME NEW r \in ClientType, NEW s, Authorised(r), r.parser = "clean",
           r.sock = "connected", r.pend = <<>>, r.ready = <<>>, r.toDb = <<>>,
           r.toClient = <<>>, r.peer = "auth",
           \A t \in TableSet : Fresh(r.resp, t, s) \/ t \in ToSet(r.queue)
    PROVE  \E q \in Msg : /\ Purpose(QueryGenerator(r), q, s)
                          /\ Asking(QueryGenerator(r), q, s)
<1>1. CASE r.queue = <<>>
  <2> DEFINE q == Plain("disconnect")
  <2>1. q \in Msg /\ q.t = "disconnect"
    BY PlainType
  <2>2. QueryGenerator(r) = AsyncSend(r, q)
    BY <1>1 DEF QueryGenerator, Authorised
  <2>3. PeerBefore(q) = "auth"
    BY <2>1 DEF PeerBefore
  <2>4. \A t \in TableSet : Fresh(r.resp, t, s)
    BY <1>1 DEF ToSet
  <2>5. Purpose(r, q, s)
    BY <2>4 DEF Purpose
  <2> HIDE DEF q
  <2>6. Asking(AsyncSend(r, q), q, s) /\ SameProgress(r, AsyncSend(r, q))
    BY <2>1, <2>3, SendAsks
  <2>7. Purpose(AsyncSend(r, q), q, s)
    BY <2>5, <2>6, PurposeKept
  <2> QED BY <2>1, <2>2, <2>6, <2>7
<1>2. CASE r.queue # <<>>
  <2> DEFINE h == Head(r.queue)
             k == Tail(r.queue)
             u == [r EXCEPT !.sent = h, !.queue = k]
             q == Queried(h)
  <2>1. r.queue \in Seq(TableSet)
    BY ClientFields
  <2>2. /\ h \in TableSet /\ k \in Seq(TableSet)
        /\ \A t \in ToSet(r.queue) : t = h \/ t \in ToSet(k)
    <3>1. /\ h = r.queue[1] /\ h \in TableSet /\ k \in Seq(TableSet) /\ Len(k) = Len(r.queue) - 1
          /\ \A i \in 1..Len(k) : k[i] = r.queue[i + 1]
      BY <1>2, <2>1
    <3>2. ASSUME NEW i \in DOMAIN r.queue PROVE r.queue[i] = h \/ r.queue[i] \in ToSet(k)
      <4>1. CASE i = 1
        BY <3>1, <4>1
      <4>2. CASE i # 1
        <5>1. i - 1 \in 1..Len(k) /\ (i - 1) + 1 = i /\ i - 1 \in DOMAIN k
          BY <2>1, <3>1, <4>2
        <5> QED BY <3>1, <5>1 DEF ToSet
      <4> QED BY <4>1, <4>2
    <3> QED BY <3>1, <3>2 DEF ToSet
  <2>3. QueryGenerator(r) = AsyncSend(u, q)
    BY <1>2 DEF QueryGenerator, Authorised, Queried
  <2>4. q \in Msg /\ q.t = "query"
    BY <2>2, ConstantsAssumption DEF Queried, Msg
  <2> HIDE DEF h, k
  <2>5. u \in ClientType
    BY <2>2, Zenon DEF ClientType
  <2>6. /\ u.sock = r.sock /\ u.pend = r.pend /\ u.ready = r.ready /\ u.toDb = r.toDb
        /\ u.toClient = r.toClient /\ u.peer = r.peer /\ u.parser = r.parser
        /\ u.flagConnet = r.flagConnet /\ u.flagDisconnect = r.flagDisconnect
        /\ u.skewed = r.skewed /\ u.resp = r.resp /\ u.sent = h /\ u.queue = k
    BY Zenon DEF ClientType
  <2> HIDE DEF u
  <2>7. Purpose(u, q, s)
    BY <2>2, <2>6 DEF Purpose, Authorised
  <2>8. PeerBefore(q) = "auth"
    BY <2>4 DEF PeerBefore
  <2> HIDE DEF q
  <2>9. Asking(AsyncSend(u, q), q, s) /\ SameProgress(u, AsyncSend(u, q))
    BY <2>4, <2>5, <2>6, <2>8, SendAsks
  <2>10. Purpose(AsyncSend(u, q), q, s)
    BY <2>7, <2>9, PurposeKept
  <2> QED BY <2>3, <2>4, <2>9, <2>10
<1> QED BY <1>1, <1>2

LEMMA AskingShape ==
    ASSUME NEW r, NEW q \in Msg, NEW s, Asking(r, q, s)
    PROVE  \/ r.pend = <<"receive">> /\ r.ready = <<>>
           \/ /\ r.pend = <<>>
              /\ \E m \in Msg : \/ r.ready = <<Done("send", TRUE, m)>>
                                \/ r.ready = <<Done("receive", TRUE, m)>>
<1>1. Plain("part") \in Msg
  BY PlainType
<1> QED BY <1>1 DEF Asking, Sending, Receiving, Received, InParts, Handling

LEMMA PoppedFields ==
    ASSUME c \in ClientType, NEW e, c.ready = <<e>>
    PROVE  /\ Head(c.ready) = e
           /\ Popped \in ClientType /\ Popped.ready = <<>>
           /\ Popped.sock = c.sock /\ Popped.pend = c.pend /\ Popped.peer = c.peer
           /\ Popped.toDb = c.toDb /\ Popped.toClient = c.toClient
           /\ Popped.buf = c.buf /\ Popped.parser = c.parser
           /\ SameProgress(c, Popped)
<1> DEFINE k == Tail(c.ready)
           u == [c EXCEPT !.ready = k]
<1>1. k = <<>> /\ k \in Seq(Event) /\ Head(c.ready) = e
  OBVIOUS
<1>2. Popped = u
  BY DEF Popped
<1> HIDE DEF k
<1>3. u \in ClientType
  BY <1>1, Zenon DEF ClientType, Event
<1>4. /\ u.ready = k /\ u.sock = c.sock /\ u.pend = c.pend /\ u.peer = c.peer
      /\ u.toDb = c.toDb /\ u.toClient = c.toClient /\ u.buf = c.buf
      /\ u.parser = c.parser /\ SameProgress(c, u)
  BY Zenon DEF ClientType, SameProgress
<1> HIDE DEF u
<1> QED BY <1>1, <1>2, <1>3, <1>4

(* close() on a connection at rest.                                        *)
LEMMA StopAtRest ==
    ASSUME NEW r \in ClientType, r.pend = <<>>, r.ready = <<>>
    PROVE  /\ Stop(r) \in ClientType /\ Stop(r).sock = "closed"
           /\ Stop(r).pend = <<>> /\ Stop(r).ready = <<>> /\ Stop(r).queue = r.queue
<1>1. CASE r.sock = "closed"
  BY <1>1 DEF Stop
<1>2. CASE r.sock # "closed"
  <2> DEFINE f == [i \in DOMAIN r.pend |-> Failed(r.pend[i])]
             k == r.ready \o f
             u == [r EXCEPT !.sock = "closed", !.pend = <<>>, !.ready = k,
                            !.peer = "none", !.toDb = <<>>, !.toClient = <<>>]
  <2>1. f \in Seq(Event) /\ Len(f) = 0
    OBVIOUS
  <2>2. Stop(r) = u
    BY <1>2 DEF Stop
  <2> HIDE DEF f
  <2>3. k = <<>>
    BY <2>1
  <2>4. <<>> \in Seq(Ops) /\ <<>> \in Seq(Msg) /\ <<>> \in Seq(Event)
    OBVIOUS
  <2> HIDE DEF k
  <2>5. u \in ClientType
    BY <2>3, <2>4, Zenon DEF ClientType, Event
  <2>6. u.sock = "closed" /\ u.pend = <<>> /\ u.ready = k /\ u.queue = r.queue
    BY Zenon DEF ClientType
  <2> QED BY <2>2, <2>3, <2>5, <2>6
<1> QED BY <1>1, <1>2

-----------------------------------------------------------------------------
(* The steps of an exchange that runs alone.                               *)
LEMMA UpdateTimerAlone ==
    ASSUME CInv, UpdateTimer, clean'
    PROVE  Alone(c', since', tables')
<1> DEFINE u == [c EXCEPT !.queue = Tables]
<1>1. c \in ClientType /\ c.pend = <<>> /\ c.ready = <<>> /\ c.sock = "closed"
  BY CInvParts DEF UpdateTimer, Idle, Kept, Busy, Wired
<1>2. Tables \in Seq(TableSet)
  BY ConstantsAssumption
<1>3. u \in ClientType
  BY <1>1, <1>2, Zenon DEF ClientType
<1>4. u.sock = c.sock /\ u.pend = c.pend /\ u.ready = c.ready /\ u.queue = Tables
  BY <1>1, Zenon DEF ClientType
<1>5. c' = Start(u)
  BY DEF UpdateTimer
<1> HIDE DEF u
<1>6. Connecting(Start(u))
  BY <1>1, <1>3, <1>4, StartConnects
<1> QED BY <1>5, <1>6 DEF Alone

LEMMA HandlerErrorAlone ==
    ASSUME CInv, Alone(c, since, tables), HandlerError
    PROVE  Alone(c', since', tables')
<1>1. c \in ClientType /\ c.ready # <<>> /\ ~Head(c.ready).ok
  BY CInvParts DEF Kept, Wired, HandlerError, Runs
<1>2. Connecting(c)
  <2>1. ~Ended(c, since, tables)
    BY <1>1 DEF Ended
  <2>2. ASSUME NEW q \in Msg, Asking(c, q, since) PROVE FALSE
    <3>1. PICK m \in Msg : c.ready = <<Done("send", TRUE, m)>> \/ c.ready = <<Done("receive", TRUE, m)>>
      BY <1>1, <2>2, AskingShape
    <3>2. Head(c.ready).ok = TRUE
      BY <3>1 DEF Done
    <3> QED BY <1>1, <3>2
  <2> QED BY <2>1, <2>2 DEF Alone
<1>3. c.pend = <<>> /\ c.queue = Tables /\ \E e : c.ready = <<e>>
  BY <1>1, <1>2 DEF Connecting, Unconnected, Handling, Receiving
<1>4. /\ Popped \in ClientType /\ Popped.ready = <<>> /\ Popped.pend = <<>>
      /\ Popped.queue = Tables
  BY <1>1, <1>3, PoppedFields DEF SameProgress
<1>5. Connecting(Start(Stop(Popped)))
  BY <1>4, StopAtRest, StartConnects
<1> QED BY <1>5 DEF HandlerError, Becomes, Alone

LEMMA HandlerConnectAlone ==
    ASSUME CInv, Alone(c, since, tables), HandlerConnect
    PROVE  Alone(c', since', tables')
<1> DEFINE q == Plain("connect")
           e == Done("connect", TRUE, Plain("none"))
<1>1. c \in ClientType /\ c.ready # <<>> /\ Head(c.ready).op = "connect" /\ Head(c.ready).ok
  BY CInvParts DEF Kept, Wired, HandlerConnect, Runs
<1>2. Connecting(c)
  <2>1. ~Ended(c, since, tables)
    BY <1>1 DEF Ended
  <2>2. ASSUME NEW p \in Msg, Asking(c, p, since) PROVE FALSE
    <3>1. PICK m \in Msg : c.ready = <<Done("send", TRUE, m)>> \/ c.ready = <<Done("receive", TRUE, m)>>
      BY <1>1, <2>2, AskingShape
    <3>2. Head(c.ready).op \in {"send", "receive"}
      BY <3>1 DEF Done
    <3> QED BY <1>1, <3>2
  <2> QED BY <2>1, <2>2 DEF Alone
<1>3. /\ Unconnected(c) /\ c.ready = <<e>> /\ c.pend = <<>> /\ c.sock = "connected"
      /\ c.peer = "open" /\ c.toDb = <<>> /\ c.toClient = <<>>
  <2>1. ASSUME c.ready = <<Failed("connect")>> PROVE FALSE
    <3>1. Head(c.ready).ok = FALSE
      BY <2>1 DEF Failed
    <3> QED BY <1>1, <3>1
  <2>2. ASSUME NEW m \in Msg, c.ready = <<Done("send", FALSE, m)>> PROVE FALSE
    <3>1. Head(c.ready).ok = FALSE
      BY <2>2 DEF Done
    <3> QED BY <1>1, <3>1
  <2> QED BY <1>1, <1>2, <2>1, <2>2 DEF Connecting, Handling, Receiving
<1>4. q \in Msg /\ q.t = "connect" /\ PeerBefore(q) = "open"
  BY PlainType DEF PeerBefore
<1>5. Purpose(c, q, since)
  BY <1>3 DEF Purpose
<1>6. CheckConnect(Popped) = AsyncSend(Popped, q)
  <2>1. ~Popped.flagConnet /\ ~Popped.flagDisconnect
    BY <1>1, <1>3, PoppedFields DEF Unconnected, SameProgress
  <2> QED BY <2>1 DEF CheckConnect
<1> HIDE DEF q
<1>7. Asking(AsyncSend(Popped, q), q, since) /\ SameProgress(Popped, AsyncSend(Popped, q))
  BY <1>1, <1>3, <1>4, PoppedFields, SendAsks
<1>8. Purpose(AsyncSend(Popped, q), q, since)
  BY <1>1, <1>3, <1>5, <1>7, PoppedFields, PurposeKept
<1> QED BY <1>4, <1>6, <1>7, <1>8 DEF HandlerConnect, Becomes, Alone

(* A send is handled for one request, the one in the buffer.               *)
LEMMA SendHandled ==
    ASSUME CInv, Alone(c, since, tables), Runs("send", TRUE)
    PROVE  \E q \in Msg : /\ Purpose(c, q, since) /\ Asking(c, q, since)
                          /\ Sending(c, q, since) /\ Head(c.ready).msg = q
<1>1. c.ready # <<>> /\ Head(c.ready).op = "send" /\ Head(c.ready).ok = TRUE
  BY DEF Runs
<1>2. ~Ended(c, since, tables)
  BY <1>1 DEF Ended
<1>3. ~Connecting(c)
  <2>1. ASSUME NEW m \in Msg, c.ready = <<Done("send", FALSE, m)>> PROVE FALSE
    BY <1>1, <2>1 DEF Done
  <2>2. c.ready # <<Failed("connect")>>
    BY <1>1 DEF Failed
  <2>3. c.ready # <<Done("connect", TRUE, Plain("none"))>>
    BY <1>1 DEF Done
  <2> QED BY <1>1, <2>1, <2>2, <2>3 DEF Connecting, Handling, Receiving
<1>4. PICK q \in Msg : Purpose(c, q, since) /\ Asking(c, q, since)
  BY <1>2, <1>3 DEF Alone
<1>5. ASSUME NEW m, c.ready = <<Done("receive", TRUE, m)>> PROVE FALSE
  BY <1>1, <1>5 DEF Done
<1>6. Sending(c, q, since)
  BY <1>1, <1>4, <1>5 DEF Asking, Received, InParts, Receiving, Handling
<1>7. Head(c.ready).msg = q
  <2>1. c.ready = <<Done("send", TRUE, q)>>
    BY <1>6 DEF Sending, Handling
  <2> QED BY <2>1 DEF Done
<1> QED BY <1>4, <1>6, <1>7

LEMMA SendCommandAlone ==
    ASSUME CInv, Alone(c, since, tables), SendCommand
    PROVE  Alone(c', since', tables')
<1> DEFINE b == Plain("none")
           w == [Popped EXCEPT !.buf = b]
           p == Append(w.pend, "receive")
           u == [w EXCEPT !.pend = p]
<1>1. PICK q \in Msg : /\ Purpose(c, q, since) /\ Asking(c, q, since)
                       /\ Sending(c, q, since)
  BY SendHandled DEF SendCommand
<1>2. c \in ClientType /\ c.sock = "connected" /\ c.pend = <<>> /\ \E e : c.ready = <<e>>
  BY <1>1, CInvParts DEF Kept, Wired, Asking, Sending, Handling
<1>3. /\ Popped \in ClientType /\ Popped.ready = <<>> /\ Popped.pend = <<>>
      /\ Popped.sock = "connected" /\ Popped.peer = c.peer /\ Popped.toDb = c.toDb
      /\ Popped.toClient = c.toClient /\ Popped.parser = c.parser
      /\ SameProgress(c, Popped)
  BY <1>2, PoppedFields
<1>4. w.sock = Popped.sock /\ w.pend = Popped.pend
  BY <1>3, Zenon DEF ClientType
<1>5. c' = u
  BY <1>3, <1>4 DEF SendCommand, Becomes, AsyncReceive
<1> HIDE DEF w
<1>6. p = <<"receive">>
  BY <1>3, <1>4
<1> HIDE DEF p
<1>7. /\ u.sock = Popped.sock /\ u.pend = p /\ u.ready = Popped.ready
      /\ u.peer = Popped.peer /\ u.toDb = Popped.toDb /\ u.toClient = Popped.toClient
      /\ u.parser = Popped.parser
  BY <1>3, Zenon DEF ClientType, w
<1>8. SameProgress(Popped, u)
  BY <1>3, Zenon DEF ClientType, SameProgress, w
<1> HIDE DEF u
<1>9. SameProgress(c, u)
  BY <1>3, <1>8 DEF SameProgress
<1>10. ~u.skewed
  BY <1>9 DEF SendCommand, SameProgress
<1>11. q.t # "connect" => c.parser = "clean"
  <2>1. ~InParts(c, q, since)
    <3>1. c.ready = <<Done("send", TRUE, q)>>
      BY <1>1 DEF Sending, Handling
    <3>2. ASSUME NEW m, c.ready = <<Done("receive", TRUE, m)>> PROVE FALSE
      BY <3>1, <3>2 DEF Done
    <3>3. c.ready # <<>>
      BY <3>1
    <3> QED BY <3>2, <3>3 DEF InParts, Handling, Receiving
  <2> QED BY <1>1, <2>1 DEF Asking
<1>12. OnTheLine(u, q, since)
  BY <1>1, <1>3, <1>7 DEF Sending, OnTheLine
<1>13. Asking(u, q, since)
  BY <1>3, <1>6, <1>7, <1>10, <1>11, <1>12 DEF Asking, Receiving
<1>14. Purpose(u, q, since)
  BY <1>1, <1>9, PurposeKept
<1>15. since' = since
  BY DEF SendCommand, Becomes
<1> QED BY <1>5, <1>13, <1>14, <1>15 DEF Alone

(* Nobody else has touched the buffer.                                     *)
LEMMA SendRestAlone ==
    ASSUME CInv, Alone(c, since, tables), SendRest
    PROVE  FALSE
<1>1. PICK q \in Msg : Sending(c, q, since) /\ Head(c.ready).msg = q
  BY SendHandled DEF SendRest
<1> QED BY <1>1 DEF SendRest, Sending

LEMMA SendWrapsAlone ==
    ASSUME CInv, Alone(c, since, tables), SendWraps
    PROVE  Alone(c', since', tables')
<1> DEFINE w == [Popped EXCEPT !.skewed = TRUE]
           e == Append(w.ready, Done("send", FALSE, c.buf))
           u == [w EXCEPT !.ready = e]
<1>1. PICK q \in Msg : /\ Purpose(c, q, since) /\ Asking(c, q, since)
                       /\ Sending(c, q, since) /\ Head(c.ready).msg = q
  BY SendHandled DEF SendWraps
<1>2. c.skewed
  BY <1>1 DEF SendWraps, Sending
<1>3. Unconnected(c)
  BY <1>1, <1>2 DEF Purpose, Authorised
<1>4. /\ c \in ClientType /\ c.buf \in Msg /\ c.sock = "connected" /\ c.pend = <<>>
      /\ \E x : c.ready = <<x>>
  BY <1>1, CInvParts, ClientFields DEF Kept, Wired, Asking, Sending, Handling
<1>5. /\ Popped \in ClientType /\ Popped.ready = <<>> /\ Popped.pend = <<>>
      /\ Popped.sock = "connected" /\ SameProgress(c, Popped)
  BY <1>4, PoppedFields
<1>6. w.ready = Popped.ready
  BY <1>5, Zenon DEF ClientType
<1>7. c' = u
  BY DEF SendWraps, Becomes, Completed, Done
<1> HIDE DEF w
<1>8. e = <<Done("send", FALSE, c.buf)>>
  BY <1>5, <1>6
<1> HIDE DEF e
<1>9. /\ u.sock = Popped.sock /\ u.pend = Popped.pend /\ u.ready = e
      /\ u.flagConnet = Popped.flagConnet /\ u.flagDisconnect = Popped.flagDisconnect
      /\ u.queue = Popped.queue
  BY <1>5, Zenon DEF ClientType, w
<1> HIDE DEF u
<1>10. Unconnected(u)
  BY <1>3, <1>5, <1>9 DEF Unconnected, SameProgress
<1>11. Connecting(u)
  BY <1>4, <1>5, <1>8, <1>9, <1>10 DEF Connecting, Handling
<1> QED BY <1>7, <1>11 DEF Alone

(* The reactor.                                                            *)
LEMMA ConnectAlone ==
    ASSUME CInv, Alone(c, since, tables), Connected \/ Refused
    PROVE  Alone(c', since', tables')
<1> DEFINE p == Without("connect")
           v == [c EXCEPT !.sock = "connected", !.peer = "open", !.pend = p]
           e == Append(v.ready, Done("connect", TRUE, Plain("none")))
           x == [v EXCEPT !.ready = e]
           w == [c EXCEPT !.sock = "opened", !.pend = p]
           f == Append(w.ready, Failed("connect"))
           y == [w EXCEPT !.ready = f]
<1>1. Wired(c) /\ c \in ClientType /\ c.sock = "connecting"
  BY CInvParts DEF Kept, Wired, Connected, Refused
<1>2. ~Ended(c, since, tables)
  BY <1>1, CInvParts DEF Ended, Kept, Busy
<1>3. \A q : ~Asking(c, q, since)
  BY <1>1 DEF Asking
<1>4. Unconnected(c) /\ c.pend = <<"connect">> /\ c.ready = <<>>
  BY <1>1, <1>2, <1>3 DEF Alone, Connecting
<1>5. p = <<>>
  BY <1>1, <1>4, ClientFields, FirstRemoved DEF Without
<1>6. v.ready = c.ready /\ w.ready = c.ready
  BY <1>1, Zenon DEF ClientType
<1>7. Connected => c' = x
  BY DEF Connected, Becomes, Completed, Done
<1>8. Refused => c' = y
  BY DEF Refused, Completed, Failed
<1> HIDE DEF p, v, w
<1>9. e = <<Done("connect", TRUE, Plain("none"))>> /\ f = <<Failed("connect")>>
  BY <1>4, <1>6
<1> HIDE DEF e, f
<1>10. /\ x.sock = "connected" /\ x.peer = "open" /\ x.pend = p /\ x.ready = e
       /\ x.toDb = c.toDb /\ x.toClient = c.toClient
       /\ x.flagConnet = c.flagConnet /\ x.flagDisconnect = c.flagDisconnect
       /\ x.queue = c.queue
  BY <1>1, Zenon DEF ClientType, v
<1>11. /\ y.sock = "opened" /\ y.pend = p /\ y.ready = f
       /\ y.flagConnet = c.flagConnet /\ y.flagDisconnect = c.flagDisconnect
       /\ y.queue = c.queue
  BY <1>1, Zenon DEF ClientType, w
<1>12. c.toDb = <<>> /\ c.toClient = <<>>
  BY <1>1 DEF Wired
<1> HIDE DEF x, y
<1>13. Connecting(x)
  BY <1>4, <1>5, <1>9, <1>10, <1>12 DEF Connecting, Unconnected, Handling
<1>14. Connecting(y)
  BY <1>4, <1>5, <1>9, <1>11 DEF Connecting, Unconnected, Handling
<1> QED BY <1>7, <1>8, <1>13, <1>14 DEF Alone

(* The only operation that may wait for the data base is one receive.      *)
LEMMA PendingAlone ==
    ASSUME CInv, Alone(c, since, tables), NEW op \in {"send", "receive"}, Waiting(op)
    PROVE  /\ op = "receive" /\ Receiving(c) /\ c.sock = "connected" /\ c.peer # "none"
           /\ c.toClient = <<>> => c.peer # "ended"
           /\ c.toClient # <<>> => \E q \in Msg :
                 /\ Purpose(c, q, since) /\ ~c.skewed
                 /\ \/ OnTheLine(c, q, since) /\ (q.t # "connect" => c.parser = "clean")
                    \/ InParts(c, q, since)
<1>1. c.pend # <<>> /\ (c.pend = <<"connect">> => FALSE) /\ (c.pend = <<"receive">> => op = "receive")
  BY DEF Waiting, ToSet
<1>2. CASE Connecting(c)
  BY <1>1, <1>2 DEF Connecting, Handling, Receiving
<1>3. CASE Ended(c, since, tables)
  BY <1>1, <1>3 DEF Ended
<1>4. CASE \E q \in Msg : Purpose(c, q, since) /\ Asking(c, q, since)
  <2>1. PICK q \in Msg : Purpose(c, q, since) /\ Asking(c, q, since)
    BY <1>4
  <2>2. Receiving(c) /\ c.sock = "connected" /\ ~c.skewed
    BY <1>1, <2>1 DEF Asking, Sending, Received, InParts, Handling
  <2>3. \/ OnTheLine(c, q, since) /\ (q.t # "connect" => c.parser = "clean")
        \/ InParts(c, q, since)
    BY <1>1, <2>1 DEF Asking, Sending, Received, Handling
  <2>4. CASE OnTheLine(c, q, since)
    <3>1. c.peer # "none" /\ (c.toClient = <<>> => c.peer # "ended")
      BY <2>4 DEF OnTheLine, PeerBefore, PeerAfter
    <3> QED BY <1>1, <2>1, <2>2, <2>3, <3>1 DEF Receiving
  <2>5. CASE InParts(c, q, since)
    <3>1. c.peer = "auth"
      BY <2>5 DEF InParts
    <3> QED BY <1>1, <2>1, <2>2, <2>3, <3>1 DEF Receiving
  <2> QED BY <2>3, <2>4, <2>5
<1> QED BY <1>2, <1>3, <1>4 DEF Alone

LEMMA PendingSendAlone ==
    ASSUME CInv, Alone(c, since, tables), PendingSend
    PROVE  FALSE
BY PendingAlone DEF PendingSend

LEMMA PendingFailsAlone ==
    ASSUME CInv, Alone(c, since, tables), NEW op \in Ops, PendingFails(op)
    PROVE  FALSE
<1>1. op \in {"send", "receive"} /\ Waiting(op)
  BY DEF PendingFails
<1>2. c.sock = "connected" /\ c.peer # "none" /\ (c.toClient = <<>> => c.peer # "ended")
  BY <1>1, PendingAlone
<1> QED BY <1>2 DEF PendingFails

(* The receive completes with m; k is left on the line.                    *)
Returned(k, m) ==
    Completed([c EXCEPT !.pend = Without("receive"), !.toClient = k], "receive", TRUE, m)

Got(m) == Done("receive", TRUE, m)

LEMMA ReceiveFields ==
    ASSUME c \in ClientType, Receiving(c), NEW k \in Seq(Msg), NEW m, NEW u,
           u = Returned(k, m)
    PROVE  /\ Handling(u, Got(m)) /\ u.toClient = k
           /\ u.sock = c.sock /\ u.peer = c.peer /\ u.toDb = c.toDb
           /\ u.parser = c.parser /\ SameProgress(c, u)
<1> DEFINE p == Without("receive")
           w == [c EXCEPT !.pend = p, !.toClient = k]
           e == Append(w.ready, Done("receive", TRUE, m))
           x == [w EXCEPT !.ready = e]
<1>1. p = <<>>
  BY ClientFields, FirstRemoved DEF Without, Receiving
<1>2. w.ready = c.ready
  BY Zenon DEF ClientType
<1>3. u = x
  BY DEF Returned, Completed, Done
<1> HIDE DEF p, w
<1>4. e = <<Done("receive", TRUE, m)>>
  BY <1>2 DEF Receiving
<1> HIDE DEF e
<1>5. /\ x.pend = p /\ x.ready = e /\ x.toClient = k /\ x.sock = c.sock
      /\ x.peer = c.peer /\ x.toDb = c.toDb /\ x.parser = c.parser
  BY Zenon DEF ClientType, w
<1>6. SameProgress(c, x)
  BY Zenon DEF ClientType, w, SameProgress
<1> HIDE DEF x
<1> QED BY <1>1, <1>3, <1>4, <1>5, <1>6 DEF Handling, Got

LEMMA ReceiveAlone ==
    ASSUME CInv, Alone(c, since, tables), Receive
    PROVE  Alone(c', since', tables')
<1> DEFINE r == [c EXCEPT !.pend = Without("receive")]
<1>1. /\ c \in ClientType /\ c.toClient \in Seq(Msg) /\ c.toClient # <<>>
      /\ Waiting("receive") /\ since' = since
  BY CInvParts, ClientFields DEF Kept, Wired, Receive, Becomes
<1>2. Receiving(c) /\ c.sock = "connected"
  BY <1>1, PendingAlone
<1>3. PICK q \in Msg : /\ Purpose(c, q, since) /\ ~c.skewed
                       /\ \/ OnTheLine(c, q, since) /\ (q.t # "connect" => c.parser = "clean")
                          \/ InParts(c, q, since)
  BY <1>1, PendingAlone
<1>4. PICK a \in Msg : /\ c.toClient = <<a>> /\ c.toDb = <<>>
                       /\ \/ /\ Answer(a, q, since) /\ c.peer = PeerAfter(q)
                             /\ q.t # "connect" => c.parser = "clean"
                          \/ Remainder(a, q, since) /\ c.peer = "auth" /\ c.parser = "partial"
  <2>1. CASE OnTheLine(c, q, since) /\ (q.t # "connect" => c.parser = "clean")
    BY <1>1, <2>1 DEF OnTheLine
  <2>2. CASE InParts(c, q, since)
    BY <1>2, <2>2 DEF InParts, Receiving, Handling
  <2> QED BY <1>3, <2>1, <2>2
<1>5. Head(c.toClient) = a /\ Tail(c.toClient) = <<>> /\ Len(c.toClient) = 1 /\ c.toClient[1] = a
  BY <1>4
<1>6. CASE Becomes(Completed([r EXCEPT !.toClient = Tail(@)], "receive", TRUE, Head(c.toClient)))
  <2> DEFINE k == Tail(c.toClient)
  <2>1. [r EXCEPT !.toClient = Tail(@)] = [c EXCEPT !.pend = Without("receive"), !.toClient = k]
    BY <1>1, Zenon DEF ClientType
  <2>2. k \in Seq(Msg)
    BY <1>1
  <2>3. k = <<>> /\ Head(c.toClient) = a
    BY <1>5
  <2> HIDE DEF k
  <2>4. c' = Returned(k, a)
    <3>1. c' = Returned(k, Head(c.toClient))
      BY <1>6, <2>1 DEF Becomes, Returned
    <3>2. Head(c.toClient) = a
      BY <2>3
    <3> QED BY <3>1, <3>2
  <2>5. /\ Handling(c', Got(a)) /\ c'.toClient = k
        /\ c'.sock = c.sock /\ c'.peer = c.peer /\ c'.toDb = c.toDb
        /\ c'.parser = c.parser /\ SameProgress(c, c')
    BY <1>1, <1>2, <2>2, <2>4, ReceiveFields
  <2>6. ~c'.skewed
    BY <1>3, <2>5 DEF SameProgress
  <2>7. ASSUME Remainder(a, q, since), c.peer = "auth", c.parser = "partial"
        PROVE  Asking(c', q, since)
    <3>1. InParts(c', q, since)
      BY <1>4, <2>3, <2>5, <2>7 DEF InParts, Got
    <3> QED BY <1>2, <2>5, <2>6, <3>1 DEF Asking
  <2>8. ASSUME Answer(a, q, since), c.peer = PeerAfter(q), q.t # "connect" => c.parser = "clean"
        PROVE  Asking(c', q, since)
    <3>1. Received(c', q, since)
      BY <1>4, <2>3, <2>5, <2>8 DEF Received, Got
    <3> QED BY <1>2, <2>5, <2>6, <2>8, <3>1 DEF Asking
  <2>9. Asking(c', q, since)
    BY <1>4, <2>7, <2>8
  <2>10. Purpose(c', q, since)
    BY <1>3, <2>5, PurposeKept
  <2> QED BY <1>1, <2>9, <2>10 DEF Alone
<1>7. CASE /\ Head(c.toClient).t = "table"
           /\ Becomes(Completed([r EXCEPT !.toClient[1].t = "rest"], "receive", TRUE, Plain("part")))
  <2> DEFINE b == [a EXCEPT !.t = "rest"]
             k == [c.toClient EXCEPT ![1] = [c.toClient[1] EXCEPT !.t = "rest"]]
  <2>1. [r EXCEPT !.toClient[1].t = "rest"] = [c EXCEPT !.pend = Without("receive"), !.toClient = k]
    BY <1>1, Zenon DEF ClientType
  <2>2. a.t = "table"
    BY <1>5, <1>7
  <2>3. /\ q.t = "query" /\ a.tab = q.tab /\ a.ver >= since
        /\ c.peer = PeerAfter(q) /\ c.parser = "clean"
    BY <1>4, <2>2 DEF Answer, Remainder, Plain
  <2>4. b \in Msg /\ b.t = "rest" /\ b.tab = a.tab /\ b.ver = a.ver
    BY DEF Msg
  <2>5. k = <<b>>
    BY <1>4, <1>5
  <2> HIDE DEF b, k
  <2>6. k \in Seq(Msg)
    BY <2>4, <2>5
  <2>7. c' = Returned(k, Plain("part"))
    BY <1>7, <2>1 DEF Becomes, Returned
  <2>8. /\ Handling(c', Got(Plain("part"))) /\ c'.toClient = k
        /\ c'.sock = c.sock /\ c'.peer = c.peer /\ c'.toDb = c.toDb
        /\ c'.parser = c.parser /\ SameProgress(c, c')
    BY <1>1, <1>2, <2>6, <2>7, ReceiveFields
  <2>9. Remainder(b, q, since)
    BY <2>3, <2>4 DEF Remainder
  <2>10. c.peer = "auth"
    BY <2>3 DEF PeerAfter
  <2>11. InParts(c', q, since)
    BY <1>4, <2>3, <2>4, <2>5, <2>8, <2>9, <2>10 DEF InParts, Got
  <2>12. Asking(c', q, since)
    BY <1>2, <1>3, <2>8, <2>11 DEF Asking, SameProgress
  <2>13. Purpose(c', q, since)
    BY <1>3, <2>8, PurposeKept
  <2> QED BY <1>1, <2>12, <2>13 DEF Alone
<1>8. ~(Len(c.toClient) > 1)
  BY <1>5
<1> QED BY <1>6, <1>7, <1>8, Zenon DEF Receive

(* The data base server answers the one request it has received.           *)
LEMMA ServedAlone ==
    ASSUME CInv, Alone(c, since, tables), NEW t, DbRequest(t)
    PROVE  \/ Connecting(c) /\ c.sock = "connected" /\ \E m \in Msg : Handling(c, Done("send", FALSE, m))
           \/ \E q \in Msg :
                 /\ Purpose(c, q, since) /\ c.sock = "connected" /\ q.t = t
                 /\ q.t # "connect" => c.parser = "clean"
                 /\ Sending(c, q, since) \/ (~c.skewed /\ Receiving(c))
                 /\ c.toDb = <<q>> /\ c.toClient = <<>> /\ c.peer = PeerBefore(q)
<1>1. c.toDb # <<>> /\ Head(c.toDb).t = t /\ Wired(c) /\ c.sock = "connected"
  BY CInvParts DEF DbRequest, Kept, Wired
<1>2. ~Ended(c, since, tables)
  BY <1>1, CInvParts DEF Ended, Kept, Busy
<1>3. CASE Connecting(c)
  BY <1>1, <1>3 DEF Connecting
<1>4. CASE \E q \in Msg : Purpose(c, q, since) /\ Asking(c, q, since)
  <2>1. PICK q \in Msg : Purpose(c, q, since) /\ Asking(c, q, since)
    BY <1>4
  <2>2. /\ q.t # "connect" => c.parser = "clean"
        /\ Sending(c, q, since) \/ (~c.skewed /\ Receiving(c) /\ OnTheLine(c, q, since))
    BY <1>1, <2>1 DEF Asking, Received, InParts, Sending
  <2>3. OnTheLine(c, q, since)
    BY <2>2 DEF Sending
  <2>4. c.toDb = <<q>> /\ c.toClient = <<>> /\ c.peer = PeerBefore(q)
    BY <1>1, <2>3 DEF OnTheLine
  <2>5. q.t = t
    BY <1>1, <2>4
  <2> QED BY <1>1, <2>1, <2>2, <2>4, <2>5
<1> QED BY <1>2, <1>3, <1>4 DEF Alone

(* What the session does to the client's connection u.                     *)
LEMMA AnsweredAlone ==
    ASSUME CInv, Alone(c, since, tables), NEW t, DbRequest(t), NEW u, NEW a, NEW p,
           u = Answered(a, p),
           \A q \in Msg : Purpose(c, q, since) /\ q.t = t /\ c.toDb = <<q>> =>
               Answer(a, q, since) /\ p = PeerAfter(q)
    PROVE  Alone(u, since, tables)
<1> DEFINE d == Tail(c.toDb)
           k == Append(c.toClient, a)
           x == [c EXCEPT !.toDb = d, !.peer = p, !.toClient = k]
<1>1. c \in ClientType
  BY CInvParts DEF Kept, Wired
<1>2. u = x
  BY DEF Answered
<1> HIDE DEF d, k
<1>3. /\ u.toDb = d /\ u.peer = p /\ u.toClient = k
      /\ u.sock = c.sock /\ u.pend = c.pend /\ u.ready = c.ready
      /\ u.buf = c.buf /\ u.parser = c.parser
  BY <1>1, <1>2, Zenon DEF ClientType
<1>4. SameProgress(c, u)
  BY <1>1, <1>2, Zenon DEF ClientType, SameProgress
<1> HIDE DEF x
<1>5. ASSUME NEW m \in Msg, Connecting(c), c.sock = "connected", Handling(c, Done("send", FALSE, m))
      PROVE  Connecting(u)
  BY <1>3, <1>4, <1>5 DEF Connecting, Unconnected, Handling, SameProgress
<1>6. ASSUME NEW q \in Msg, Purpose(c, q, since), c.sock = "connected", q.t = t,
             q.t # "connect" => c.parser = "clean",
             Sending(c, q, since) \/ (~c.skewed /\ Receiving(c)),
             c.toDb = <<q>>, c.toClient = <<>>
      PROVE  Purpose(u, q, since) /\ Asking(u, q, since)
  <2>1. Purpose(u, q, since)
    BY <1>4, <1>6, PurposeKept
  <2>2. d = <<>> /\ k = <<a>>
    BY <1>6 DEF d, k
  <2>3. a \in Msg /\ Answer(a, q, since) /\ p = PeerAfter(q)
    BY <1>6 DEF Answer
  <2>4. OnTheLine(u, q, since)
    BY <1>3, <2>2, <2>3 DEF OnTheLine
  <2>5. Sending(u, q, since) \/ (~u.skewed /\ Receiving(u))
    BY <1>3, <1>4, <1>6, <2>4 DEF Sending, Receiving, Handling, SameProgress
  <2>6. Asking(u, q, since)
    BY <1>3, <1>6, <2>4, <2>5 DEF Asking
  <2> QED BY <2>1, <2>6
<1> QED BY <1>5, <1>6, ServedAlone DEF Alone

(* The session is never silent towards a client that is alone, unless the  *)
(* client's send has failed and it is about to connect anew.               *)
LEMMA SilentAlone ==
    ASSUME CInv, Alone(c, since, tables), NEW t, DbRequest(t), NEW u, NEW p,
           u = Silent(p),
           \A q \in Msg : q.t = t /\ c.peer = PeerBefore(q) => ~Purpose(c, q, since)
    PROVE  Alone(u, since, tables)
<1> DEFINE d == Tail(c.toDb)
           x == [c EXCEPT !.toDb = d, !.peer = p]
<1>1. c \in ClientType
  BY CInvParts DEF Kept, Wired
<1>2. u = x
  BY DEF Silent
<1> HIDE DEF d
<1>3. u.sock = c.sock /\ u.pend = c.pend /\ u.ready = c.ready
  BY <1>1, <1>2, Zenon DEF ClientType
<1>4. SameProgress(c, u)
  BY <1>1, <1>2, Zenon DEF ClientType, SameProgress
<1> HIDE DEF x
<1>5. PICK m \in Msg : Connecting(c) /\ c.sock = "connected" /\ Handling(c, Done("send", FALSE, m))
  BY ServedAlone
<1>6. Connecting(u)
  BY <1>3, <1>4, <1>5 DEF Connecting, Unconnected, Handling, SameProgress
<1> QED BY <1>6 DEF Alone

LEMMA SessionAlone ==
    ASSUME CInv, FInv, clean, Session, clean'
    PROVE  Alone(c', since, tables)
<1>1. Alone(c, since, tables) /\ since <= version /\ since \in Versions /\ version \in Versions
  BY CInvParts DEF FInv, CountersTyped
<1>2. ~Fault
  BY DEF Fault
<1>3. /\ Plain("connect").t = "connect" /\ Plain("disconnect").t = "disconnect"
      /\ \A t : Queried(t).t = "query" /\ Queried(t).tab = t
  BY DEF Plain, Queried
<1>4. CASE DbConnect
  <2>1. DbRequest("connect")
    BY <1>4 DEF DbConnect
  <2>2. ASSUME NEW q \in Msg, Purpose(c, q, since), q.t = "connect"
        PROVE  q = Plain("connect")
    BY <1>3, <2>2 DEF Purpose
  <2>3. CASE Becomes(Answered(Plain("connectOk"), "auth"))
    <3>1. Plain("connectOk") \in Msg
      BY PlainType
    <3>2. \A q \in Msg : Purpose(c, q, since) /\ q.t = "connect" =>
              Answer(Plain("connectOk"), q, since) /\ "auth" = PeerAfter(q)
      BY <2>2, <3>1 DEF Answer, PeerAfter
    <3> QED BY <1>1, <2>1, <2>3, <3>2, AnsweredAlone DEF Becomes
  <2>4. CASE c.peer = "auth" /\ Becomes(Silent("auth"))
    <3>1. \A q \in Msg : q.t = "connect" /\ c.peer = PeerBefore(q) => ~Purpose(c, q, since)
      BY <2>4 DEF PeerBefore
    <3> QED BY <1>1, <2>1, <2>4, <3>1, SilentAlone DEF Becomes
  <2> QED BY <1>2, <1>4, <2>3, <2>4 DEF DbConnect
<1>5. CASE DbQuery
  <2> DEFINE a == [t |-> "table", tab |-> Head(c.toDb).tab, ver |-> version]
  <2>1. DbRequest("query")
    BY <1>5 DEF DbQuery
  <2>2. CASE c.peer = "auth" /\ Becomes(Answered(a, "auth"))
    <3>1. ASSUME NEW q \in Msg, Purpose(c, q, since), q.t = "query", c.toDb = <<q>>
          PROVE  Answer(a, q, since) /\ "auth" = PeerAfter(q)
      <4>1. Head(c.toDb) = q
        BY <3>1
      <4>2. a.t = "table" /\ a.tab = q.tab /\ a.ver = version
        BY <4>1
      <4>3. a \in Msg
        <5>1. q.tab \in TableSet \cup {NoTable}
          BY DEF Msg
        <5>2. version \in 0..MaxVersion
          BY <1>1, ConstantsAssumption DEF Versions
        <5> QED BY <4>1, <5>1, <5>2, QueryType
      <4>4. version >= since
        BY <1>1, ConstantsAssumption DEF Versions
      <4> HIDE DEF a
      <4> QED BY <3>1, <4>2, <4>3, <4>4 DEF Answer, PeerAfter
    <3> HIDE DEF a
    <3> QED BY <1>1, <2>1, <2>2, <3>1, AnsweredAlone DEF Becomes
  <2>3. CASE c.peer = "open" /\ Becomes(Silent("open"))
    <3>1. \A q \in Msg : q.t = "query" /\ c.peer = PeerBefore(q) => ~Purpose(c, q, since)
      BY <2>3 DEF PeerBefore
    <3> QED BY <1>1, <2>1, <2>3, <3>1, SilentAlone DEF Becomes
  <2> QED BY <1>2, <1>5, <2>2, <2>3 DEF DbQuery
<1>6. CASE DbDisconnect
  <2>1. DbRequest("disconnect") /\ c.peer \in {"open", "auth"}
    BY <1>6 DEF DbDisconnect, DbRequest
  <2>2. CASE c.peer = "auth"
    <3>1. Plain("disconnect") \in Msg
      BY PlainType
    <3>2. \A q \in Msg : Purpose(c, q, since) /\ q.t = "disconnect" => q = Plain("disconnect")
      BY <1>3 DEF Purpose
    <3>3. \A q \in Msg : Purpose(c, q, since) /\ q.t = "disconnect" =>
              Answer(Plain("disconnect"), q, since) /\ "ended" = PeerAfter(q)
      BY <3>1, <3>2 DEF Answer, PeerAfter
    <3>4. c' = Answered(Plain("disconnect"), "ended")
      BY <1>6, <2>2 DEF DbDisconnect, Becomes
    <3> QED BY <1>1, <2>1, <3>3, <3>4, AnsweredAlone
  <2>3. CASE c.peer # "auth"
    <3>1. \A q \in Msg : q.t = "disconnect" /\ c.peer = PeerBefore(q) => ~Purpose(c, q, since)
      BY <2>3 DEF PeerBefore
    <3>2. c' = Silent("open")
      BY <1>6, <2>3 DEF DbDisconnect, Becomes
    <3> QED BY <1>1, <2>1, <3>1, <3>2, SilentAlone
  <2> QED BY <2>2, <2>3
<1>7. CASE DbJunk
  <2>1. DbRequest("junk") /\ c' = Silent("deaf")
    BY <1>7 DEF DbJunk, Becomes
  <2>2. \A q \in Msg : q.t = "junk" /\ c.peer = PeerBefore(q) => ~Purpose(c, q, since)
    BY PurposeTypes
  <2> QED BY <1>1, <2>1, <2>2, SilentAlone
<1> QED BY <1>4, <1>5, <1>6, <1>7 DEF Session

(* A message is handled as the answer to the one request, or a part of it. *)
LEMMA ReceiveHandled ==
    ASSUME CInv, Alone(c, since, tables), Runs("receive", TRUE)
    PROVE  \E q \in Msg, a \in Msg :
              /\ Purpose(c, q, since) /\ ~c.skewed /\ c.sock = "connected"
              /\ c.pend = <<>> /\ c.toDb = <<>> /\ Head(c.ready).msg = a
              /\ \E e : c.ready = <<e>>
              /\ \/ /\ Answer(a, q, since) /\ c.toClient = <<>> /\ c.peer = PeerAfter(q)
                    /\ q.t # "connect" => c.parser = "clean"
                 \/ /\ a = Plain("part") /\ c.peer = "auth" /\ c.parser = "clean"
                    /\ \E b \in Msg : Remainder(b, q, since) /\ c.toClient = <<b>>
                 \/ /\ Remainder(a, q, since) /\ c.toClient = <<>> /\ c.peer = "auth"
                    /\ c.parser = "partial"
<1>1. c.ready # <<>> /\ Head(c.ready).op = "receive" /\ Head(c.ready).ok = TRUE
  BY DEF Runs
<1>2. ~Ended(c, since, tables)
  BY <1>1 DEF Ended
<1>3. ~Connecting(c)
  <2>1. ASSUME NEW m \in Msg, c.ready = <<Done("send", FALSE, m)>> PROVE FALSE
    BY <1>1, <2>1 DEF Done
  <2>2. c.ready # <<Failed("connect")>>
    BY <1>1 DEF Failed
  <2>3. c.ready # <<Done("connect", TRUE, Plain("none"))>>
    BY <1>1 DEF Done
  <2> QED BY <1>1, <2>1, <2>2, <2>3 DEF Connecting, Handling, Receiving
<1>4. PICK q \in Msg : Purpose(c, q, since) /\ Asking(c, q, since)
  BY <1>2, <1>3 DEF Alone
<1>5. c.ready # <<Done("send", TRUE, q)>>
  BY <1>1 DEF Done
<1>6. ASSUME NEW a \in Msg, c.ready = <<Done("receive", TRUE, a)>> PROVE Head(c.ready).msg = a
  BY <1>6 DEF Done
<1>7. c.sock = "connected" /\ ~c.skewed
  BY <1>1, <1>4, <1>5 DEF Asking, Sending, Handling
<1>8. CASE Received(c, q, since) /\ (q.t # "connect" => c.parser = "clean")
  <2>1. PICK a \in Msg : Handling(c, Done("receive", TRUE, a)) /\ Answer(a, q, since)
    BY <1>8 DEF Received
  <2>2. c.pend = <<>> /\ Head(c.ready).msg = a /\ \E e : c.ready = <<e>>
    BY <1>6, <2>1 DEF Handling
  <2> QED BY <1>4, <1>7, <1>8, <2>1, <2>2 DEF Received
<1>9. CASE InParts(c, q, since)
  <2>1. PICK b \in Msg :
          /\ Remainder(b, q, since)
          /\ \/ /\ Handling(c, Done("receive", TRUE, Plain("part")))
                /\ c.toClient = <<b>> /\ c.parser = "clean"
             \/ /\ Handling(c, Done("receive", TRUE, b))
                /\ c.toClient = <<>> /\ c.parser = "partial"
    BY <1>1, <1>9 DEF InParts, Receiving
  <2>2. Plain("part") \in Msg
    BY PlainType
  <2>3. c.toDb = <<>> /\ c.peer = "auth"
    BY <1>9 DEF InParts
  <2>4. CASE Handling(c, Done("receive", TRUE, Plain("part"))) /\ c.toClient = <<b>> /\ c.parser = "clean"
    <3>1. c.pend = <<>> /\ Head(c.ready).msg = Plain("part") /\ \E e : c.ready = <<e>>
      BY <1>6, <2>2, <2>4 DEF Handling
    <3> QED BY <1>4, <1>7, <2>1, <2>2, <2>3, <2>4, <3>1
  <2>5. CASE Handling(c, Done("receive", TRUE, b)) /\ c.toClient = <<>> /\ c.parser = "partial"
    <3>1. c.pend = <<>> /\ Head(c.ready).msg = b /\ \E e : c.ready = <<e>>
      BY <1>6, <2>5 DEF Handling
    <3> QED BY <1>4, <1>7, <2>1, <2>3, <2>5, <3>1
  <2> QED BY <2>1, <2>4, <2>5
<1> QED BY <1>1, <1>4, <1>5, <1>8, <1>9 DEF Asking, Sending, Receiving, Handling

(* The rows asked for last are kept, and the next request goes out.        *)
LEMMA RowsKept ==
    ASSUME NEW r \in ClientType, NEW s, NEW m \in Msg, m.t \in {"table", "rest"},
           m.tab = r.sent, m.ver >= s, Authorised(r), r.sent \in TableSet,
           r.parser = "clean", r.sock = "connected", r.pend = <<>>, r.ready = <<>>,
           r.toDb = <<>>, r.toClient = <<>>, r.peer = "auth",
           \A t \in TableSet : Fresh(r.resp, t, s) \/ t \in ToSet(r.queue) \/ t = r.sent
    PROVE  \E q \in Msg : /\ Purpose(CheckConnect(CommandAnalize(r, m)), q, s)
                          /\ Asking(CheckConnect(CommandAnalize(r, m)), q, s)
<1> DEFINE d == [r.resp EXCEPT ![r.sent] = [from |-> m.tab, ver |-> m.ver]]
           u == [r EXCEPT !.resp = d]
<1>1. <<r.sent, m.tab>> \in Fits
  BY ConstantsAssumption
<1>2. CommandAnalize(r, m) = u
  BY <1>1 DEF CommandAnalize
<1>3. r.resp \in Data
  BY ClientFields
<1>4. d \in Data
  <2>1. [from |-> m.tab, ver |-> m.ver] \in [from : TableSet \cup {NoTable}, ver : 0..MaxVersion]
    BY DEF Msg
  <2> QED BY <1>3, <2>1, Zenon DEF Data
<1>5. \A t \in TableSet : Fresh(d, t, s) \/ t \in ToSet(r.queue)
  <2>1. ASSUME NEW t \in TableSet, t # r.sent PROVE d[t] = r.resp[t]
    BY <1>3, <2>1 DEF Data
  <2>2. d[r.sent].from = r.sent /\ d[r.sent].ver = m.ver
    BY <1>3 DEF Data
  <2> HIDE DEF d
  <2> QED BY <2>1, <2>2 DEF Fresh
<1> HIDE DEF d
<1>6. u \in ClientType
  BY <1>4, Zenon DEF ClientType
<1>7. /\ u.sock = r.sock /\ u.pend = r.pend /\ u.ready = r.ready /\ u.toDb = r.toDb
      /\ u.toClient = r.toClient /\ u.peer = r.peer /\ u.parser = r.parser
      /\ u.flagConnet = r.flagConnet /\ u.flagDisconnect = r.flagDisconnect
      /\ u.skewed = r.skewed /\ u.resp = d /\ u.queue = r.queue
  BY Zenon DEF ClientType
<1> HIDE DEF u
<1>8. Authorised(u)
  BY <1>7 DEF Authorised
<1>9. CheckConnect(u) = QueryGenerator(u)
  BY <1>8 DEF CheckConnect, Authorised
<1>10. \E q \in Msg : Purpose(QueryGenerator(u), q, s) /\ Asking(QueryGenerator(u), q, s)
  BY <1>5, <1>6, <1>7, <1>8, GeneratorAsks
<1> QED BY <1>2, <1>9, <1>10

(* The connect is granted: the first request goes out.                     *)
LEMMA ConnectGranted ==
    ASSUME NEW r \in ClientType, NEW s, NEW m \in Msg, m.t = "connectOk",
           Unconnected(r), ~r.skewed,
           r.parser = "clean", r.sock = "connected", r.pend = <<>>, r.ready = <<>>,
           r.toDb = <<>>, r.toClient = <<>>, r.peer = "auth"
    PROVE  \E q \in Msg : /\ Purpose(CheckConnect(CommandAnalize(r, m)), q, s)
                          /\ Asking(CheckConnect(CommandAnalize(r, m)), q, s)
<1> DEFINE u == [r EXCEPT !.flagConnet = TRUE, !.flagDisconnect = FALSE]
<1>1. CommandAnalize(r, m) = u
  BY DEF CommandAnalize
<1>2. u \in ClientType
  BY Zenon DEF ClientType
<1>3. /\ u.sock = r.sock /\ u.pend = r.pend /\ u.ready = r.ready /\ u.toDb = r.toDb
      /\ u.toClient = r.toClient /\ u.peer = r.peer /\ u.parser = r.parser
      /\ u.skewed = r.skewed /\ u.resp = r.resp /\ u.queue = r.queue
  BY Zenon DEF ClientType
<1>4. u.flagConnet /\ ~u.flagDisconnect
  BY Zenon DEF ClientType
<1> HIDE DEF u
<1>5. Authorised(u)
  BY <1>3, <1>4 DEF Authorised
<1>6. CheckConnect(u) = QueryGenerator(u)
  BY <1>5 DEF CheckConnect, Authorised
<1>7. \A t \in TableSet : t \in ToSet(u.queue)
  BY <1>3 DEF TableSet, Unconnected
<1>8. \E q \in Msg : Purpose(QueryGenerator(u), q, s) /\ Asking(QueryGenerator(u), q, s)
  BY <1>2, <1>3, <1>5, <1>7, GeneratorAsks
<1> QED BY <1>1, <1>6, <1>8

(* The disconnect is answered: the socket is closed and the callback gets  *)
(* all tables.                                                             *)
LEMMA DisconnectHeard ==
    ASSUME NEW r \in ClientType, NEW s, NEW m \in Msg, m.t = "disconnect",
           Authorised(r), r.pend = <<>>, r.ready = <<>>,
           \A t \in TableSet : Fresh(r.resp, t, s),
           CallsBack(CommandAnalize(r, m)) => Callback(CommandAnalize(r, m).resp)
    PROVE  Ended(CheckConnect(CommandAnalize(r, m)), s, tables')
<1> DEFINE u == [r EXCEPT !.flagDisconnect = TRUE]
<1>1. CommandAnalize(r, m) = u
  BY DEF CommandAnalize
<1>2. u \in ClientType
  BY Zenon DEF ClientType
<1>3. /\ u.pend = r.pend /\ u.ready = r.ready /\ u.resp = r.resp
      /\ u.flagConnet = r.flagConnet
  BY Zenon DEF ClientType
<1>4. u.flagDisconnect
  BY Zenon DEF ClientType
<1> HIDE DEF u
<1>5. CheckConnect(u) = Stop(u)
  BY <1>3, <1>4 DEF CheckConnect, QueryGenerator, Authorised
<1>6. Stop(u).pend = <<>> /\ Stop(u).ready = <<>>
  BY <1>2, <1>3, StopAtRest
<1>7. tables' = UpdateData(u.resp)
  <2>1. Callback(u.resp)
    BY <1>1, <1>3, <1>4 DEF CallsBack, Authorised
  <2> QED BY <2>1 DEF Callback, StartServers, UpdateDataCallback
<1>8. Complete(r.resp)
  BY ConstantsAssumption DEF Complete, Fresh, Absent
<1>9. tables' = r.resp
  BY <1>3, <1>7, <1>8 DEF UpdateData
<1> QED BY <1>1, <1>5, <1>6, <1>9 DEF Ended

(* The client goes on waiting on its connection.                           *)
LEMMA AsyncReceiveFields ==
    ASSUME NEW r \in ClientType, r.sock = "connected", r.pend = <<>>, r.ready = <<>>,
           NEW u, u = AsyncReceive(r)
    PROVE  /\ Receiving(u) /\ u.sock = "connected" /\ u.peer = r.peer /\ u.toDb = r.toDb
           /\ u.toClient = r.toClient /\ u.parser = r.parser /\ SameProgress(r, u)
<1> DEFINE p == Append(r.pend, "receive")
           x == [r EXCEPT !.pend = p]
<1>1. p = <<"receive">>
  OBVIOUS
<1>2. u = x
  BY DEF AsyncReceive
<1> HIDE DEF p
<1>3. /\ x.sock = r.sock /\ x.pend = p /\ x.ready = r.ready /\ x.peer = r.peer
      /\ x.toDb = r.toDb /\ x.toClient = r.toClient /\ x.parser = r.parser
  BY Zenon DEF ClientType
<1>4. SameProgress(r, x)
  BY Zenon DEF ClientType, SameProgress
<1> HIDE DEF x
<1> QED BY <1>1, <1>2, <1>3, <1>4 DEF Receiving

LEMMA ReciveCommandAlone ==
    ASSUME CInv, Alone(c, since, tables), ReciveCommand
    PROVE  Alone(c', since, tables')
<1> DEFINE m == Head(c.ready).msg
           x == Parsed(m)
           r == [Popped EXCEPT !.parser = x]
           g == CommandAnalize(r, m)
<1>1. PICK q \in Msg, a \in Msg :
              /\ Purpose(c, q, since) /\ ~c.skewed /\ c.sock = "connected"
              /\ c.pend = <<>> /\ c.toDb = <<>> /\ Head(c.ready).msg = a
              /\ \E e : c.ready = <<e>>
              /\ \/ /\ Answer(a, q, since) /\ c.toClient = <<>> /\ c.peer = PeerAfter(q)
                    /\ q.t # "connect" => c.parser = "clean"
                 \/ /\ a = Plain("part") /\ c.peer = "auth" /\ c.parser = "clean"
                    /\ \E b \in Msg : Remainder(b, q, since) /\ c.toClient = <<b>>
                 \/ /\ Remainder(a, q, since) /\ c.toClient = <<>> /\ c.peer = "auth"
                    /\ c.parser = "partial"
  BY ReceiveHandled DEF ReciveCommand
<1>2. c \in ClientType /\ c.parser \in {"clean", "partial", "failed"}
  <2>1. c \in ClientType
    BY CInvParts DEF Kept, Wired
  <2> QED BY <2>1, Zenon DEF ClientType
<1>3. x \in {"clean", "partial", "failed"}
  BY <1>2, ParsedType
<1>4. /\ x # "clean" => c' = AsyncReceive(r)
      /\ x = "clean" => /\ c' = CheckConnect(g)
                        /\ CallsBack(g) => Callback(g.resp)
  BY DEF ReciveCommand, Becomes
<1>5. /\ Popped \in ClientType /\ Popped.ready = <<>> /\ Popped.pend = <<>>
      /\ Popped.sock = "connected" /\ Popped.toDb = <<>> /\ Popped.toClient = c.toClient
      /\ Popped.peer = c.peer /\ SameProgress(c, Popped)
  BY <1>1, <1>2, PoppedFields
<1>6. m = a
  BY <1>1
<1>7. /\ c.parser = "clean" /\ a.t \notin {"part", "junk"} => x = "clean"
      /\ c.parser # "clean" /\ a.t # "rest" => x # "clean"
      /\ c.parser = "clean" /\ a.t = "part" => x = "partial"
      /\ c.parser = "partial" /\ a.t = "rest" => x = "clean"
  BY <1>6 DEF Parsed
<1> HIDE DEF m, x
<1>8. r \in ClientType
  BY <1>3, <1>5, Zenon DEF ClientType
<1>9. /\ r.ready = Popped.ready /\ r.pend = Popped.pend /\ r.sock = Popped.sock
      /\ r.toDb = Popped.toDb /\ r.toClient = Popped.toClient /\ r.peer = Popped.peer
      /\ r.parser = x /\ SameProgress(Popped, r)
  BY <1>5, Zenon DEF ClientType, SameProgress
<1> HIDE DEF r
<1>10. /\ r.ready = <<>> /\ r.pend = <<>> /\ r.sock = "connected" /\ r.toDb = <<>>
       /\ r.toClient = c.toClient /\ r.peer = c.peer /\ r.parser = x
       /\ SameProgress(c, r) /\ ~r.skewed
  BY <1>1, <1>5, <1>9 DEF SameProgress
<1>11. Purpose(r, q, since)
  BY <1>1, <1>10, PurposeKept
<1>12. /\ Plain("connect").t = "connect" /\ Plain("disconnect").t = "disconnect"
       /\ Plain("connectOk").t = "connectOk" /\ Plain("part").t = "part"
       /\ \A t : Queried(t).t = "query" /\ Queried(t).tab = t
  BY DEF Plain, Queried
<1>13. q.t = "query" => /\ Authorised(r) /\ r.sent \in TableSet /\ q.tab = r.sent
                        /\ \A t \in TableSet : Fresh(r.resp, t, since) \/ t \in ToSet(r.queue) \/ t = r.sent
  BY <1>11, <1>12 DEF Purpose
<1>14. x # "clean" => /\ Receiving(c') /\ c'.sock = "connected" /\ c'.peer = c.peer
                      /\ c'.toDb = <<>> /\ c'.toClient = c.toClient /\ c'.parser = x
                      /\ SameProgress(r, c')
  <2>1. x # "clean" => c' = AsyncReceive(r)
    BY <1>4
  <2> QED BY <1>8, <1>10, <2>1, AsyncReceiveFields
<1>15. CASE a = Plain("part") /\ c.peer = "auth" /\ c.parser = "clean"
            /\ \E b \in Msg : Remainder(b, q, since) /\ c.toClient = <<b>>
  <2>1. x = "partial"
    BY <1>7, <1>12, <1>15
  <2>2. InParts(c', q, since)
    BY <1>14, <1>15, <2>1 DEF InParts
  <2>3. Asking(c', q, since)
    BY <1>10, <1>14, <2>1, <2>2 DEF Asking, SameProgress
  <2>4. Purpose(c', q, since)
    BY <1>11, <1>14, <2>1, PurposeKept
  <2> QED BY <2>3, <2>4 DEF Alone
<1>16. CASE Remainder(a, q, since) /\ c.toClient = <<>> /\ c.peer = "auth" /\ c.parser = "partial"
  <2>1. a.t = "rest" /\ a.tab = q.tab /\ a.ver >= since /\ q.t = "query"
    BY <1>16 DEF Remainder
  <2>2. x = "clean"
    BY <1>7, <1>16, <2>1
  <2>3. \E p \in Msg : Purpose(CheckConnect(g), p, since) /\ Asking(CheckConnect(g), p, since)
    BY <1>6, <1>8, <1>10, <1>13, <1>16, <2>1, <2>2, RowsKept
  <2> QED BY <1>4, <2>2, <2>3 DEF Alone
<1>17. CASE /\ Answer(a, q, since) /\ c.toClient = <<>> /\ c.peer = PeerAfter(q)
            /\ q.t # "connect" => c.parser = "clean"
  <2>1. CASE q = Plain("connect") /\ a = Plain("connectOk")
    <3>1. Unconnected(r)
      BY <1>11, <1>12, <2>1 DEF Purpose
    <3>2. c.peer = "auth"
      BY <1>12, <1>17, <2>1 DEF PeerAfter
    <3>3. CASE x = "clean"
      <4>1. \E p \in Msg : Purpose(CheckConnect(g), p, since) /\ Asking(CheckConnect(g), p, since)
        BY <1>6, <1>8, <1>10, <1>12, <1>17, <2>1, <3>1, <3>2, <3>3, ConnectGranted
      <4> QED BY <1>4, <3>3, <4>1 DEF Alone
    <3>4. CASE x # "clean"
      <4>1. Connecting(c')
        BY <1>14, <1>17, <3>1, <3>2, <3>4 DEF Connecting, Unconnected, SameProgress
      <4> QED BY <4>1 DEF Alone
    <3> QED BY <3>3, <3>4
  <2>2. CASE q.t = "query" /\ a.t = "table" /\ a.tab = q.tab /\ a.ver >= since
    <3>1. x = "clean" /\ c.peer = "auth"
      BY <1>7, <1>17, <2>2 DEF PeerAfter
    <3>2. \E p \in Msg : Purpose(CheckConnect(g), p, since) /\ Asking(CheckConnect(g), p, since)
      BY <1>6, <1>8, <1>10, <1>13, <1>17, <2>2, <3>1, RowsKept
    <3> QED BY <1>4, <3>1, <3>2 DEF Alone
  <2>3. CASE q = Plain("disconnect") /\ a = Plain("disconnect")
    <3>1. x = "clean"
      BY <1>7, <1>12, <1>17, <2>3
    <3>2. Authorised(r) /\ \A t \in TableSet : Fresh(r.resp, t, since)
      BY <1>11, <1>12, <2>3 DEF Purpose
    <3>3. Ended(CheckConnect(g), since, tables')
      BY <1>4, <1>6, <1>8, <1>10, <1>12, <2>3, <3>1, <3>2, DisconnectHeard
    <3> QED BY <1>4, <3>1, <3>3 DEF Alone
  <2> QED BY <1>17, <2>1, <2>2, <2>3 DEF Answer
<1> QED BY <1>1, <1>15, <1>16, <1>17

LEMMA NextAlone ==
    ASSUME CInv, FInv, [Next]_vars
    PROVE  FInv'
<1>1. since \in Versions /\ version \in Versions /\ since <= version
  BY CInvParts DEF CountersTyped, FInv
<1>2. since' <= version'
  <2>1. \/ UNCHANGED <<since, version>>
        \/ since' = version /\ version' = version
        \/ since' = since /\ version' = version + 1
    BY DEF Next, vars, Handler, Reactor, Session, UpdateTimer, HandlerError, HandlerConnect,
           SendCommand, SendRest, SendWraps, ReciveCommand, Connected, PendingSend, Receive,
           PendingFails, Refused, DbConnect, DbQuery, DbDisconnect, DbJunk, Break, DbChanges,
           Becomes, Fault
  <2> QED BY <1>1, <2>1, ConstantsAssumption DEF Versions
<1>3. SUFFICES ASSUME clean' PROVE Alone(c', since', tables')
  BY <1>2, <1>3 DEF FInv
<1>4. CASE UpdateTimer
  BY <1>3, <1>4, UpdateTimerAlone
<1>5. (clean /\ since' = since) \/ UpdateTimer
  BY <1>3 DEF Next, vars, Handler, Reactor, Session, HandlerError, HandlerConnect,
         SendCommand, SendRest, SendWraps, ReciveCommand, Connected, PendingSend, Receive,
         PendingFails, Refused, DbConnect, DbQuery, DbDisconnect, DbJunk, Break, DbChanges,
         Becomes, Fault
<1>6. CASE clean /\ since' = since
  <2>1. Alone(c, since, tables)
    BY <1>6 DEF FInv
  <2>2. CASE UNCHANGED <<c, tables>>
    BY <1>6, <2>1, <2>2
  <2>3. CASE Handler
    BY <1>6, <2>1, <2>3, HandlerErrorAlone, HandlerConnectAlone, SendCommandAlone,
       SendRestAlone, SendWrapsAlone, ReciveCommandAlone DEF Handler
  <2>4. CASE Reactor \/ Refused
    BY <2>1, <2>4, ConnectAlone, PendingSendAlone, PendingFailsAlone, ReceiveAlone DEF Reactor
  <2>5. CASE Session
    <3>1. tables' = tables
      BY <2>5 DEF Session, DbConnect, DbQuery, DbDisconnect, DbJunk, NoCallback
    <3> QED BY <1>3, <1>6, <2>5, <3>1, SessionAlone
  <2>6. CASE Break
    BY <1>3, <2>6 DEF Break, Fault
  <2>7. DbChanges \/ UNCHANGED vars => UNCHANGED <<c, tables>>
    BY DEF DbChanges, NoCallback, vars
  <2> QED BY <1>4, <2>2, <2>3, <2>4, <2>5, <2>6, <2>7 DEF Next
<1> QED BY <1>4, <1>5, <1>6

(* An exchange of ClientDB that began alone and met no fault, however      *)
(* often its connect was refused and in however many parts the answers     *)
(* came, has installed the rows of its own time once nothing of it is left.*)
THEOREM FreshAlways == Spec => []FreshInstall
<1>1. Init => FInv
  <2> SUFFICES ASSUME Init PROVE FInv
    OBVIOUS
  <2>1. NewClient \in ClientType
    BY NewClientType
  <2>2. /\ NewClient.sock = "closed" /\ NewClient.pend = <<>> /\ NewClient.ready = <<>>
        /\ NewClient.queue = Tables
    BY Zenon DEF NewClient
  <2>3. Connecting(c)
    BY <2>1, <2>2, StartConnects DEF Init
  <2> QED BY <2>3 DEF Init, FInv, Alone
<1>2. CInv /\ FInv => FreshInstall
  <2> SUFFICES ASSUME CInv, FInv, Idle, clean
               PROVE  \A t \in TableSet : tables[t].from = t /\ tables[t].ver >= since
    BY DEF FreshInstall
  <2>1. c.pend = <<>> /\ c.ready = <<>> /\ Alone(c, since, tables)
    BY DEF Idle, FInv
  <2>2. ~Connecting(c)
    BY <2>1 DEF Connecting, Handling, Receiving
  <2>3. ASSUME NEW q \in Msg, Asking(c, q, since) PROVE FALSE
    <3>1. c.pend # <<"receive">>
      BY <2>1
    <3>2. \E m \in Msg : c.ready = <<Done("send", TRUE, m)>> \/ c.ready = <<Done("receive", TRUE, m)>>
      BY <2>3, <3>1, AskingShape
    <3> QED BY <2>1, <3>2
  <2>4. Ended(c, since, tables)
    BY <2>1, <2>2, <2>3 DEF Alone
  <2> QED BY <2>4 DEF Ended, Fresh
<1> QED BY <1>1, <1>2, NextAlone, ClientKept, PTL DEF Spec

-----------------------------------------------------------------------------
(* Exchanges that do not overlap, through any faults and for any fields.   *)

(* The rows of d are those of the tables whose names they bear.            *)
RightIn(d) == \A t \in TableSet : d[t].from \in {t, NoTable}

(* A query, or rows, of the table asked for last.                          *)
Mine(r, m) == m.t \in {"query", "table", "rest"} => m.tab = r.sent

Clear(r) == r.toDb = <<>> /\ r.toClient = <<>>

AtMostOne(r) ==
    \/ Clear(r)
    \/ r.toClient = <<>> /\ \E q \in Msg : r.toDb = <<q>> /\ Mine(r, q)
    \/ r.toDb = <<>> /\ \E a \in Msg : r.toClient = <<a>> /\ Mine(r, a)

(* One operation at a time: the one that connects, one that has failed, or *)
(* one of the request or the answer that is the only one on the line.      *)
Single(r) ==
    \/ r.pend = <<>> /\ r.ready = <<>>
    \/ r.pend = <<"connect">> /\ r.ready = <<>>
    \/ r.sock # "connecting" /\ \E e \in Event : Handling(r, e) /\ ~e.ok
    \/ /\ r.sock = "connected" /\ AtMostOne(r)
       /\ \/ Handling(r, Done("connect", TRUE, Plain("none"))) /\ Clear(r)
          \/ Handling(r, Done("send", TRUE, r.buf))
          \/ Receiving(r)
          \/ \E m \in Msg : /\ Handling(r, Got(m)) /\ Mine(r, m) /\ r.toDb = <<>>
                            /\ m.t # "part" => r.toClient = <<>>

Orderly(r) == ~r.skewed /\ RightIn(r.resp) /\ Single(r)

(* Rows are kept under the right name while exchanges do not overlap.      *)
RightAlone == overlaps = 0 => RightIn(c.resp) /\ RightIn(tables) /\ RightIn(used)

(* The inductive invariant for RightAlone, with CInv.                      *)
RInv == overlaps = 0 => Orderly(c) /\ RightIn(tables) /\ RightIn(used)

AtRest(r) == r.pend = <<>> /\ r.ready = <<>>

LEMMA StopProgress ==
    ASSUME NEW r \in ClientType
    PROVE  SameProgress(r, Stop(r))
<1>1. CASE r.sock = "closed"
  BY <1>1 DEF Stop, SameProgress
<1>2. CASE r.sock # "closed"
  <2> DEFINE k == r.ready \o [i \in DOMAIN r.pend |-> Failed(r.pend[i])]
             u == [r EXCEPT !.sock = "closed", !.pend = <<>>, !.ready = k,
                            !.peer = "none", !.toDb = <<>>, !.toClient = <<>>]
  <2>1. Stop(r) = u
    BY <1>2 DEF Stop
  <2> HIDE DEF k
  <2>2. SameProgress(r, u)
    BY Zenon DEF ClientType, SameProgress
  <2> QED BY <2>1, <2>2
<1> QED BY <1>1, <1>2

LEMMA StartOrderly ==
    ASSUME NEW r \in ClientType, r.sock = "closed", AtRest(r), ~r.skewed, RightIn(r.resp)
    PROVE  Orderly(Start(r))
<1> DEFINE w == [r EXCEPT !.flagConnet = FALSE, !.flagDisconnect = FALSE]
           p == Append(w.pend, "connect")
           u == [w EXCEPT !.sock = "connecting", !.pend = p]
<1>1. w.sock = r.sock /\ w.pend = r.pend
  BY Zenon DEF ClientType
<1>2. Start(r) = u
  BY <1>1 DEF Start
<1> HIDE DEF w
<1>3. p = <<"connect">>
  BY <1>1 DEF AtRest
<1> HIDE DEF p
<1>4. u.pend = p /\ u.ready = r.ready /\ u.skewed = r.skewed /\ u.resp = r.resp
  BY Zenon DEF ClientType, w
<1> HIDE DEF u
<1> QED BY <1>2, <1>3, <1>4 DEF Orderly, Single, AtRest

(* On a clear line a request is sent, the only one there is.               *)
LEMMA SendOrderly ==
    ASSUME NEW r \in ClientType, NEW q \in Msg, Mine(r, q),
           r.sock = "connected", AtRest(r), Clear(r), ~r.skewed, RightIn(r.resp)
    PROVE  Orderly(AsyncSend(r, q))
<1> DEFINE w == [r EXCEPT !.buf = q]
           d == Append(w.toDb, q)
           x == [w EXCEPT !.toDb = d]
           e == Append(x.ready, Done("send", TRUE, q))
           u == [x EXCEPT !.ready = e]
<1>1. AsyncSend(r, q) = u
  BY DEF AsyncSend, Completed, Done
<1>2. w \in ClientType /\ w.toDb = r.toDb
  BY Zenon DEF ClientType
<1>3. x.ready = r.ready
  BY Zenon DEF ClientType
<1> HIDE DEF w, x
<1>4. d = <<q>>
  BY <1>2 DEF Clear
<1> HIDE DEF d
<1>5. e = <<Done("send", TRUE, q)>>
  BY <1>3 DEF AtRest
<1> HIDE DEF e
<1>6. /\ u.sock = r.sock /\ u.pend = r.pend /\ u.ready = e /\ u.toDb = d
      /\ u.toClient = r.toClient /\ u.buf = q /\ u.sent = r.sent
      /\ u.skewed = r.skewed /\ u.resp = r.resp
  BY Zenon DEF ClientType, w, x
<1> HIDE DEF u
<1>7. AtMostOne(u)
  BY <1>4, <1>6 DEF AtMostOne, Clear, Mine
<1>8. Handling(u, Done("send", TRUE, u.buf))
  BY <1>5, <1>6 DEF Handling, AtRest
<1> QED BY <1>1, <1>6, <1>7, <1>8 DEF Orderly, Single

(* __checkConnect on a clear line.                                         *)
LEMMA CheckOrderly ==
    ASSUME NEW r \in ClientType, r.sock = "connected", AtRest(r), Clear(r),
           ~r.skewed, RightIn(r.resp)
    PROVE  Orderly(CheckConnect(r))
<1>1. Orderly(Stop(r))
  <2>1. AtRest(Stop(r))
    BY StopAtRest DEF AtRest
  <2>2. SameProgress(r, Stop(r))
    BY StopProgress
  <2> QED BY <2>1, <2>2 DEF Orderly, Single, AtRest, SameProgress
<1>2. ASSUME NEW t \in {"connect", "disconnect"} PROVE Orderly(AsyncSend(r, Plain(t)))
  <2>1. Plain(t) \in Msg /\ Plain(t).t = t
    BY PlainType
  <2>2. Mine(r, Plain(t))
    BY <2>1 DEF Mine
  <2> QED BY <2>1, <2>2, SendOrderly
<1>3. ASSUME r.queue # <<>>
      PROVE  Orderly(AsyncSend([r EXCEPT !.sent = Head(r.queue), !.queue = Tail(@)],
                               Queried(Head(r.queue))))
  <2> DEFINE h == Head(r.queue)
             k == Tail(r.queue)
             u == [r EXCEPT !.sent = h, !.queue = k]
  <2>1. r.queue \in Seq(TableSet)
    BY ClientFields
  <2>2. h \in TableSet /\ k \in Seq(TableSet)
    BY <1>3, <2>1
  <2>3. Queried(h) \in Msg /\ Queried(h).tab = h
    BY <2>2, ConstantsAssumption DEF Queried, Msg
  <2> HIDE DEF h, k
  <2>4. u \in ClientType
    BY <2>2, Zenon DEF ClientType
  <2>5. /\ u.sock = r.sock /\ u.pend = r.pend /\ u.ready = r.ready /\ u.toDb = r.toDb
        /\ u.toClient = r.toClient /\ u.skewed = r.skewed /\ u.resp = r.resp /\ u.sent = h
    BY Zenon DEF ClientType
  <2> HIDE DEF u
  <2>6. Mine(u, Queried(h)) /\ AtRest(u) /\ Clear(u)
    BY <2>3, <2>5 DEF Mine, AtRest, Clear
  <2>7. Orderly(AsyncSend(u, Queried(h)))
    BY <2>3, <2>4, <2>5, <2>6, SendOrderly
  <2> QED BY <2>7 DEF u, h, k
<1> QED BY <1>1, <1>2, <1>3 DEF CheckConnect, QueryGenerator, Queried

(* The handler that runs: the one operation there is.                      *)
LEMMA RunsSingle ==
    ASSUME CInv, Orderly(c), c.ready # <<>>
    PROVE  /\ c \in ClientType /\ c.pend = <<>> /\ c.ready = <<Head(c.ready)>>
           /\ Popped \in ClientType /\ AtRest(Popped) /\ ~Popped.skewed /\ RightIn(Popped.resp)
           /\ Popped.sock = c.sock /\ Popped.toDb = c.toDb /\ Popped.toClient = c.toClient
           /\ Popped.buf = c.buf /\ Popped.sent = c.sent
<1>1. c \in ClientType
  BY CInvParts DEF Kept, Wired
<1>2. c.pend = <<>> /\ \E e : c.ready = <<e>>
  BY DEF Orderly, Single, Handling, Receiving
<1>3. PICK e : c.ready = <<e>>
  BY <1>2
<1>4. Head(c.ready) = e
  BY <1>3
<1>5. /\ Popped \in ClientType /\ Popped.ready = <<>>
      /\ Popped.sock = c.sock /\ Popped.pend = c.pend
      /\ Popped.toDb = c.toDb /\ Popped.toClient = c.toClient
      /\ Popped.buf = c.buf /\ SameProgress(c, Popped)
  BY <1>1, <1>3, PoppedFields
<1> QED BY <1>1, <1>2, <1>3, <1>4, <1>5 DEF Orderly, AtRest, SameProgress

(* What a completed operation finds, by its kind.                          *)
LEMMA RunsConnected ==
    ASSUME CInv, Orderly(c), NEW op \in Ops, Runs(op, TRUE)
    PROVE  /\ c.sock = "connected"
           /\ op = "connect" => Clear(c)
           /\ op = "send" => Head(c.ready).msg = c.buf /\ AtMostOne(c)
           /\ op = "receive" =>
                 \E m \in Msg : /\ Head(c.ready).msg = m /\ Mine(c, m) /\ c.toDb = <<>>
                                /\ AtMostOne(c) /\ (m.t # "part" => c.toClient = <<>>)
<1>1. c.ready # <<>> /\ Head(c.ready).op = op /\ Head(c.ready).ok = TRUE
  BY DEF Runs
<1>2. c.pend = <<>> /\ c.ready = <<Head(c.ready)>>
  BY <1>1, RunsSingle
<1>3. \A e : Handling(c, e) => Head(c.ready) = e
  BY DEF Handling
<1>4. \A e \in Event : Handling(c, e) => e.ok
  BY <1>1, <1>3
<1>5. /\ c.sock = "connected" /\ AtMostOne(c)
      /\ \/ Handling(c, Done("connect", TRUE, Plain("none"))) /\ Clear(c)
         \/ Handling(c, Done("send", TRUE, c.buf))
         \/ \E m \in Msg : /\ Handling(c, Got(m)) /\ Mine(c, m) /\ c.toDb = <<>>
                           /\ m.t # "part" => c.toClient = <<>>
  BY <1>1, <1>2, <1>4 DEF Orderly, Single, Receiving
<1>6. CASE Handling(c, Done("connect", TRUE, Plain("none"))) /\ Clear(c)
  <2>1. op = "connect"
    BY <1>1, <1>3, <1>6 DEF Done
  <2> QED BY <1>5, <1>6, <2>1
<1>7. CASE Handling(c, Done("send", TRUE, c.buf))
  <2>1. op = "send" /\ Head(c.ready).msg = c.buf
    BY <1>1, <1>3, <1>7 DEF Done
  <2> QED BY <1>5, <2>1
<1>8. ASSUME NEW m \in Msg, Handling(c, Got(m)), Mine(c, m), c.toDb = <<>>,
             m.t # "part" => c.toClient = <<>>
      PROVE  op = "receive" /\ Head(c.ready).msg = m
  BY <1>1, <1>3, <1>8 DEF Got, Done
<1> QED BY <1>5, <1>6, <1>7, <1>8

LEMMA HandlerErrorOrderly ==
    ASSUME CInv, Orderly(c), HandlerError
    PROVE  Orderly(c')
<1>1. c.ready # <<>>
  BY DEF HandlerError, Runs
<1>2. /\ Popped \in ClientType /\ AtRest(Popped) /\ ~Popped.skewed /\ RightIn(Popped.resp)
  BY <1>1, RunsSingle
<1>3. /\ Stop(Popped) \in ClientType /\ Stop(Popped).sock = "closed" /\ AtRest(Stop(Popped))
  BY <1>2, StopAtRest DEF AtRest
<1>4. ~Stop(Popped).skewed /\ RightIn(Stop(Popped).resp)
  BY <1>2, StopProgress DEF SameProgress
<1>5. Orderly(Start(Stop(Popped)))
  BY <1>3, <1>4, StartOrderly
<1> QED BY <1>5 DEF HandlerError, Becomes

LEMMA HandlerConnectOrderly ==
    ASSUME CInv, Orderly(c), HandlerConnect
    PROVE  Orderly(c')
<1>1. c.sock = "connected" /\ Clear(c) /\ c.ready # <<>>
  BY RunsConnected DEF HandlerConnect, Runs, Ops
<1>2. Orderly(CheckConnect(Popped))
  BY <1>1, RunsSingle, CheckOrderly DEF Clear
<1> QED BY <1>2 DEF HandlerConnect, Becomes

LEMMA ReceiveArmed ==
    ASSUME NEW r \in ClientType, r.sock = "connected", AtRest(r), AtMostOne(r),
           ~r.skewed, RightIn(r.resp)
    PROVE  Orderly(AsyncReceive(r))
<1> DEFINE p == Append(r.pend, "receive")
           u == [r EXCEPT !.pend = p]
<1>1. AsyncReceive(r) = u
  BY DEF AsyncReceive
<1>2. p = <<"receive">>
  BY DEF AtRest
<1> HIDE DEF p
<1>3. /\ u.pend = p /\ u.ready = r.ready /\ u.sock = r.sock /\ u.toDb = r.toDb
      /\ u.toClient = r.toClient /\ u.sent = r.sent /\ u.skewed = r.skewed
      /\ u.resp = r.resp
  BY Zenon DEF ClientType
<1> HIDE DEF u
<1>4. AtMostOne(u) /\ Receiving(u)
  BY <1>2, <1>3 DEF AtMostOne, Clear, Mine, Receiving, AtRest
<1> QED BY <1>1, <1>3, <1>4 DEF Orderly, Single

LEMMA SendCommandOrderly ==
    ASSUME CInv, Orderly(c), SendCommand
    PROVE  Orderly(c')
<1> DEFINE b == Plain("none")
           w == [Popped EXCEPT !.buf = b]
<1>1. c.sock = "connected" /\ AtMostOne(c) /\ c.ready # <<>>
  BY RunsConnected DEF SendCommand, Runs, Ops
<1>2. /\ Popped \in ClientType /\ AtRest(Popped) /\ ~Popped.skewed /\ RightIn(Popped.resp)
      /\ Popped.sock = c.sock /\ Popped.toDb = c.toDb /\ Popped.toClient = c.toClient
      /\ Popped.sent = c.sent
  BY <1>1, RunsSingle
<1>3. b \in Msg
  BY PlainType
<1>4. c' = AsyncReceive(w)
  BY DEF SendCommand, Becomes
<1> HIDE DEF b
<1>5. w \in ClientType
  BY <1>2, <1>3, Zenon DEF ClientType
<1>6. /\ w.pend = Popped.pend /\ w.ready = Popped.ready /\ w.sock = Popped.sock
      /\ w.toDb = Popped.toDb /\ w.toClient = Popped.toClient /\ w.sent = Popped.sent
      /\ w.skewed = Popped.skewed /\ w.resp = Popped.resp
  BY <1>2, Zenon DEF ClientType
<1> HIDE DEF w
<1>7. AtRest(w) /\ AtMostOne(w)
  BY <1>1, <1>2, <1>6 DEF AtRest, AtMostOne, Clear, Mine
<1> QED BY <1>1, <1>2, <1>4, <1>5, <1>6, <1>7, ReceiveArmed

(* Nobody else has touched the buffer or the count.                        *)
LEMMA SendNotDisturbed ==
    ASSUME CInv, Orderly(c), SendRest \/ SendWraps
    PROVE  FALSE
<1>1. Runs("send", TRUE)
  BY DEF SendRest, SendWraps
<1>2. Head(c.ready).msg = c.buf
  BY <1>1, RunsConnected DEF Ops
<1> QED BY <1>2 DEF SendRest, SendWraps, Orderly

(* The rows received are the ones asked for last.                          *)
LEMMA AnalizeOrderly ==
    ASSUME NEW r \in ClientType, NEW m \in Msg, m.t \in Answers, Mine(r, m),
           r.sock = "connected", AtRest(r), Clear(r), ~r.skewed, RightIn(r.resp)
    PROVE  /\ Orderly(CheckConnect(CommandAnalize(r, m)))
           /\ RightIn(CommandAnalize(r, m).resp)
<1> DEFINE g == CommandAnalize(r, m)
<1> SUFFICES /\ g \in ClientType /\ g.sock = r.sock /\ g.pend = r.pend
             /\ g.ready = r.ready /\ g.toDb = r.toDb /\ g.toClient = r.toClient
             /\ g.skewed = r.skewed /\ RightIn(g.resp)
  <2>1. AtRest(g) /\ Clear(g) => Orderly(CheckConnect(g))
    <3> HIDE DEF g
    <3> QED BY CheckOrderly
  <2> HIDE DEF g
  <2>2. AtRest(g) /\ Clear(g)
    BY DEF AtRest, Clear
  <2>3. Orderly(CheckConnect(g)) /\ RightIn(g.resp)
    BY <2>1, <2>2
  <2> QED BY <2>3 DEF g
<1>1. CASE m.t = "connectOk"
  <2> DEFINE u == [r EXCEPT !.flagConnet = TRUE, !.flagDisconnect = FALSE]
  <2>1. g = u
    BY <1>1 DEF CommandAnalize
  <2>2. u \in ClientType
    BY Zenon DEF ClientType
  <2>3. /\ u.sock = r.sock /\ u.pend = r.pend /\ u.ready = r.ready /\ u.toDb = r.toDb
        /\ u.toClient = r.toClient /\ u.skewed = r.skewed /\ u.resp = r.resp
    BY Zenon DEF ClientType
  <2> HIDE DEF u, g
  <2> QED BY <2>1, <2>2, <2>3
<1>2. CASE m.t \in {"connectFail", "disconnect"}
  <2> DEFINE u == [r EXCEPT !.flagDisconnect = TRUE]
  <2>1. g = u
    BY <1>2 DEF CommandAnalize
  <2>2. u \in ClientType
    BY Zenon DEF ClientType
  <2>3. /\ u.sock = r.sock /\ u.pend = r.pend /\ u.ready = r.ready /\ u.toDb = r.toDb
        /\ u.toClient = r.toClient /\ u.skewed = r.skewed /\ u.resp = r.resp
    BY Zenon DEF ClientType
  <2> HIDE DEF u, g
  <2> QED BY <2>1, <2>2, <2>3
<1>3. CASE m.t \in {"table", "rest"}
  <2> DEFINE d == [r.resp EXCEPT ![r.sent] = [from |-> m.tab, ver |-> m.ver]]
             u == [r EXCEPT !.resp = d]
  <2>1. g = IF <<r.sent, m.tab>> \in Fits THEN u ELSE r
    BY <1>3 DEF CommandAnalize
  <2>2. r.resp \in Data /\ m.tab = r.sent
    BY <1>3, ClientFields DEF Mine
  <2>3. d \in Data
    <3>1. [from |-> m.tab, ver |-> m.ver] \in [from : TableSet \cup {NoTable}, ver : 0..MaxVersion]
      BY DEF Msg
    <3> QED BY <2>2, <3>1, Zenon DEF Data
  <2>4. RightIn(d)
    <3>1. ASSUME NEW t \in TableSet PROVE d[t].from \in {t, NoTable}
      <4>1. CASE t = r.sent
        BY <2>2, <4>1 DEF Data
      <4>2. CASE t # r.sent
        <5>1. d[t] = r.resp[t]
          BY <2>2, <4>2 DEF Data
        <5> QED BY <5>1 DEF RightIn
      <4> QED BY <4>1, <4>2
    <3> QED BY <3>1 DEF RightIn
  <2> HIDE DEF d
  <2>5. u \in ClientType
    BY <2>3, Zenon DEF ClientType
  <2>6. /\ u.sock = r.sock /\ u.pend = r.pend /\ u.ready = r.ready /\ u.toDb = r.toDb
        /\ u.toClient = r.toClient /\ u.skewed = r.skewed /\ u.resp = d
    BY Zenon DEF ClientType
  <2> HIDE DEF u, g
  <2> QED BY <2>1, <2>4, <2>5, <2>6
<1> QED BY <1>1, <1>2, <1>3 DEF Answers

LEMMA ReciveCommandOrderly ==
    ASSUME CInv, Orderly(c), ReciveCommand
    PROVE  /\ Orderly(c')
           /\ NoCallback \/ \E d \in Data : RightIn(d) /\ Callback(d)
<1> DEFINE m == Head(c.ready).msg
           x == Parsed(m)
           r == [Popped EXCEPT !.parser = x]
           g == CommandAnalize(r, m)
<1>1. /\ m \in Msg /\ Mine(c, m) /\ c.toDb = <<>> /\ AtMostOne(c) /\ c.sock = "connected"
      /\ m.t # "part" => c.toClient = <<>>
  BY RunsConnected DEF ReciveCommand, Ops
<1>2. c.ready # <<>> /\ Wired(c) /\ c \in ClientType /\ c.parser \in {"clean", "partial", "failed"}
  <2>1. Wired(c) /\ c.ready # <<>> /\ c \in ClientType
    BY CInvParts DEF Kept, Wired, ReciveCommand, Runs
  <2>2. c.parser \in {"clean", "partial", "failed"}
    BY <2>1, Zenon DEF ClientType
  <2> QED BY <2>1, <2>2
<1>3. m.t \in Heard
  <2>1. 1 \in DOMAIN c.ready /\ c.ready[1] = Head(c.ready)
    BY <1>2, ClientFields
  <2>2. Head(c.ready).op = "receive" /\ Head(c.ready).ok
    BY DEF ReciveCommand, Runs
  <2> QED BY <1>2, <2>1, <2>2 DEF Wired
<1>4. /\ x \in {"clean", "partial", "failed"}
      /\ x = "clean" => m.t \notin {"part", "junk"}
  BY <1>2, ParsedType
<1>5. /\ Popped \in ClientType /\ AtRest(Popped) /\ ~Popped.skewed /\ RightIn(Popped.resp)
      /\ Popped.sock = c.sock /\ Popped.toDb = c.toDb /\ Popped.toClient = c.toClient
      /\ Popped.sent = c.sent
  BY <1>2, RunsSingle
<1>6. /\ x # "clean" => c' = AsyncReceive(r) /\ NoCallback
      /\ x = "clean" => c' = CheckConnect(g) /\ (NoCallback \/ Callback(g.resp))
  BY DEF ReciveCommand, Becomes
<1> HIDE DEF m, x
<1>7. r \in ClientType
  BY <1>4, <1>5, Zenon DEF ClientType
<1>8. /\ r.ready = Popped.ready /\ r.pend = Popped.pend /\ r.sock = Popped.sock
      /\ r.toDb = Popped.toDb /\ r.toClient = Popped.toClient /\ r.sent = Popped.sent
      /\ r.skewed = Popped.skewed /\ r.resp = Popped.resp
  BY <1>5, Zenon DEF ClientType
<1> HIDE DEF r
<1>9. AtRest(r) /\ AtMostOne(r) /\ Mine(r, m) /\ r.sock = "connected" /\ ~r.skewed /\ RightIn(r.resp)
  BY <1>1, <1>5, <1>8 DEF AtRest, AtMostOne, Clear, Mine
<1>10. CASE x # "clean"
  BY <1>6, <1>7, <1>9, <1>10, ReceiveArmed
<1>11. CASE x = "clean"
  <2>1. m.t \in Answers /\ m.t # "part"
    BY <1>3, <1>4, <1>11 DEF Heard
  <2>2. Clear(r)
    BY <1>1, <1>5, <1>8, <2>1 DEF Clear
  <2>3. Orderly(CheckConnect(g)) /\ RightIn(g.resp)
    BY <1>1, <1>7, <1>9, <2>1, <2>2, AnalizeOrderly
  <2>4. g.resp \in Data
    <3>1. Wired(r)
      <4>1. \A i \in DOMAIN r.ready : FALSE
        BY <1>9 DEF AtRest
      <4> QED BY <1>1, <1>5, <1>7, <1>8, <1>9, <2>2, <4>1 DEF Wired, Clear
    <3>2. Wired(g)
      BY <1>1, <2>1, <3>1, CommandAnalizeWired
    <3> HIDE DEF g
    <3> QED BY <3>2, ClientFields DEF Wired
  <2> QED BY <1>6, <1>11, <2>3, <2>4
<1> QED BY <1>10, <1>11

LEMMA ConnectOrderly ==
    ASSUME CInv, Orderly(c), Connected \/ Refused
    PROVE  Orderly(c')
<1> DEFINE p == Without("connect")
           v == [c EXCEPT !.sock = "connected", !.peer = "open", !.pend = p]
           e == Append(v.ready, Done("connect", TRUE, Plain("none")))
           x == [v EXCEPT !.ready = e]
           w == [c EXCEPT !.sock = "opened", !.pend = p]
           f == Append(w.ready, Failed("connect"))
           y == [w EXCEPT !.ready = f]
<1>1. Wired(c) /\ c \in ClientType /\ c.sock = "connecting"
  BY CInvParts DEF Kept, Wired, Connected, Refused
<1>2. c.pend = <<"connect">> /\ c.ready = <<>>
  BY <1>1, CInvParts DEF Orderly, Single, Kept, Busy
<1>3. p = <<>>
  BY <1>1, <1>2, ClientFields, FirstRemoved DEF Without
<1>4. v.ready = c.ready /\ w.ready = c.ready
  BY <1>1, Zenon DEF ClientType
<1>5. Connected => c' = x
  BY DEF Connected, Becomes, Completed, Done
<1>6. Refused => c' = y
  BY DEF Refused, Completed, Failed
<1> HIDE DEF p, v, w
<1>7. e = <<Done("connect", TRUE, Plain("none"))>> /\ f = <<Failed("connect")>>
  BY <1>2, <1>4
<1> HIDE DEF e, f
<1>8. /\ x.sock = "connected" /\ x.pend = p /\ x.ready = e /\ x.toDb = c.toDb
      /\ x.toClient = c.toClient /\ x.skewed = c.skewed /\ x.resp = c.resp
  BY <1>1, Zenon DEF ClientType, v
<1>9. /\ y.sock = "opened" /\ y.pend = p /\ y.ready = f
      /\ y.skewed = c.skewed /\ y.resp = c.resp
  BY <1>1, Zenon DEF ClientType, w
<1>10. c.toDb = <<>> /\ c.toClient = <<>>
  BY <1>1 DEF Wired
<1>11. Failed("connect") \in Event /\ ~Failed("connect").ok
  <2>1. Plain("none") \in Msg /\ "connect" \in Ops
    BY PlainType DEF Ops
  <2> QED BY <2>1, Zenon DEF Failed, Event
<1> HIDE DEF x, y
<1>12. Orderly(x)
  BY <1>3, <1>7, <1>8, <1>10 DEF Orderly, Single, Handling, AtMostOne, Clear
<1>13. Orderly(y)
  BY <1>3, <1>7, <1>9, <1>11 DEF Orderly, Single, Handling
<1> QED BY <1>5, <1>6, <1>12, <1>13

LEMMA WaitingReceives ==
    ASSUME CInv, Orderly(c), NEW op \in {"send", "receive"}, Waiting(op)
    PROVE  op = "receive" /\ Receiving(c) /\ c.sock = "connected" /\ AtMostOne(c)
<1>1. c.pend # <<>> /\ (c.pend = <<"connect">> => FALSE) /\ (c.pend = <<"receive">> => op = "receive")
  BY DEF Waiting, ToSet
<1> QED BY <1>1 DEF Orderly, Single, Handling, Receiving

(* The receive ends in an error: the session has gone.                     *)
LEMMA PendingFailsOrderly ==
    ASSUME CInv, Orderly(c), NEW op \in Ops, PendingFails(op)
    PROVE  Orderly(c')
<1> DEFINE p == Without("receive")
           w == [c EXCEPT !.pend = p]
           e == Append(w.ready, Failed("receive"))
           x == [w EXCEPT !.ready = e]
<1>1. op \in {"send", "receive"} /\ Waiting(op)
  BY DEF PendingFails
<1>2. op = "receive" /\ Receiving(c) /\ c.sock = "connected"
  BY <1>1, WaitingReceives
<1>3. c \in ClientType
  BY CInvParts DEF Kept, Wired
<1>4. p = <<>>
  BY <1>2, <1>3, ClientFields, FirstRemoved DEF Without, Receiving
<1>5. w.ready = c.ready
  BY <1>3, Zenon DEF ClientType
<1>6. c' = x
  BY <1>2 DEF PendingFails, Becomes, Completed, Failed
<1> HIDE DEF p, w
<1>7. e = <<Failed("receive")>>
  BY <1>2, <1>5 DEF Receiving
<1> HIDE DEF e
<1>8. /\ x.sock = c.sock /\ x.pend = p /\ x.ready = e
      /\ x.skewed = c.skewed /\ x.resp = c.resp
  BY <1>3, Zenon DEF ClientType, w
<1>9. Failed("receive") \in Event /\ ~Failed("receive").ok
  <2>1. Plain("none") \in Msg /\ "receive" \in Ops
    BY PlainType DEF Ops
  <2> QED BY <2>1, Zenon DEF Failed, Event
<1> HIDE DEF x
<1>10. Orderly(x)
  BY <1>2, <1>4, <1>7, <1>8, <1>9 DEF Orderly, Single, Handling
<1> QED BY <1>6, <1>10

LEMMA ReturnedOrderly ==
    ASSUME c \in ClientType, Orderly(c), Receiving(c), c.sock = "connected", c.toDb = <<>>,
           NEW k \in Seq(Msg), NEW m \in Msg, NEW u, u = Returned(k, m), Mine(c, m),
           \/ k = <<>>
           \/ m.t = "part" /\ \E b \in Msg : k = <<b>> /\ Mine(c, b)
    PROVE  Orderly(u)
<1>1. /\ Handling(u, Got(m)) /\ u.toClient = k /\ u.sock = c.sock /\ u.toDb = c.toDb
      /\ SameProgress(c, u)
  BY ReceiveFields
<1>2. AtMostOne(u) /\ Mine(u, m) /\ u.toDb = <<>> /\ (m.t # "part" => u.toClient = <<>>)
  BY <1>1 DEF AtMostOne, Clear, Mine, SameProgress
<1> QED BY <1>1, <1>2 DEF Orderly, Single, SameProgress

LEMMA ReceiveOrderly ==
    ASSUME CInv, Orderly(c), Receive
    PROVE  Orderly(c')
<1> DEFINE r == [c EXCEPT !.pend = Without("receive")]
<1>1. /\ c \in ClientType /\ c.toClient \in Seq(Msg) /\ c.toClient # <<>> /\ Waiting("receive")
  BY CInvParts, ClientFields DEF Kept, Wired, Receive
<1>2. Receiving(c) /\ c.sock = "connected" /\ AtMostOne(c)
  BY <1>1, WaitingReceives
<1>3. PICK a \in Msg : c.toClient = <<a>> /\ c.toDb = <<>> /\ Mine(c, a)
  BY <1>1, <1>2 DEF AtMostOne, Clear
<1>4. Head(c.toClient) = a /\ Tail(c.toClient) = <<>> /\ Len(c.toClient) = 1 /\ c.toClient[1] = a
  BY <1>3
<1>5. CASE Becomes(Completed([r EXCEPT !.toClient = Tail(@)], "receive", TRUE, Head(c.toClient)))
  <2>1. c' = Returned(Tail(c.toClient), a)
    <3>1. r.toClient = c.toClient
      BY <1>1, Zenon DEF ClientType
    <3>2. [r EXCEPT !.toClient = Tail(@)] = [c EXCEPT !.pend = Without("receive"),
                                                     !.toClient = Tail(c.toClient)]
      BY <1>1, <3>1, Zenon DEF ClientType
    <3> QED BY <1>4, <1>5, <3>2 DEF Becomes, Returned
  <2>2. <<>> \in Seq(Msg)
    OBVIOUS
  <2> QED BY <1>1, <1>2, <1>3, <1>4, <2>1, <2>2, ReturnedOrderly
<1>6. CASE a.t = "table" /\ Becomes(Completed([r EXCEPT !.toClient[1].t = "rest"],
                                              "receive", TRUE, Plain("part")))
  <2> DEFINE b == [a EXCEPT !.t = "rest"]
  <2>1. b \in Msg /\ b.tab = a.tab /\ b.t = "rest"
    BY DEF Msg
  <2>2. c' = Returned(<<b>>, Plain("part"))
    <3>1. r.toClient = c.toClient
      BY <1>1, Zenon DEF ClientType
    <3>2. [r.toClient EXCEPT ![1].t = "rest"] = <<b>>
      BY <1>3, <3>1
    <3> HIDE DEF b
    <3>3. [r EXCEPT !.toClient[1].t = "rest"] = [c EXCEPT !.pend = Without("receive"),
                                                         !.toClient = <<b>>]
      BY <3>2
    <3> QED BY <1>6, <3>3 DEF Becomes, Returned
  <2>3. Plain("part") \in Msg /\ Plain("part").t = "part"
    BY PlainType
  <2>4. Mine(c, b) /\ Mine(c, Plain("part"))
    BY <1>3, <1>6, <2>1, <2>3 DEF Mine
  <2> HIDE DEF b
  <2>5. <<b>> \in Seq(Msg)
    BY <2>1
  <2> QED BY <1>1, <1>2, <1>3, <2>1, <2>2, <2>3, <2>4, <2>5, ReturnedOrderly
<1>7. ~(Len(c.toClient) > 1)
  BY <1>4
<1> QED BY <1>4, <1>5, <1>6, <1>7, Zenon DEF Receive

(* What happens at the other end leaves the client as it is.               *)
LEMMA LineOrderly ==
    ASSUME Orderly(c), NEW u,
           u.sock = c.sock, u.pend = c.pend, u.ready = c.ready, u.buf = c.buf,
           SameProgress(c, u),
           \/ Clear(u)
           \/ /\ c.toDb # <<>>
              /\ c.sock = "connected" /\ AtMostOne(c) => AtMostOne(u)
    PROVE  Orderly(u)
<1>1. CASE c.sock = "connected" /\ AtMostOne(c)
  <2>1. AtMostOne(u)
    BY <1>1 DEF AtMostOne
  <2> QED BY <2>1 DEF Orderly, Single, Handling, Receiving, Clear, Mine, SameProgress
<1>2. CASE ~(c.sock = "connected" /\ AtMostOne(c))
  BY <1>2 DEF Orderly, Single, Handling, SameProgress
<1> QED BY <1>1, <1>2

(* The session takes the one request, and answers it or not.               *)
LEMMA SilentOrderly ==
    ASSUME CInv, Orderly(c), NEW t, DbRequest(t), NEW p
    PROVE  Orderly(Silent(p))
<1> DEFINE d == Tail(c.toDb)
           u == [c EXCEPT !.toDb = d, !.peer = p]
<1>1. c \in ClientType /\ c.toDb # <<>>
  BY CInvParts DEF Kept, Wired, DbRequest
<1>2. Silent(p) = u
  BY DEF Silent
<1>3. AtMostOne(c) => d = <<>> /\ c.toClient = <<>>
  <2> SUFFICES ASSUME AtMostOne(c) PROVE d = <<>> /\ c.toClient = <<>>
    OBVIOUS
  <2>1. PICK q \in Msg : c.toDb = <<q>> /\ c.toClient = <<>>
    BY <1>1 DEF AtMostOne, Clear
  <2> QED BY <2>1
<1> HIDE DEF d
<1>4. /\ u.sock = c.sock /\ u.pend = c.pend /\ u.ready = c.ready /\ u.buf = c.buf
      /\ u.toDb = d /\ u.toClient = c.toClient
  BY <1>1, Zenon DEF ClientType
<1>5. SameProgress(c, u)
  BY <1>1, Zenon DEF ClientType, SameProgress
<1> HIDE DEF u
<1>6. AtMostOne(c) => AtMostOne(u)
  BY <1>3, <1>4 DEF AtMostOne, Clear
<1> QED BY <1>1, <1>2, <1>4, <1>5, <1>6, LineOrderly

LEMMA AnsweredOrderly ==
    ASSUME CInv, Orderly(c), NEW t, DbRequest(t), NEW a \in Msg, NEW p, a.t # "query",
           a.t \in {"table", "rest"} => t = "query" /\ a.tab = Head(c.toDb).tab
    PROVE  Orderly(Answered(a, p))
<1> DEFINE d == Tail(c.toDb)
           k == Append(c.toClient, a)
           u == [c EXCEPT !.toDb = d, !.peer = p, !.toClient = k]
<1>1. c \in ClientType /\ c.toDb # <<>> /\ Head(c.toDb).t = t
  BY CInvParts DEF Kept, Wired, DbRequest
<1>2. Answered(a, p) = u
  BY DEF Answered
<1>3. AtMostOne(c) => d = <<>> /\ k = <<a>> /\ Mine(c, a)
  <2> SUFFICES ASSUME AtMostOne(c) PROVE d = <<>> /\ k = <<a>> /\ Mine(c, a)
    OBVIOUS
  <2>1. PICK q \in Msg : c.toDb = <<q>> /\ c.toClient = <<>> /\ Mine(c, q)
    BY <1>1 DEF AtMostOne, Clear
  <2>2. Head(c.toDb) = q /\ d = <<>> /\ k = <<a>>
    BY <2>1
  <2> QED BY <1>1, <2>1, <2>2 DEF Mine
<1> HIDE DEF d, k
<1>4. /\ u.sock = c.sock /\ u.pend = c.pend /\ u.ready = c.ready /\ u.buf = c.buf
      /\ u.toDb = d /\ u.toClient = k
  BY <1>1, Zenon DEF ClientType
<1>5. SameProgress(c, u)
  BY <1>1, Zenon DEF ClientType, SameProgress
<1> HIDE DEF u
<1>6. AtMostOne(c) => AtMostOne(u)
  BY <1>3, <1>4, <1>5 DEF AtMostOne, Clear, Mine, SameProgress
<1> QED BY <1>1, <1>2, <1>4, <1>5, <1>6, LineOrderly

LEMMA SessionOrderly ==
    ASSUME CInv, Orderly(c), Session
    PROVE  Orderly(c')
<1>1. \A t \in {"connectOk", "connectFail", "disconnect"} :
          /\ Plain(t) \in Msg /\ Plain(t).t # "query" /\ Plain(t).t \notin {"table", "rest"}
  BY PlainType
<1>2. CASE DbConnect
  <2>1. DbRequest("connect")
    BY <1>2 DEF DbConnect
  <2>2. \/ c' = Answered(Plain("connectOk"), "auth")
        \/ c' = Silent("auth")
        \/ c' = Answered(Plain("connectFail"), "ended")
    BY <1>2 DEF DbConnect, Becomes
  <2> QED BY <1>1, <2>1, <2>2, SilentOrderly, AnsweredOrderly
<1>3. CASE DbQuery
  <2> DEFINE a == [t |-> "table", tab |-> Head(c.toDb).tab, ver |-> version]
  <2>1. DbRequest("query")
    BY <1>3 DEF DbQuery
  <2>2. \/ c' = Answered(a, "auth")
        \/ c' = Silent("open")
        \/ c' = Answered(Plain("disconnect"), "ended")
    BY <1>3 DEF DbQuery, Becomes
  <2>3. a.t = "table" /\ a.tab = Head(c.toDb).tab
    OBVIOUS
  <2>4. a \in Msg
    <3>1. c.toDb # <<>> /\ c.toDb \in Seq(Msg)
      BY <2>1, CInvParts, ClientFields DEF Kept, Wired, DbRequest
    <3>2. Head(c.toDb) \in Msg
      BY <3>1
    <3>3. Head(c.toDb).tab \in TableSet \cup {NoTable}
      BY <3>2 DEF Msg
    <3>4. version \in 0..MaxVersion
      BY CInvParts, ConstantsAssumption DEF CountersTyped, Versions
    <3> QED BY <3>3, <3>4, QueryType
  <2> HIDE DEF a
  <2> QED BY <1>1, <2>1, <2>2, <2>3, <2>4, SilentOrderly, AnsweredOrderly
<1>4. CASE DbDisconnect
  <2>1. DbRequest("disconnect")
    BY <1>4 DEF DbDisconnect
  <2>2. c' = Answered(Plain("disconnect"), "ended") \/ c' = Silent("open")
    BY <1>4 DEF DbDisconnect, Becomes
  <2> QED BY <1>1, <2>1, <2>2, SilentOrderly, AnsweredOrderly
<1>5. CASE DbJunk
  BY <1>5, SilentOrderly DEF DbJunk, Becomes
<1> QED BY <1>2, <1>3, <1>4, <1>5 DEF Session

LEMMA BreakOrderly ==
    ASSUME CInv, Orderly(c), Break
    PROVE  Orderly(c')
<1> DEFINE u == [c EXCEPT !.peer = "none", !.toDb = <<>>, !.toClient = <<>>]
<1>1. c \in ClientType
  BY CInvParts DEF Kept, Wired
<1>2. c' = u
  BY DEF Break
<1>3. /\ u.sock = c.sock /\ u.pend = c.pend /\ u.ready = c.ready /\ u.buf = c.buf
      /\ u.toDb = <<>> /\ u.toClient = <<>>
  BY <1>1, Zenon DEF ClientType
<1>4. SameProgress(c, u)
  BY <1>1, Zenon DEF ClientType, SameProgress
<1> HIDE DEF u
<1> QED BY <1>2, <1>3, <1>4, LineOrderly DEF Clear

LEMMA UpdateTimerOrderly ==
    ASSUME CInv, Orderly(c), UpdateTimer, Idle
    PROVE  Orderly(c')
<1> DEFINE u == [c EXCEPT !.queue = Tables]
<1>1. c \in ClientType /\ AtRest(c) /\ c.sock = "closed"
  BY CInvParts DEF Idle, Kept, Busy, Wired, AtRest
<1>2. Tables \in Seq(TableSet)
  BY ConstantsAssumption
<1>3. u \in ClientType
  BY <1>1, <1>2, Zenon DEF ClientType
<1>4. /\ u.sock = c.sock /\ u.pend = c.pend /\ u.ready = c.ready
      /\ u.skewed = c.skewed /\ u.resp = c.resp
  BY <1>1, Zenon DEF ClientType
<1>5. c' = Start(u)
  BY DEF UpdateTimer
<1> HIDE DEF u
<1>6. AtRest(u) /\ ~u.skewed /\ RightIn(u.resp)
  BY <1>1, <1>4 DEF AtRest, Orderly
<1> QED BY <1>1, <1>3, <1>4, <1>5, <1>6, StartOrderly

LEMMA CallbackRight ==
    ASSUME RightIn(tables), RightIn(used), NEW d \in Data, RightIn(d), Callback(d)
    PROVE  RightIn(tables') /\ RightIn(used')
<1>1. tables' \in {d, tables}
  BY DEF Callback, StartServers, UpdateDataCallback, UpdateData
<1>2. used' \in {used, tables'}
  BY DEF Callback, StartServers, UpdateDataCallback
<1> QED BY <1>1, <1>2

LEMMA NextOrderly ==
    ASSUME CInv, RInv, [Next]_vars
    PROVE  RInv'
<1>1. SUFFICES ASSUME overlaps' = 0
               PROVE  Orderly(c') /\ RightIn(tables') /\ RightIn(used')
  BY DEF RInv
<1>2. overlaps = 0 /\ (UpdateTimer => Idle)
  <2>1. overlaps \in Nat
    BY CInvParts DEF CountersTyped
  <2>2. \/ overlaps' = overlaps /\ ~UpdateTimer
        \/ UpdateTimer /\ overlaps' = IF Idle THEN overlaps ELSE overlaps + 1
    BY DEF Next, vars, Handler, Reactor, Session, UpdateTimer, HandlerError, HandlerConnect,
           SendCommand, SendRest, SendWraps, ReciveCommand, Connected, PendingSend, Receive,
           PendingFails, Refused, DbConnect, DbQuery, DbDisconnect, DbJunk, Break, DbChanges,
           Becomes, Fault
  <2> QED BY <1>1, <2>1, <2>2
<1>3. Orderly(c) /\ RightIn(tables) /\ RightIn(used)
  BY <1>2 DEF RInv
<1>4. CASE ReciveCommand
  <2>1. Orderly(c') /\ (NoCallback \/ \E d \in Data : RightIn(d) /\ Callback(d))
    BY <1>3, <1>4, ReciveCommandOrderly
  <2> QED BY <1>3, <2>1, CallbackRight DEF NoCallback
<1>5. CASE HandlerConnect
  <2>1. c.resp \in Data
    BY CInvParts, ClientFields DEF Kept, Wired
  <2>2. NoCallback \/ Callback(c.resp)
    BY <1>5 DEF HandlerConnect
  <2> QED BY <1>3, <1>5, <2>1, <2>2, HandlerConnectOrderly, CallbackRight DEF NoCallback, Orderly
<1>6. CASE ~ReciveCommand /\ ~HandlerConnect
  <2>1. UNCHANGED <<tables, used>>
    BY <1>6 DEF Next, vars, Handler, Reactor, Session, UpdateTimer, HandlerError,
           SendCommand, SendRest, SendWraps, Connected, PendingSend, Receive,
           PendingFails, Refused, DbConnect, DbQuery, DbDisconnect, DbJunk, Break, DbChanges,
           NoCallback
  <2> SUFFICES Orderly(c')
    BY <1>3, <2>1
  <2>2. ~PendingSend
    BY <1>3, WaitingReceives DEF PendingSend
  <2>3. CASE UpdateTimer
    BY <1>2, <1>3, <2>3, UpdateTimerOrderly
  <2>4. CASE Handler
    BY <1>3, <1>6, <2>4, HandlerErrorOrderly, SendCommandOrderly, SendNotDisturbed DEF Handler
  <2>5. CASE Reactor \/ Refused
    BY <1>3, <2>2, <2>5, ConnectOrderly, PendingFailsOrderly, ReceiveOrderly DEF Reactor
  <2>6. CASE Session \/ Break
    BY <1>3, <2>6, SessionOrderly, BreakOrderly
  <2>7. CASE DbChanges \/ UNCHANGED vars
    BY <1>3, <2>7 DEF DbChanges, vars
  <2> QED BY <2>3, <2>4, <2>5, <2>6, <2>7 DEF Next
<1> QED BY <1>4, <1>5, <1>6

(* As long as no exchange of ClientDB is begun before the last has ended,  *)
(* the rows received, installed and used are those of the tables whose     *)
(* names they bear, wherever connections break, statements fail and        *)
(* connects are refused, and even if the rows of every table had all the   *)
(* fields asked of every other.                                            *)
THEOREM RightWhenAlone == Spec => []RightAlone
<1>1. Init => RInv
  <2> SUFFICES ASSUME Init PROVE RInv
    OBVIOUS
  <2>1. NewClient \in ClientType
    BY NewClientType
  <2>2. /\ NewClient.sock = "closed" /\ AtRest(NewClient) /\ ~NewClient.skewed
        /\ NewClient.resp = Nothing
    BY Zenon DEF NewClient, AtRest
  <2>3. RightIn(Nothing)
    BY DEF RightIn, Nothing, Absent
  <2>4. Orderly(c)
    BY <2>1, <2>2, <2>3, StartOrderly DEF Init
  <2> QED BY <2>3, <2>4 DEF Init, RInv
<1>2. RInv => RightAlone
  BY DEF RInv, RightAlone, Orderly
<1> QED BY <1>1, <1>2, NextOrderly, ClientKept, PTL DEF Spec
=============================================================================
