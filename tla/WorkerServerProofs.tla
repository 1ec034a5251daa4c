------------------------- MODULE WorkerServerProofs -------------------------
(* Proofs about WorkerServer, for every set of workers and requests and    *)
(* every number of connections.                                            *)
EXTENDS WorkerServer, FiniteSetTheorems, TLAPS

(* What is needed besides the two properties of a session: the timer that  *)
(* gives it up runs only while the last ping is unanswered.                *)
Armed(r) == r.deadT => ~r.pingSuccess

(* The part of the inductive invariant that concerns one session.          *)
Good(r) == r \in SessionType /\ Watched(r) /\ Failing(r) /\ Armed(r)

(* The inductive invariant. *)
IInv == TypeOK /\ \A s \in Sessions : Good(sess[s])

-----------------------------------------------------------------------------
(* Values of the parts of a session.                                       *)

LEMMA PlainType == \A t \in {"none", "ping", "connectOk", "connectFail", "junk",
                             "err", "connect", "pong"} : Plain(t) \in Msg
BY DEF Plain, Msg

LEMMA EmptyQueue == <<>> \in Queue
BY DEF Queue

LEMMA QueueFacts ==
    ASSUME NEW q \in Queue, NEW m \in Msg
    PROVE  /\ <<m>> \in Queue
           /\ Append(q, m) \in Queue
           /\ q # <<>> => Tail(q) \in Queue /\ Head(q) \in Msg
BY DEF Queue

LEMMA AbortedType ==
    ASSUME NEW a \in BOOLEAN, NEW Q \in Waits
    PROVE  /\ Aborted(a, Q) \in Waits
           /\ Q \subseteq Aborted(a, Q)
BY DEF Aborted, Waits

(* A step that leaves the timers, the sends and the flags of a session     *)
(* alone leaves it good.                                                   *)
Alike(r, u) ==
    /\ u.live = r.live /\ u.pingT = r.pingT /\ u.pingQ = r.pingQ
    /\ u.deadT = r.deadT /\ u.deadQ = r.deadQ
    /\ u.pingSuccess = r.pingSuccess /\ u.open = r.open /\ u.sends = r.sends

LEMMA SameGood ==
    ASSUME NEW r, NEW u \in SessionType, Good(r), Alike(r, u)
    PROVE  Good(u)
BY DEF Good, Watched, Failing, Armed, Alike

-----------------------------------------------------------------------------
(* What the handlers do to a session.                                      *)

LEMMA StopGood ==
    ASSUME NEW r \in SessionType
    PROVE  Good(Stop(r))
<1>1. Stop(r) \in SessionType
  <2>1. Aborted(r.pingT, r.pingQ) \in Waits /\ Aborted(r.deadT, r.deadQ) \in Waits
    BY AbortedType DEF SessionType
  <2>. QED
    BY <2>1, Zenon DEF Stop, SessionType
<1>2. ~Stop(r).live /\ ~Stop(r).deadT
  BY DEF Stop, SessionType
<1>. QED
  BY <1>1, <1>2 DEF Good, Watched, Failing, Armed

LEMMA NewGood == Good(NewSession)
<1>1. NewSession \in SessionType
  <2>1. Plain("none") \in Msg /\ {} \in Waits /\ 0 \in Nat
    BY PlainType DEF Waits
  <2>. QED
    BY <2>1, EmptyQueue, Zenon DEF NewSession, SessionType
<1>. QED
  BY <1>1 DEF Good, NewSession, Watched, Failing, Armed

LEMMA SendGood ==
    ASSUME NEW r \in SessionType, NEW m \in Msg, Watched(r), Armed(r)
    PROVE  Good(AsyncSend(r, m))
<1>. DEFINE a == Append(r.sends, IF r.open THEN m ELSE Plain("err"))
            b == IF r.open /\ r.peer = "open" THEN Append(r.toWorker, m) ELSE r.toWorker
<1>1. a \in Queue /\ b \in Queue
  BY QueueFacts, PlainType DEF SessionType
<1>2. AsyncSend(r, m) = [r EXCEPT !.buf = m, !.sends = a, !.toWorker = b]
  BY DEF AsyncSend
<1>3. AsyncSend(r, m) \in SessionType
  <2>. HIDE DEF a, b
  <2>. QED
    BY <1>1, <1>2, Zenon DEF SessionType
<1>4. Watched(AsyncSend(r, m)) /\ Armed(AsyncSend(r, m))
  BY DEF AsyncSend, SessionType, Watched, Armed
<1>5. Failing(AsyncSend(r, m))
  <2>. SUFFICES ASSUME ~r.open
                PROVE  \E i \in DOMAIN AsyncSend(r, m).sends :
                          AsyncSend(r, m).sends[i].t = "err"
    BY DEF Failing, AsyncSend, SessionType
  <2>1. AsyncSend(r, m).sends = Append(r.sends, Plain("err"))
    BY DEF AsyncSend, SessionType
  <2>2. r.sends \in Seq(Msg)
    BY DEF SessionType, Queue
  <2>3. /\ Len(r.sends) + 1 \in DOMAIN Append(r.sends, Plain("err"))
        /\ Append(r.sends, Plain("err"))[Len(r.sends) + 1] = Plain("err")
    BY <2>2
  <2>. QED
    BY <2>1, <2>3 DEF Plain
<1>. QED
  BY <1>3, <1>4, <1>5 DEF Good

LEMMA PopType ==
    ASSUME NEW r \in SessionType, r.json # <<>>
    PROVE  /\ Pop(r) \in SessionType
           /\ [Pop(r) EXCEPT !.id = r.owner] \in SessionType
           /\ [Pop(r) EXCEPT !.id = r.owner, !.live = TRUE] \in SessionType
           /\ [Pop(r) EXCEPT !.pingSuccess = TRUE] \in SessionType
<1>1. Tail(r.json) \in Queue
  BY DEF SessionType, Queue
<1>2. Pop(r) \in SessionType
  BY <1>1 DEF Pop, SessionType
<1>3. Pop(r).owner = r.owner
  BY DEF Pop, SessionType
<1>. QED
  BY <1>2, <1>3, Zenon DEF SessionType

LEMMA ArmPingGood ==
    ASSUME NEW r \in SessionType
    PROVE  ArmPing(r) \in SessionType /\ Watched(ArmPing(r)) /\ (Armed(r) => Armed(ArmPing(r)))
<1>1. Aborted(r.pingT, r.pingQ) \in Waits
  BY AbortedType DEF SessionType
<1>2. ArmPing(r) \in SessionType
  BY <1>1, Zenon DEF ArmPing, SessionType
<1>. QED
  BY <1>2 DEF ArmPing, SessionType, Watched, Armed

LEMMA CancelDeadType ==
    ASSUME NEW r \in SessionType
    PROVE  CancelDead(r) \in SessionType /\ Armed(CancelDead(r))
<1>1. Aborted(r.deadT, r.deadQ) \in Waits
  BY AbortedType DEF SessionType
<1>2. CancelDead(r) \in SessionType
  BY <1>1, Zenon DEF CancelDead, SessionType
<1>. QED
  BY <1>2 DEF CancelDead, SessionType, Armed

LEMMA AutorizationGood ==
    ASSUME NEW r, Good(r), r.json # <<>>
    PROVE  Good(Autorization(r))
<1>. DEFINE u == [Pop(r) EXCEPT !.id = r.owner, !.live = TRUE]
            v == [Pop(r) EXCEPT !.id = r.owner]
<1>1. r \in SessionType /\ u \in SessionType /\ v \in SessionType
  BY PopType DEF Good
<1>2. Armed(u) /\ Armed(v) /\ Watched(v)
  BY <1>1 DEF Good, Pop, SessionType, Armed, Watched
<1>3. ArmPing(u) \in SessionType /\ Watched(ArmPing(u)) /\ Armed(ArmPing(u))
  BY <1>1, <1>2, ArmPingGood
<1>4. Plain("connectOk") \in Msg /\ Plain("connectFail") \in Msg
  BY PlainType
<1>5. Good(AsyncSend(ArmPing(u), Plain("connectOk")))
  BY <1>3, <1>4, SendGood
<1>6. Good(AsyncSend(v, Plain("connectFail")))
  BY <1>1, <1>2, <1>4, SendGood
<1>. QED
  BY <1>5, <1>6 DEF Autorization

LEMMA AnalizePingGood ==
    ASSUME NEW r, Good(r), r.json # <<>>
    PROVE  Good(AnalizePing(r))
<1>. DEFINE u == [Pop(r) EXCEPT !.pingSuccess = TRUE]
<1>1. u \in SessionType /\ r \in SessionType
  BY PopType DEF Good
<1>2. CancelDead(u) \in SessionType /\ Armed(CancelDead(u))
  BY <1>1, CancelDeadType
<1>3. AnalizePing(r) \in SessionType /\ Watched(AnalizePing(r)) /\ Armed(AnalizePing(r))
  BY <1>2, ArmPingGood DEF AnalizePing
<1>4. /\ AnalizePing(r).live = r.live /\ AnalizePing(r).open = r.open
      /\ AnalizePing(r).sends = r.sends
  BY <1>1 DEF AnalizePing, ArmPing, CancelDead, Pop, SessionType
<1>. QED
  BY <1>3, <1>4 DEF Good, Failing

LEMMA SendPingGood ==
    ASSUME NEW r \in SessionType
    PROVE  Good(SendPing(r))
<1>. DEFINE u == [r EXCEPT !.nextRecive = TRUE, !.pingSuccess = FALSE]
            c == CancelDead(u)
            d == [c EXCEPT !.deadT = TRUE]
<1>1. u \in SessionType
  BY Zenon DEF SessionType
<1>2. c \in SessionType
  BY <1>1, CancelDeadType
<1>3. d \in SessionType
  BY <1>2, Zenon DEF SessionType
<1>4. c.pingSuccess = FALSE
  BY <1>1 DEF CancelDead, SessionType
<1>5. Watched(d) /\ Armed(d)
  BY <1>2, <1>4 DEF Watched, Armed, SessionType
<1>. QED
  BY <1>3, <1>5, PlainType, SendGood DEF SendPing

LEMMA SendCmdGood ==
    ASSUME NEW r, Good(r), NEW q \in Requests
    PROVE  Good(SendCmd(r, q))
<1>. DEFINE u == [r EXCEPT !.callback = q, !.nextRecive = TRUE]
<1>1. u \in SessionType
  BY Zenon DEF SessionType, Good
<1>2. Watched(u) /\ Armed(u)
  BY DEF Good, SessionType, Watched, Armed
<1>3. [t |-> "cmd", q |-> q] \in Msg
  BY DEF Msg
<1>. QED
  BY <1>1, <1>2, <1>3, SendGood DEF SendCmd

-----------------------------------------------------------------------------
(* The steps of the system.                                                *)

LEMMA OnlyInv ==
    ASSUME IInv, NEW s \in Sessions, NEW r, Good(r), Only(s, r)
    PROVE  IInv'
<1>1. r \in SessionType /\ sess \in [Sessions -> SessionType]
  BY DEF Good, IInv, TypeOK
<1>2. sess' = [sess EXCEPT ![s] = r]
  BY DEF Only, Set
<1>3. sess' \in [Sessions -> SessionType]
  BY <1>1, <1>2
<1>4. \A x \in Sessions : Good(sess'[x])
  BY <1>1, <1>2 DEF IInv
<1>. QED
  BY <1>3, <1>4 DEF IInv, TypeOK, Only

(* The same for the steps that change other variables too.                 *)
LEMMA SetInv ==
    ASSUME IInv, NEW s \in Sessions, NEW r, Good(r), Set(s, r),
           vec' \in Seq(Sessions), busy' \in Sessions \cup {0}, skewed' \in BOOLEAN,
           started' \subseteq Requests, answered' \subseteq Requests
    PROVE  IInv'
<1>1. r \in SessionType /\ sess \in [Sessions -> SessionType]
  BY DEF Good, IInv, TypeOK
<1>2. sess' = [sess EXCEPT ![s] = r]
  BY DEF Set
<1>3. sess' \in [Sessions -> SessionType]
  BY <1>1, <1>2
<1>4. \A x \in Sessions : Good(sess'[x])
  BY <1>1, <1>2 DEF IInv
<1>. QED
  BY <1>3, <1>4 DEF IInv, TypeOK

LEMMA SessGood ==
    ASSUME IInv, NEW s \in Sessions
    PROVE  Good(sess[s]) /\ sess[s] \in SessionType
BY DEF IInv, Good

LEMMA ConnectInv ==
    ASSUME IInv, NEW w \in Workers, NEW s \in Sessions, Connect(w, s)
    PROVE  IInv'
<1>. DEFINE u == [NewSession EXCEPT !.owner = w, !.peer = "open", !.open = TRUE,
                                    !.toServer = <<Plain("connect")>>]
<1>1. <<Plain("connect")>> \in Queue
  BY PlainType, EmptyQueue, QueueFacts
<1>2. NewSession \in SessionType
  BY NewGood DEF Good
<1>3. u \in SessionType
  BY <1>1, <1>2, Zenon DEF SessionType
<1>4. ~u.live /\ ~u.deadT
  BY DEF NewSession
<1>5. Good(u)
  BY <1>3, <1>4 DEF Good, Watched, Failing, Armed
<1>. QED
  BY <1>5, OnlyInv DEF Connect

LEMMA WorkerReadsInv ==
    ASSUME IInv, NEW s \in Sessions, WorkerReads(s)
    PROVE  IInv'
<1>. DEFINE r == sess[s]
            m == Head(r.toWorker)
            c == [r EXCEPT !.toWorker = Tail(@)]
            reply(a) == [c EXCEPT !.toServer = Append(@, a)]
            becomes(p) == [c EXCEPT !.peer = p]
<1>1. Good(r) /\ r \in SessionType
  BY SessGood
<1>2. m \in Msg /\ Tail(r.toWorker) \in Queue
  <2>1. r.toWorker \in Queue /\ r.toWorker # <<>>
    BY <1>1 DEF SessionType, WorkerReads
  <2>. QED
    BY <2>1 DEF Queue
<1>3. c \in SessionType
  BY <1>1, <1>2, Zenon DEF SessionType
<1>4. Good(c)
  <2>1. Alike(r, c)
    BY <1>1 DEF SessionType, Alike
  <2>. QED
    BY <1>1, <1>3, <2>1, SameGood
<1>5. ASSUME NEW a \in Msg PROVE Good(reply(a))
  <2>1. Append(c.toServer, a) \in Queue
    BY <1>3, QueueFacts DEF SessionType
  <2>2. reply(a) \in SessionType
    BY <1>3, <2>1, Zenon DEF SessionType
  <2>. HIDE DEF c
  <2>3. Alike(c, reply(a))
    BY <1>3 DEF SessionType, Alike
  <2>. QED
    BY <1>4, <2>2, <2>3, SameGood
<1>6. ASSUME NEW p \in {"silent", "closed"} PROVE Good(becomes(p))
  <2>1. becomes(p) \in SessionType
    BY <1>3, Zenon DEF SessionType
  <2>. HIDE DEF c
  <2>2. Alike(c, becomes(p))
    BY <1>3 DEF SessionType, Alike
  <2>. QED
    BY <1>4, <2>1, <2>2, SameGood
<1>7. Plain("pong") \in Msg /\ [t |-> "answer", q |-> m.q] \in Msg
  <2>1. m.q \in Requests \cup {NoRequest}
    BY <1>2 DEF Msg
  <2>. QED
    BY <2>1, PlainType DEF Msg
<1>8. \/ Only(s, reply(Plain("pong")))
      \/ Only(s, reply([t |-> "answer", q |-> m.q]))
      \/ Only(s, c)
      \/ Only(s, becomes("closed"))
      \/ Only(s, becomes("silent"))
  BY DEF WorkerReads
<1>. HIDE DEF reply, becomes, c, m, r
<1>. QED
  BY <1>4, <1>5, <1>6, <1>7, <1>8, OnlyInv

LEMMA WorkerFailsInv ==
    ASSUME IInv, NEW s \in Sessions, WorkerSilent(s) \/ WorkerCloses(s)
    PROVE  IInv'
<1>. DEFINE r == sess[s]
            u == [r EXCEPT !.peer = "silent"]
            v == [r EXCEPT !.peer = "closed", !.toWorker = <<>>]
<1>1. Good(r) /\ r \in SessionType
  BY SessGood
<1>2. u \in SessionType /\ v \in SessionType
  BY <1>1, EmptyQueue, Zenon DEF SessionType
<1>3. Alike(r, u) /\ Alike(r, v)
  BY <1>1 DEF SessionType, Alike
<1>4. Good(u) /\ Good(v)
  BY <1>1, <1>2, <1>3, SameGood
<1>. QED
  BY <1>4, OnlyInv DEF WorkerSilent, WorkerCloses

LEMMA AcceptInv ==
    ASSUME IInv, NEW s \in Sessions, Accept(s) \/ AcceptError(s)
    PROVE  IInv'
<1>. DEFINE r == sess[s]
            u == [r EXCEPT !.accepted = TRUE, !.recv = 1]
            v == [NewSession EXCEPT !.accepted = TRUE, !.recv = 1, !.peer = "closed"]
<1>1. Good(r) /\ r \in SessionType /\ Good(NewSession) /\ NewSession \in SessionType
  BY SessGood, NewGood DEF Good
<1>2. 1 \in Nat
  OBVIOUS
<1>3. u \in SessionType /\ v \in SessionType
  BY <1>1, <1>2, Zenon DEF SessionType
<1>4. Alike(r, u) /\ Alike(NewSession, v)
  BY <1>1 DEF SessionType, Alike
<1>5. Good(u) /\ Good(v)
  BY <1>1, <1>3, <1>4, SameGood
<1>6. /\ Append(vec, s) \in Seq(Sessions) /\ busy \in Sessions \cup {0}
      /\ skewed \in BOOLEAN /\ started \subseteq Requests /\ answered \subseteq Requests
  BY DEF IInv, TypeOK
<1>7. /\ Set(s, u) \/ Set(s, v)
      /\ vec' = Append(vec, s)
      /\ UNCHANGED <<busy, skewed, started, answered>>
  BY DEF Accept, AcceptError
<1>. HIDE DEF u, v, r
<1>. QED
  BY <1>5, <1>6, <1>7, SetInv

LEMMA RemoveAtType ==
    ASSUME NEW S, NEW q \in Seq(S), NEW i \in DOMAIN q
    PROVE  RemoveAt(q, i) \in Seq(S)
<1>1. SubSeq(q, 1, i - 1) \in Seq(S) /\ SubSeq(q, i + 1, Len(q)) \in Seq(S)
  OBVIOUS
<1>. QED
  BY <1>1 DEF RemoveAt

LEMMA KillSessionInv ==
    ASSUME IInv, KillSession
    PROVE  IInv'
<1>1. CASE DeadPositions = {}
  BY <1>1 DEF KillSession, vars, IInv, TypeOK
<1>2. CASE DeadPositions # {}
  <2>1. PICK i \in DeadPositions :
          /\ Set(vec[i], Stop(sess[vec[i]]))
          /\ vec' = RemoveAt(vec, i)
          /\ UNCHANGED <<busy, skewed, started, answered>>
    BY <1>2 DEF KillSession
  <2>2. i \in DOMAIN vec /\ vec \in Seq(Sessions)
    BY DEF DeadPositions, IInv, TypeOK
  <2>3. vec[i] \in Sessions
    BY <2>2
  <2>4. Good(Stop(sess[vec[i]]))
    BY <2>3, SessGood, StopGood
  <2>5. vec' \in Seq(Sessions)
    BY <2>1, <2>2, RemoveAtType
  <2>6. /\ busy \in Sessions \cup {0} /\ skewed \in BOOLEAN
        /\ started \subseteq Requests /\ answered \subseteq Requests
    BY DEF IInv, TypeOK
  <2>. QED
    BY <2>1, <2>3, <2>4, <2>5, <2>6, SetInv
<1>. QED
  BY <1>1, <1>2

LEMMA ReactorInv ==
    ASSUME IInv, NEW s \in Sessions, Reactor(s)
    PROVE  IInv'
<1>. DEFINE r == sess[s]
<1>1. Good(r) /\ r \in SessionType
  BY SessGood
<1>2. CASE Accept(s)
  BY <1>2, AcceptInv
<1>3. CASE ReceiveFails(s)
  <2>. DEFINE u == [r EXCEPT !.recv = 0, !.recvError = TRUE]
  <2>1. 0 \in Nat
    OBVIOUS
  <2>2. u \in SessionType
    BY <1>1, <2>1, Zenon DEF SessionType
  <2>3. Alike(r, u)
    BY <1>1 DEF SessionType, Alike
  <2>4. Only(s, u)
    BY <1>3 DEF ReceiveFails
  <2>. QED
    BY <1>1, <2>2, <2>3, <2>4, SameGood, OnlyInv
<1>4. ASSUME NEW k \in 1..MaxChunk, ReceiveData(s, k) PROVE IInv'
  <2>. DEFINE g == SubSeq(r.toServer, 1, k)
              b == SubSeq(r.toServer, k + 1, Len(r.toServer))
              n == r.recv - 1
              u == [r EXCEPT !.recv = n, !.got = g, !.toServer = b]
  <2>1. n \in Nat
    BY <1>1, <1>4 DEF SessionType, ReceiveData
  <2>2. g \in Queue /\ b \in Queue
    <3>1. r.toServer \in Seq(Msg) /\ k \in Nat
      BY <1>1, ConstantsAssumption DEF SessionType, Queue
    <3>2. k <= Len(r.toServer)
      BY <1>4 DEF ReceiveData
    <3>. QED
      BY <3>1, <3>2 DEF Queue
  <2>3. Only(s, u)
    BY <1>4 DEF ReceiveData
  <2>. HIDE DEF g, b, n
  <2>4. u \in SessionType
    BY <1>1, <2>1, <2>2, Zenon DEF SessionType
  <2>5. Alike(r, u)
    BY <1>1 DEF SessionType, Alike
  <2>. QED
    BY <1>1, <2>3, <2>4, <2>5, SameGood, OnlyInv
<1>5. CASE PingExpires(s)
  <2>. DEFINE u == [r EXCEPT !.pingT = FALSE, !.pingQ = {"ok"}]
  <2>1. {"ok"} \in Waits
    BY DEF Waits
  <2>2. u \in SessionType
    BY <1>1, <2>1, Zenon DEF SessionType
  <2>3. Watched(u) /\ Failing(u) /\ Armed(u)
    BY <1>1 DEF SessionType, Good, Watched, Failing, Armed
  <2>4. Only(s, u)
    BY <1>5 DEF PingExpires
  <2>. QED
    BY <2>2, <2>3, <2>4, OnlyInv DEF Good
<1>6. CASE DeadExpires(s)
  <2>. DEFINE u == [r EXCEPT !.deadT = FALSE, !.deadQ = {"ok"}]
  <2>1. {"ok"} \in Waits
    BY DEF Waits
  <2>2. u \in SessionType
    BY <1>1, <2>1, Zenon DEF SessionType
  <2>3. r.deadT /\ ~r.pingSuccess
    BY <1>1, <1>6 DEF Good, Armed, DeadExpires
  <2>4. Watched(u) /\ Failing(u) /\ Armed(u)
    BY <1>1, <2>3 DEF SessionType, Good, Watched, Failing, Armed
  <2>5. Only(s, u)
    BY <1>6 DEF DeadExpires
  <2>. QED
    BY <2>2, <2>4, <2>5, OnlyInv DEF Good
<1>. QED
  BY <1>2, <1>3, <1>4, <1>5, <1>6 DEF Reactor

LEMMA ReciveInv ==
    ASSUME IInv, NEW s \in Sessions, ReciveError(s) \/ ReciveCommand(s)
    PROVE  IInv'
<1>. DEFINE r == sess[s]
<1>1. Good(r) /\ r \in SessionType
  BY SessGood
<1>2. CASE ReciveError(s)
  <2>1. [r EXCEPT !.recvError = FALSE] \in SessionType
    BY <1>1, Zenon DEF SessionType
  <2>2. Good(Stop([r EXCEPT !.recvError = FALSE]))
    BY <2>1, StopGood
  <2>. QED
    BY <1>2, <2>2, OnlyInv DEF ReciveError
<1>3. CASE ReciveCommand(s)
  <2>. DEFINE j == r.json \o r.got
              u == [r EXCEPT !.json = j, !.got = <<>>]
  <2>1. j \in Queue
    BY <1>1 DEF SessionType, Queue
  <2>2. /\ Set(s, u) /\ busy' = s
        /\ UNCHANGED <<vec, skewed, started, answered>>
    BY <1>3 DEF ReciveCommand
  <2>. HIDE DEF j
  <2>3. u \in SessionType
    BY <1>1, <2>1, EmptyQueue, Zenon DEF SessionType
  <2>4. Alike(r, u)
    BY <1>1 DEF SessionType, Alike
  <2>5. Good(u)
    BY <1>1, <2>3, <2>4, SameGood
  <2>6. /\ vec \in Seq(Sessions) /\ skewed \in BOOLEAN
        /\ started \subseteq Requests /\ answered \subseteq Requests
    BY DEF IInv, TypeOK
  <2>. HIDE DEF u
  <2>. QED
    BY <2>2, <2>5, <2>6, SetInv
<1>. QED
  BY <1>2, <1>3

LEMMA AnalizedGood ==
    ASSUME NEW s \in Sessions, NEW r, Good(r), Analized(s, r)
    PROVE  /\ \E u : Good(u) /\ Set(s, u)
           /\ busy' \in Sessions \cup {0}
<1>. DEFINE v == [r EXCEPT !.json = <<>>]
<1>1. v \in SessionType
  BY EmptyQueue, Zenon DEF SessionType, Good
<1>2. Alike(r, v)
  BY DEF SessionType, Alike, Good
<1>3. Good(v)
  BY <1>1, <1>2, SameGood
<1>4. Set(s, v) \/ Set(s, r)
  BY DEF Analized
<1>5. busy' \in Sessions \cup {0}
  BY DEF Analized
<1>. QED
  BY <1>3, <1>4, <1>5

LEMMA CommandAnalizeInv ==
    ASSUME IInv, NEW s \in Sessions, CommandAnalize(s)
    PROVE  IInv'
<1>. DEFINE r == sess[s]
<1>1. Good(r) /\ r \in SessionType /\ r.json # <<>>
  BY SessGood DEF CommandAnalize
<1>2. Good(AnalizePing(r)) /\ Good(Autorization(r))
  BY <1>1, AnalizePingGood, AutorizationGood
<1>3. Good(Pop(r))
  <2>1. Pop(r) \in SessionType
    BY <1>1, PopType
  <2>2. Alike(r, Pop(r))
    BY <1>1 DEF SessionType, Alike, Pop
  <2>. QED
    BY <1>1, <2>1, <2>2, SameGood
<1>4. \E u : Good(u) /\ Analized(s, u)
  BY <1>1, <1>2, <1>3 DEF CommandAnalize
<1>5. /\ \E u : Good(u) /\ Set(s, u)
      /\ busy' \in Sessions \cup {0}
  BY <1>4, AnalizedGood
<1>6. answered' \subseteq Requests
  <2>1. r.callback \in Requests \cup {NoRequest} /\ answered \subseteq Requests
    BY <1>1 DEF SessionType, IInv, TypeOK
  <2>2. answered' = answered \/ answered' = answered \cup ({r.callback} \ {NoRequest})
    BY DEF CommandAnalize
  <2>. QED
    BY <2>1, <2>2
<1>7. /\ vec' \in Seq(Sessions) /\ skewed' \in BOOLEAN /\ started' \subseteq Requests
  BY DEF CommandAnalize, IInv, TypeOK
<1>. QED
  BY <1>5, <1>6, <1>7, SetInv

LEMMA SendInv ==
    ASSUME IInv, NEW s \in Sessions,
           SendFails(s) \/ SendDone(s) \/ \E leak \in BOOLEAN : SendSkews(s, leak)
    PROVE  IInv'
<1>. DEFINE r == sess[s]
            q == Tail(r.sends)
<1>1. Good(r) /\ r \in SessionType
  BY SessGood
<1>2. r.sends \in Seq(Msg) /\ r.sends # <<>>
  BY <1>1 DEF SessionType, Queue, SendFails, SendDone, SendSkews
<1>3. q \in Queue
  BY <1>2 DEF Queue
<1>4. CASE SendFails(s)
  <2>1. [r EXCEPT !.sends = q] \in SessionType
    BY <1>1, <1>3, Zenon DEF SessionType
  <2>2. Good(Stop([r EXCEPT !.sends = q]))
    BY <2>1, StopGood
  <2>. QED
    BY <1>4, <2>2, OnlyInv DEF SendFails
<1>5. CASE SendDone(s)
  <2>. DEFINE n == IF r.nextRecive THEN r.recv + 1 ELSE r.recv
              u == [r EXCEPT !.sends = q, !.buf = Plain("none"), !.nextRecive = FALSE,
                             !.recv = n]
  <2>1. n \in Nat /\ Plain("none") \in Msg
    BY <1>1, PlainType DEF SessionType
  <2>2. Only(s, u)
    BY <1>5 DEF SendDone
  <2>3. ~r.open => \E i \in DOMAIN q : q[i].t = "err"
    <3>. SUFFICES ASSUME ~r.open PROVE \E i \in DOMAIN q : q[i].t = "err"
      OBVIOUS
    <3>1. r.live /\ r.sends[1].t # "err"
      BY <1>2, <1>5 DEF SendDone
    <3>2. PICK i \in DOMAIN r.sends : r.sends[i].t = "err"
      BY <1>1, <3>1 DEF Good, Failing
    <3>3. i \in 1..Len(r.sends) /\ i # 1
      BY <1>2, <3>1, <3>2
    <3>4. i - 1 \in DOMAIN q /\ q[i - 1] = r.sends[i]
      BY <1>2, <3>3
    <3>. QED
      BY <3>2, <3>4
  <2>. HIDE DEF n, q
  <2>4. u \in SessionType
    BY <1>1, <1>3, <2>1, Zenon DEF SessionType
  <2>5. Watched(u) /\ Armed(u)
    BY <1>1 DEF SessionType, Good, Watched, Armed
  <2>6. Failing(u)
    BY <1>1, <2>3 DEF SessionType, Failing
  <2>. QED
    BY <2>2, <2>4, <2>5, <2>6, OnlyInv DEF Good
<1>6. ASSUME NEW leak \in BOOLEAN, SendSkews(s, leak) PROVE IInv'
  <2>. DEFINE a == Append(q, Plain("err"))
              b == IF leak THEN Append(r.toWorker, Plain("junk")) ELSE r.toWorker
              u == [r EXCEPT !.sends = a, !.toWorker = b]
  <2>1. a \in Queue /\ b \in Queue
    BY <1>1, <1>3, PlainType, QueueFacts DEF SessionType
  <2>2. /\ Set(s, u) /\ skewed' = TRUE
        /\ UNCHANGED <<vec, busy, started, answered>>
    BY <1>6 DEF SendSkews
  <2>3. \E i \in DOMAIN a : a[i].t = "err"
    <3>1. q \in Seq(Msg)
      BY <1>3 DEF Queue
    <3>. HIDE DEF q
    <3>2. Len(q) + 1 \in DOMAIN a /\ a[Len(q) + 1] = Plain("err")
      BY <3>1
    <3>. QED
      BY <3>2 DEF Plain
  <2>. HIDE DEF a, b
  <2>4. u \in SessionType
    BY <1>1, <2>1, Zenon DEF SessionType
  <2>5. Watched(u) /\ Armed(u)
    BY <1>1 DEF SessionType, Good, Watched, Armed
  <2>6. Failing(u)
    BY <1>1, <2>3 DEF SessionType, Failing
  <2>7. /\ vec' \in Seq(Sessions) /\ busy' \in Sessions \cup {0} /\ skewed' \in BOOLEAN
        /\ started' \subseteq Requests /\ answered' \subseteq Requests
    BY <2>2 DEF IInv, TypeOK
  <2>8. Good(u)
    BY <2>4, <2>5, <2>6 DEF Good
  <2>. HIDE DEF u
  <2>. QED
    BY <2>2, <2>7, <2>8, SetInv
<1>. QED
  BY <1>4, <1>5, <1>6

LEMMA TimersInv ==
    ASSUME IInv, NEW s \in Sessions,
           Ping(s) \/ PingAborted(s) \/ \E e \in {"ok", "aborted"} : DeadPing(s, e)
    PROVE  IInv'
<1>. DEFINE r == sess[s]
<1>1. Good(r) /\ r \in SessionType
  BY SessGood
<1>2. CASE Ping(s)
  <2>. DEFINE w == r.pingQ \ {"ok"}
              u == [r EXCEPT !.pingQ = w]
  <2>1. w \in Waits
    BY <1>1 DEF SessionType, Waits
  <2>2. Only(s, IF u.live THEN SendPing(u) ELSE u)
    BY <1>2 DEF Ping
  <2>. HIDE DEF w
  <2>3. u \in SessionType
    BY <1>1, <2>1, Zenon DEF SessionType
  <2>4. Good(SendPing(u))
    BY <2>3, SendPingGood
  <2>5. CASE ~u.live
    <3>1. Watched(u) /\ Failing(u)
      BY <2>5 DEF Watched, Failing
    <3>2. Armed(u)
      BY <1>1 DEF SessionType, Good, Armed
    <3>3. Good(u) /\ Only(s, u)
      BY <2>2, <2>3, <2>5, <3>1, <3>2 DEF Good
    <3>. QED
      BY <3>3, OnlyInv
  <2>6. CASE u.live
    <3>1. Only(s, SendPing(u))
      BY <2>2, <2>6
    <3>. QED
      BY <2>4, <3>1, OnlyInv
  <2>. QED
    BY <2>5, <2>6
<1>3. CASE PingAborted(s)
  <2>. DEFINE w == r.pingQ \ {"aborted"}
  <2>1. w \in Waits
    BY <1>1 DEF SessionType, Waits
  <2>2. Only(s, Stop([r EXCEPT !.pingQ = w]))
    BY <1>3 DEF PingAborted
  <2>. HIDE DEF w
  <2>3. [r EXCEPT !.pingQ = w] \in SessionType
    BY <1>1, <2>1, Zenon DEF SessionType
  <2>. QED
    BY <2>2, <2>3, StopGood, OnlyInv
<1>4. ASSUME NEW e \in {"ok", "aborted"}, DeadPing(s, e) PROVE IInv'
  <2>. DEFINE w == r.deadQ \ {e}
              u == [r EXCEPT !.deadQ = w]
  <2>1. w \in Waits
    BY <1>1 DEF SessionType, Waits
  <2>2. Only(s, IF u.pingSuccess THEN u ELSE Stop(u))
    BY <1>4 DEF DeadPing
  <2>. HIDE DEF w
  <2>3. u \in SessionType
    BY <1>1, <2>1, Zenon DEF SessionType
  <2>4. CASE ~u.pingSuccess
    <3>1. Only(s, Stop(u)) /\ Good(Stop(u))
      BY <2>2, <2>3, <2>4, StopGood
    <3>. QED
      BY <3>1, OnlyInv
  <2>5. CASE u.pingSuccess
    <3>1. r.pingSuccess
      BY <1>1, <2>5 DEF SessionType
    <3>2. Watched(u) /\ Failing(u) /\ Armed(u)
      BY <1>1, <3>1 DEF SessionType, Good, Watched, Failing, Armed
    <3>3. Only(s, u) /\ Good(u)
      BY <2>2, <2>3, <2>5, <3>2 DEF Good
    <3>. QED
      BY <3>3, OnlyInv
  <2>. QED
    BY <2>4, <2>5
<1>. QED
  BY <1>2, <1>3, <1>4

LEMMA StartCommandInv ==
    ASSUME IInv, NEW s \in Sessions, NEW q \in Requests, StartCommand(s, q)
    PROVE  IInv'
<1>1. Good(sess[s])
  BY SessGood
<1>2. Good(SendCmd(sess[s], q))
  BY <1>1, SendCmdGood
<1>3. Set(s, SendCmd(sess[s], q)) \/ Set(s, sess[s])
  BY DEF StartCommand
<1>4. /\ vec' \in Seq(Sessions) /\ busy' \in Sessions \cup {0} /\ skewed' \in BOOLEAN
      /\ started' \subseteq Requests /\ answered' \subseteq Requests
  BY DEF IInv, TypeOK, StartCommand
<1>. QED
  BY <1>1, <1>2, <1>3, <1>4, SetInv

-----------------------------------------------------------------------------
LEMMA InitInv == Init => IInv
<1>. SUFFICES ASSUME Init PROVE IInv
  OBVIOUS
<1>1. NewSession \in SessionType
  BY NewGood DEF Good
<1>2. sess \in [Sessions -> SessionType]
  BY <1>1 DEF Init
<1>3. \A s \in Sessions : Good(sess[s])
  BY NewGood DEF Init
<1>4. vec \in Seq(Sessions)
  <2>1. <<>> \in Seq(Sessions)
    OBVIOUS
  <2>. QED
    BY <2>1 DEF Init
<1>5. busy \in Sessions \cup {0}
  BY DEF Init
<1>6. skewed \in BOOLEAN /\ started \subseteq Requests /\ answered \subseteq Requests
  BY DEF Init
<1>. QED
  BY <1>2, <1>3, <1>4, <1>5, <1>6 DEF IInv, TypeOK

LEMMA NextInv == IInv /\ [Next]_vars => IInv'
<1>. SUFFICES ASSUME IInv, [Next]_vars PROVE IInv'
  OBVIOUS
<1>1. CASE WorkerStep
  BY <1>1, ConnectInv, WorkerReadsInv, WorkerFailsInv DEF WorkerStep
<1>2. CASE KillSession
  BY <1>2, KillSessionInv
<1>3. ASSUME NEW s \in Sessions, Reactor(s) PROVE IInv'
  BY <1>3, ReactorInv
<1>4. ASSUME NEW s \in Sessions, Handler(s) PROVE IInv'
  BY <1>4, ReciveInv, CommandAnalizeInv, SendInv, TimersInv DEF Handler
<1>5. ASSUME NEW s \in Sessions, AcceptError(s) PROVE IInv'
  BY <1>5, AcceptInv
<1>6. ASSUME NEW s \in Sessions, NEW q \in Requests, StartCommand(s, q) PROVE IInv'
  BY <1>6, StartCommandInv
<1>7. CASE UNCHANGED vars
  <2>1. /\ sess' = sess /\ vec' = vec /\ busy' = busy
        /\ skewed' = skewed /\ started' = started /\ answered' = answered
    BY <1>7 DEF vars
  <2>2. TypeOK'
    BY <2>1 DEF IInv, TypeOK
  <2>3. \A s \in Sessions : Good(sess'[s])
    BY <2>1 DEF IInv
  <2>. QED
    BY <2>2, <2>3 DEF IInv
<1>. QED
  BY <1>1, <1>2, <1>3, <1>4, <1>5, <1>6, <1>7 DEF Next

LEMMA Inductive == Spec => []IInv
BY InitInv, NextInv, PTL DEF Spec

(* Every variable keeps to its type, whatever the workers do.              *)
THEOREM TypeCorrect == Spec => []TypeOK
<1>1. IInv => TypeOK
  BY DEF IInv
<1>. QED
  BY <1>1, Inductive, PTL

(* _autorization, _ping, _analizePing and stop never leave a live session  *)
(* with no timer that would notice that its worker is gone.                *)
THEOREM AlwaysMonitored == Spec => []Monitored
<1>1. IInv => Monitored
  BY DEF IInv, Monitored, Good
<1>. QED
  BY <1>1, Inductive, PTL

(* A session that became live on a closed socket has a failed send in its  *)
(* queue, whose handler _sendCommand stops it.                             *)
THEOREM NeverLiveClosed == Spec => []NoLiveClosed
<1>1. IInv => NoLiveClosed
  BY DEF IInv, NoLiveClosed, Good
<1>. QED
  BY <1>1, Inductive, PTL

-----------------------------------------------------------------------------
(* The second inductive invariant: whose turn it is.  From the moment a    *)
(* worker connects there is at most one token for a session: its connect   *)
(* message, a ping or pong on its way, an armed ping timer or a handler    *)
(* queued by its expiry.  Hence no timer is armed while its last wait is   *)
(* pending.                                                                *)
Turns == {"connect", "ping", "pong"}

Has(q) == \E i \in DOMAIN q : q[i].t \in Turns

Once(q) == \A i, j \in DOMAIN q : q[i].t \in Turns /\ q[j].t \in Turns => i = j

Due(r) == r.pingT \/ "ok" \in r.pingQ

OneTurn(r) ==
    /\ Once(r.toWorker) /\ Once(r.toServer) /\ Once(r.got) /\ Once(r.json)
    /\ Has(r.toWorker) => ~Has(r.toServer) /\ ~Has(r.got) /\ ~Has(r.json)
    /\ Has(r.toServer) => ~Has(r.got) /\ ~Has(r.json)
    /\ Has(r.got) => ~Has(r.json)
    /\ Due(r) => ~(Has(r.toWorker) \/ Has(r.toServer) \/ Has(r.got) \/ Has(r.json))
    /\ ~(r.pingT /\ "ok" \in r.pingQ)

(* Until its connect message is handled a session has used no timer.       *)
Fresh(r) ==
    Occurs("connect", r.toServer) \/ Occurs("connect", r.got) \/ Occurs("connect", r.json) =>
        r.pingQ = {} /\ r.deadQ = {} /\ ~r.pingT /\ ~r.deadT

(* NoSelfAbort, and what it needs of the handlers that are queued.         *)
Unaborted(r) ==
    r.live =>
        /\ "aborted" \notin r.pingQ
        /\ Due(r) => ~r.deadT
        /\ "ok" \in r.pingQ => r.deadQ = {}
        /\ "aborted" \in r.deadQ => r.pingSuccess

(* PingNotLost, with the queues apart.                                     *)
Carried(r) ==
    Kind = "mqtt" /\ r.live /\ r.open /\ r.deadT /\ r.peer = "open" =>
        \/ Occurs("ping", r.toWorker) \/ Occurs("pong", r.toServer)
        \/ Occurs("pong", r.got) \/ Occurs("pong", r.json)

Turning(r) == OneTurn(r) /\ Fresh(r) /\ Unaborted(r) /\ Carried(r)

TurnInv == \A s \in Sessions : Turning(sess[s])

(* Queues and the tokens in them.                                          *)

LEMMA OccursHas ==
    ASSUME NEW q \in Queue, NEW t \in Turns, Occurs(t, q)
    PROVE  Has(q)
BY DEF Occurs, Has

LEMMA EmptyTurn == ~Has(<<>>) /\ Once(<<>>) /\ \A t : ~Occurs(t, <<>>)
BY DEF Has, Once, Occurs

LEMMA AppendTurn ==
    ASSUME NEW q \in Queue, NEW m \in Msg
    PROVE  /\ Has(Append(q, m)) <=> Has(q) \/ m.t \in Turns
           /\ Once(q) /\ (m.t \in Turns => ~Has(q)) => Once(Append(q, m))
           /\ \A t : Occurs(t, Append(q, m)) <=> Occurs(t, q) \/ m.t = t
<1> DEFINE a == Append(q, m)
<1>1. /\ q \in Seq(Msg) /\ DOMAIN q = 1..Len(q) /\ DOMAIN a = 1..(Len(q) + 1)
      /\ a[Len(q) + 1] = m /\ \A i \in 1..Len(q) : a[i] = q[i]
  BY DEF Queue
<1>2. \A i \in DOMAIN a : i \in DOMAIN q \/ i = Len(q) + 1
  BY <1>1
<1>3. \A i \in DOMAIN q : i \in DOMAIN a /\ a[i] = q[i]
  BY <1>1
<1>4. Len(q) + 1 \in DOMAIN a
  BY <1>1
<1> HIDE DEF a
<1>5. Has(a) <=> Has(q) \/ m.t \in Turns
  BY <1>1, <1>2, <1>3, <1>4 DEF Has
<1>6. Once(q) /\ (m.t \in Turns => ~Has(q)) => Once(a)
  BY <1>1, <1>2, <1>3, <1>4 DEF Has, Once
<1>7. \A t : Occurs(t, a) <=> Occurs(t, q) \/ m.t = t
  BY <1>1, <1>2, <1>3, <1>4 DEF Occurs
<1> QED BY <1>5, <1>6, <1>7 DEF a

LEMMA TailTurn ==
    ASSUME NEW q \in Queue, q # <<>>
    PROVE  /\ Has(Tail(q)) => Has(q)
           /\ Head(q).t \in Turns => Has(q)
           /\ Once(q) => Once(Tail(q))
           /\ Once(q) /\ Head(q).t \in Turns => ~Has(Tail(q))
           /\ \A t : Occurs(t, Tail(q)) => Occurs(t, q)
           /\ \A t : Occurs(t, q) => Occurs(t, Tail(q)) \/ Head(q).t = t
<1> DEFINE b == Tail(q)
<1>1. /\ q \in Seq(Msg) /\ DOMAIN q = 1..Len(q) /\ Len(q) \in Nat /\ Len(q) >= 1
      /\ DOMAIN b = 1..(Len(q) - 1)
      /\ \A i \in DOMAIN b : b[i] = q[i + 1]
  BY DEF Queue
<1>2. Head(q) = q[1] /\ 1 \in DOMAIN q
  BY <1>1
<1>3. \A i \in DOMAIN b : i + 1 \in DOMAIN q /\ b[i] = q[i + 1] /\ i + 1 # 1 /\ i \in Int
  BY <1>1
<1>4. \A i \in DOMAIN q : i = 1 \/ (i - 1 \in DOMAIN b /\ b[i - 1] = q[i])
  BY <1>1
<1> HIDE DEF b
<1>5. (Has(b) => Has(q)) /\ (Head(q).t \in Turns => Has(q))
  BY <1>2, <1>3 DEF Has
<1>6. Once(q) => Once(b)
  <2> SUFFICES ASSUME Once(q), NEW i \in DOMAIN b, NEW j \in DOMAIN b,
                      b[i].t \in Turns, b[j].t \in Turns
               PROVE  i = j
    BY DEF Once
  <2>1. i + 1 = j + 1
    BY <1>3 DEF Once
  <2> QED BY <1>3, <2>1
<1>7. Once(q) /\ Head(q).t \in Turns => ~Has(b)
  BY <1>2, <1>3 DEF Once, Has
<1>8. \A t : Occurs(t, b) => Occurs(t, q)
  BY <1>3 DEF Occurs
<1>9. \A t : Occurs(t, q) => Occurs(t, b) \/ Head(q).t = t
  BY <1>2, <1>4 DEF Occurs
<1> QED BY <1>5, <1>6, <1>7, <1>8, <1>9 DEF b

LEMMA SplitTurn ==
    ASSUME NEW q \in Queue, NEW k \in Nat, k <= Len(q)
    PROVE  LET a == SubSeq(q, 1, k)
               b == SubSeq(q, k + 1, Len(q))
           IN  /\ (Has(a) => Has(q)) /\ (Has(b) => Has(q))
               /\ Once(q) => Once(a) /\ Once(b) /\ ~(Has(a) /\ Has(b))
               /\ \A t : Occurs(t, q) <=> Occurs(t, a) \/ Occurs(t, b)
<1> DEFINE a == SubSeq(q, 1, k)
           b == SubSeq(q, k + 1, Len(q))
<1>1. q \in Seq(Msg) /\ DOMAIN q = 1..Len(q) /\ Len(q) \in Nat
  BY DEF Queue
<1>2. DOMAIN a = 1..k /\ \A i \in 1..k : a[i] = q[i]
  BY <1>1
<1>3. DOMAIN b = 1..(Len(q) - k) /\ \A i \in 1..(Len(q) - k) : b[i] = q[i + k]
  BY <1>1
<1> HIDE DEF a, b
<1>4. \A i \in DOMAIN a : i \in DOMAIN q /\ a[i] = q[i] /\ i \in Int /\ i <= k
  BY <1>1, <1>2
<1>5. \A i \in DOMAIN b : i + k \in DOMAIN q /\ b[i] = q[i + k] /\ i \in Int /\ i + k > k
  BY <1>1, <1>3
<1>6. ASSUME NEW i \in DOMAIN q
      PROVE  \/ i \in DOMAIN a /\ a[i] = q[i]
             \/ i - k \in DOMAIN b /\ b[i - k] = q[i]
  <2>0. i \in 1..Len(q)
    BY <1>1
  <2>1. CASE i <= k
    BY <1>2, <2>0, <2>1
  <2>2. CASE i > k
    <3>1. i - k \in 1..(Len(q) - k) /\ (i - k) + k = i
      BY <1>1, <2>0, <2>2
    <3> QED BY <1>3, <3>1
  <2> QED BY <2>0, <2>1, <2>2
<1>7. (Has(a) => Has(q)) /\ (Has(b) => Has(q))
  BY <1>4, <1>5 DEF Has
<1>8. ASSUME Once(q) PROVE Once(a) /\ Once(b) /\ ~(Has(a) /\ Has(b))
  <2>1. Once(a)
    BY <1>4, <1>8 DEF Once
  <2>2. Once(b)
    <3> SUFFICES ASSUME NEW i \in DOMAIN b, NEW j \in DOMAIN b, b[i].t \in Turns, b[j].t \in Turns
                 PROVE  i = j
      BY DEF Once
    <3>1. i + k = j + k
      BY <1>5, <1>8 DEF Once
    <3> QED BY <1>5, <3>1
  <2>3. ~(Has(a) /\ Has(b))
    <3> SUFFICES ASSUME NEW i \in DOMAIN a, NEW j \in DOMAIN b, a[i].t \in Turns, b[j].t \in Turns
                 PROVE  FALSE
      BY DEF Has
    <3>1. i = j + k
      BY <1>4, <1>5, <1>8 DEF Once
    <3> QED BY <1>4, <1>5, <3>1
  <2> QED BY <2>1, <2>2, <2>3
<1>9. \A t : Occurs(t, q) <=> Occurs(t, a) \/ Occurs(t, b)
  BY <1>4, <1>5, <1>6 DEF Occurs
<1> QED BY <1>7, <1>8, <1>9 DEF a, b

LEMMA JoinTurn ==
    ASSUME NEW a \in Queue, NEW b \in Queue
    PROVE  /\ Has(a \o b) <=> Has(a) \/ Has(b)
           /\ Once(a) /\ Once(b) /\ ~(Has(a) /\ Has(b)) => Once(a \o b)
           /\ \A t : Occurs(t, a \o b) <=> Occurs(t, a) \/ Occurs(t, b)
<1> DEFINE q == a \o b
<1>1. /\ a \in Seq(Msg) /\ b \in Seq(Msg) /\ Len(a) \in Nat /\ Len(b) \in Nat
      /\ DOMAIN a = 1..Len(a) /\ DOMAIN b = 1..Len(b)
  BY DEF Queue
<1>2. DOMAIN q = 1..(Len(a) + Len(b))
  BY <1>1
<1>3. \A i \in DOMAIN a : i \in DOMAIN q /\ q[i] = a[i]
  BY <1>1, <1>2
<1>4. \A i \in DOMAIN b : i + Len(a) \in DOMAIN q /\ q[i + Len(a)] = b[i]
  BY <1>1, <1>2
<1>5. \A i \in DOMAIN q : \/ i \in DOMAIN a /\ q[i] = a[i]
                         \/ /\ i - Len(a) \in DOMAIN b /\ q[i] = b[i - Len(a)] /\ i \in Int
  BY <1>1, <1>2
<1> HIDE DEF q
<1>6. Has(q) <=> Has(a) \/ Has(b)
  BY <1>3, <1>4, <1>5 DEF Has
<1>7. ASSUME Once(a), Once(b), ~(Has(a) /\ Has(b)) PROVE Once(q)
  <2> SUFFICES ASSUME NEW i \in DOMAIN q, NEW j \in DOMAIN q, q[i].t \in Turns, q[j].t \in Turns
               PROVE  i = j
    BY DEF Once
  <2>1. CASE i \in DOMAIN a /\ j \in DOMAIN a /\ q[i] = a[i] /\ q[j] = a[j]
    BY <1>7, <2>1 DEF Once
  <2>2. CASE /\ i - Len(a) \in DOMAIN b /\ q[i] = b[i - Len(a)] /\ i \in Int
             /\ j - Len(a) \in DOMAIN b /\ q[j] = b[j - Len(a)] /\ j \in Int
    <3>1. i - Len(a) = j - Len(a)
      BY <1>7, <2>2 DEF Once
    <3> QED BY <1>1, <2>2, <3>1
  <2> QED BY <1>5, <1>7, <2>1, <2>2 DEF Has
<1>8. \A t : Occurs(t, q) <=> Occurs(t, a) \/ Occurs(t, b)
  BY <1>3, <1>4, <1>5 DEF Occurs
<1> QED BY <1>6, <1>7, <1>8 DEF q

-----------------------------------------------------------------------------
(* What the handlers do to the tokens of a session.                        *)

LEMMA QueuesTyped ==
    ASSUME NEW r \in SessionType
    PROVE  r.toWorker \in Queue /\ r.toServer \in Queue /\ r.got \in Queue /\ r.json \in Queue
BY DEF SessionType

SameTimers(r, u) ==
    /\ u.live = r.live /\ u.open = r.open /\ u.pingSuccess = r.pingSuccess
    /\ u.pingT = r.pingT /\ u.pingQ = r.pingQ /\ u.deadT = r.deadT /\ u.deadQ = r.deadQ

SameMail(r, u) ==
    /\ u.toWorker = r.toWorker /\ u.toServer = r.toServer
    /\ u.got = r.got /\ u.json = r.json /\ u.peer = r.peer

LEMMA SameTurning ==
    ASSUME NEW r, NEW u, Turning(r), SameTimers(r, u), SameMail(r, u)
    PROVE  Turning(u)
BY DEF Turning, OneTurn, Due, Fresh, Unaborted, Carried, SameTimers, SameMail

LEMMA NewTurning == Turning(NewSession)
BY EmptyTurn DEF NewSession, Turning, OneTurn, Due, Fresh, Unaborted, Carried

LEMMA StopTurning ==
    ASSUME NEW r \in SessionType, Turning(r)
    PROVE  Turning(Stop(r))
<1> DEFINE u == Stop(r)
<1>1. /\ ~u.live /\ ~u.pingT /\ ~u.deadT
      /\ u.pingQ = Aborted(r.pingT, r.pingQ) /\ u.deadQ = Aborted(r.deadT, r.deadQ)
  BY DEF Stop, SessionType
<1>2. SameMail(r, u)
  BY DEF Stop, SessionType, SameMail
<1>3. "ok" \in u.pingQ => "ok" \in r.pingQ
  BY <1>1 DEF Aborted
<1> HIDE DEF u
<1>4. OneTurn(u)
  BY <1>1, <1>2, <1>3 DEF Turning, OneTurn, Due, SameMail
<1>5. Fresh(u)
  BY <1>1, <1>2 DEF Turning, Fresh, SameMail, Aborted
<1> QED BY <1>1, <1>4, <1>5 DEF Turning, Unaborted, Carried, u

LEMMA SendFields ==
    ASSUME NEW r \in SessionType, NEW m \in Msg
    PROVE  LET u == AsyncSend(r, m)
           IN  /\ SameTimers(r, u)
               /\ u.toServer = r.toServer /\ u.got = r.got /\ u.json = r.json /\ u.peer = r.peer
               /\ u.toWorker = IF r.open /\ r.peer = "open" THEN Append(r.toWorker, m)
                               ELSE r.toWorker
BY DEF AsyncSend, SessionType, SameTimers

LEMMA SendTurning ==
    ASSUME NEW r \in SessionType, NEW m \in Msg, Turning(r), m.t \notin Turns
    PROVE  Turning(AsyncSend(r, m))
<1> DEFINE u == AsyncSend(r, m)
<1>1. /\ SameTimers(r, u)
      /\ u.toServer = r.toServer /\ u.got = r.got /\ u.json = r.json /\ u.peer = r.peer
      /\ u.toWorker = Append(r.toWorker, m) \/ u.toWorker = r.toWorker
  BY SendFields
<1>2. r.toWorker \in Queue
  BY QueuesTyped
<1> HIDE DEF u
<1>3. /\ Has(u.toWorker) <=> Has(r.toWorker)
      /\ Once(r.toWorker) => Once(u.toWorker)
      /\ Occurs("ping", r.toWorker) => Occurs("ping", u.toWorker)
  <2> DEFINE q == Append(r.toWorker, m)
  <2>1. /\ Has(q) <=> Has(r.toWorker)
        /\ Once(r.toWorker) => Once(q)
        /\ Occurs("ping", r.toWorker) => Occurs("ping", q)
    BY <1>2, AppendTurn, Zenon
  <2> HIDE DEF q
  <2> QED BY <1>1, <2>1 DEF q
<1> QED BY <1>1, <1>3 DEF Turning, OneTurn, Due, Fresh, Unaborted, Carried, SameTimers, u

(* A message that carries no token, or connect, is taken off the queue.    *)
LEMMA PopFields ==
    ASSUME NEW r \in SessionType
    PROVE  LET u == Pop(r)
           IN  /\ SameTimers(r, u) /\ u.json = Tail(r.json) /\ u.toWorker = r.toWorker
               /\ u.toServer = r.toServer /\ u.got = r.got /\ u.peer = r.peer
BY DEF Pop, SessionType, SameTimers

LEMMA PopTurning ==
    ASSUME NEW r \in SessionType, Turning(r), r.json # <<>>, Head(r.json).t # "pong"
    PROVE  Turning(Pop(r))
<1> DEFINE u == Pop(r)
<1>1. /\ SameTimers(r, u) /\ u.json = Tail(r.json) /\ u.toWorker = r.toWorker
      /\ u.toServer = r.toServer /\ u.got = r.got /\ u.peer = r.peer
  BY PopFields
<1>2. r.json \in Queue
  BY QueuesTyped
<1> HIDE DEF u
<1>3. /\ Has(u.json) => Has(r.json)
      /\ Once(r.json) => Once(u.json)
      /\ Occurs("connect", u.json) => Occurs("connect", r.json)
      /\ Occurs("pong", r.json) => Occurs("pong", u.json)
  BY <1>1, <1>2, TailTurn
<1> QED BY <1>1, <1>3 DEF Turning, OneTurn, Due, Fresh, Unaborted, Carried, SameTimers, u

(* The token at the head of the queue is the only one.                     *)
LEMMA HeadIsTurn ==
    ASSUME NEW r \in SessionType, Turning(r), r.json # <<>>, Head(r.json).t \in Turns
    PROVE  /\ ~Has(r.toWorker) /\ ~Has(r.toServer) /\ ~Has(r.got) /\ ~Has(Tail(r.json))
           /\ ~r.pingT /\ "ok" \notin r.pingQ
           /\ Head(r.json).t = "connect" => r.pingQ = {} /\ r.deadQ = {} /\ ~r.deadT
<1>1. r.json \in Queue
  BY QueuesTyped
<1>2. Has(r.json) /\ ~Has(Tail(r.json))
  BY <1>1, TailTurn DEF Turning, OneTurn
<1>3. Head(r.json).t = "connect" => Occurs("connect", r.json)
  <2>1. 1 \in DOMAIN r.json /\ Head(r.json) = r.json[1]
    BY <1>1 DEF Queue
  <2> QED BY <2>1 DEF Occurs
<1> QED BY <1>2, <1>3 DEF Turning, OneTurn, Due, Fresh

(* Without a token on its way anywhere only the timers matter.             *)
LEMMA Tokenless ==
    ASSUME NEW u \in SessionType,
           ~Has(u.toWorker), ~Has(u.toServer), ~Has(u.got), ~Has(u.json),
           ~(u.pingT /\ "ok" \in u.pingQ), Unaborted(u), Carried(u)
    PROVE  Turning(u)
<1>1. \A q \in Queue : ~Has(q) => Once(q) /\ ~Occurs("connect", q)
  BY DEF Has, Once, Occurs, Turns
<1> QED BY <1>1, QueuesTyped DEF Turning, OneTurn, Fresh

LEMMA AutorizationTurning ==
    ASSUME NEW r, Good(r), Turning(r), r.json # <<>>, Head(r.json).t = "connect"
    PROVE  Turning(Autorization(r))
<1> DEFINE u == [Pop(r) EXCEPT !.id = r.owner, !.live = TRUE]
           v == [Pop(r) EXCEPT !.id = r.owner]
           a == ArmPing(u)
<1>1. r \in SessionType /\ u \in SessionType /\ v \in SessionType
  BY PopType DEF Good
<1>2. Plain("connectOk") \in Msg /\ Plain("connectFail") \in Msg
  BY PlainType
<1>3. Plain("connectOk").t \notin Turns /\ Plain("connectFail").t \notin Turns
  BY DEF Plain, Turns
<1>4. Turning(AsyncSend(v, Plain("connectFail")))
  <2>1. Pop(r) \in SessionType /\ Turning(Pop(r))
    BY <1>1, PopType, PopTurning
  <2>2. SameTimers(Pop(r), v) /\ SameMail(Pop(r), v)
    BY <2>1 DEF SessionType, SameTimers, SameMail
  <2>3. Turning(v)
    BY <2>1, <2>2, SameTurning
  <2> QED BY <1>1, <1>2, <1>3, <2>3, SendTurning
<1>5. Turning(AsyncSend(a, Plain("connectOk")))
  <2>1. /\ ~Has(r.toWorker) /\ ~Has(r.toServer) /\ ~Has(r.got) /\ ~Has(Tail(r.json))
        /\ ~r.pingT /\ r.pingQ = {} /\ r.deadQ = {} /\ ~r.deadT
    BY <1>1, HeadIsTurn DEF Turns
  <2>2. /\ SameTimers(r, Pop(r)) /\ Pop(r).json = Tail(r.json) /\ Pop(r).toWorker = r.toWorker
        /\ Pop(r).toServer = r.toServer /\ Pop(r).got = r.got /\ Pop(r) \in SessionType
    BY <1>1, PopFields, PopType
  <2>3. /\ u.toWorker = r.toWorker /\ u.toServer = r.toServer /\ u.got = r.got
        /\ u.json = Tail(r.json) /\ u.pingT = r.pingT /\ u.pingQ = r.pingQ
        /\ u.deadT = r.deadT /\ u.deadQ = r.deadQ
    BY <2>2, Zenon DEF SessionType, SameTimers
  <2> HIDE DEF u
  <2>4. a \in SessionType
    BY <1>1, ArmPingGood
  <2>5. /\ a.toWorker = u.toWorker /\ a.toServer = u.toServer /\ a.got = u.got
        /\ a.json = u.json /\ a.pingQ = Aborted(u.pingT, u.pingQ)
        /\ a.deadT = u.deadT /\ a.deadQ = u.deadQ
    BY <1>1, Zenon DEF ArmPing, SessionType
  <2>6. a.pingQ = {}
    BY <2>1, <2>3, <2>5 DEF Aborted
  <2> HIDE DEF a
  <2>7. Unaborted(a) /\ Carried(a)
    BY <2>1, <2>3, <2>5, <2>6 DEF Unaborted, Carried, Due
  <2>8. Turning(a)
    BY <2>1, <2>3, <2>4, <2>5, <2>6, <2>7, Tokenless
  <2> QED BY <1>2, <1>3, <2>4, <2>8, SendTurning
<1> QED BY <1>4, <1>5 DEF Autorization

LEMMA AnalizePingTurning ==
    ASSUME NEW r, Good(r), Turning(r), r.json # <<>>, Head(r.json).t = "pong"
    PROVE  Turning(AnalizePing(r))
<1> DEFINE u == [Pop(r) EXCEPT !.pingSuccess = TRUE]
           c == CancelDead(u)
           a == ArmPing(c)
<1>1. r \in SessionType /\ u \in SessionType /\ c \in SessionType /\ a \in SessionType
  BY PopType, CancelDeadType, ArmPingGood DEF Good
<1>2. /\ ~Has(r.toWorker) /\ ~Has(r.toServer) /\ ~Has(r.got) /\ ~Has(Tail(r.json))
      /\ ~r.pingT /\ "ok" \notin r.pingQ
  BY <1>1, HeadIsTurn DEF Turns
<1>3. /\ SameTimers(r, Pop(r)) /\ Pop(r).json = Tail(r.json) /\ Pop(r).toWorker = r.toWorker
      /\ Pop(r).toServer = r.toServer /\ Pop(r).got = r.got /\ Pop(r) \in SessionType
  BY <1>1, PopFields, PopType
<1>4. /\ u.toWorker = r.toWorker /\ u.toServer = r.toServer /\ u.got = r.got
      /\ u.json = Tail(r.json) /\ u.pingT = r.pingT /\ u.pingQ = r.pingQ
      /\ u.live = r.live /\ u.pingSuccess = TRUE
  BY <1>3, Zenon DEF SessionType, SameTimers
<1> HIDE DEF u
<1>5. /\ c.toWorker = u.toWorker /\ c.toServer = u.toServer /\ c.got = u.got
      /\ c.json = u.json /\ c.pingT = u.pingT /\ c.pingQ = u.pingQ
      /\ c.live = u.live /\ c.pingSuccess = u.pingSuccess /\ c.deadT = FALSE
  BY <1>1, Zenon DEF CancelDead, SessionType
<1> HIDE DEF c
<1>6. /\ a.toWorker = c.toWorker /\ a.toServer = c.toServer /\ a.got = c.got
      /\ a.json = c.json /\ a.pingQ = Aborted(c.pingT, c.pingQ)
      /\ a.live = c.live /\ a.pingSuccess = c.pingSuccess /\ a.deadT = c.deadT
  BY <1>1, Zenon DEF ArmPing, SessionType
<1>7. a.pingQ = r.pingQ
  BY <1>2, <1>4, <1>5, <1>6 DEF Aborted
<1> HIDE DEF a
<1>8. Unaborted(a) /\ Carried(a)
  BY <1>2, <1>4, <1>5, <1>6, <1>7 DEF Unaborted, Carried, Turning
<1>9. Turning(a)
  BY <1>1, <1>2, <1>4, <1>5, <1>6, <1>7, <1>8, Tokenless
<1> QED BY <1>9 DEF AnalizePing, a, c, u

(* _ping, for a session r whose timer has expired.                         *)
LEMMA SendPingTurning ==
    ASSUME NEW r \in SessionType, Turning(r), r.live, "ok" \in r.pingQ,
           NEW w \in SessionType, w = [r EXCEPT !.pingQ = r.pingQ \ {"ok"}]
    PROVE  Turning(SendPing(w))
<1> DEFINE u == [w EXCEPT !.nextRecive = TRUE, !.pingSuccess = FALSE]
           c == CancelDead(u)
           d == [c EXCEPT !.deadT = TRUE]
           a == AsyncSend(d, Plain("ping"))
<1>1. u \in SessionType
  BY Zenon DEF SessionType
<1>2. c \in SessionType
  BY <1>1, CancelDeadType
<1>3. d \in SessionType
  BY <1>2, Zenon DEF SessionType
<1>4. /\ ~Has(r.toWorker) /\ ~Has(r.toServer) /\ ~Has(r.got) /\ ~Has(r.json)
      /\ ~r.pingT /\ ~r.deadT /\ r.deadQ = {} /\ "aborted" \notin r.pingQ
  BY DEF Turning, OneTurn, Due, Unaborted
<1>5. w.pingQ = r.pingQ \ {"ok"} /\ w.pingT = r.pingT /\ w.deadT = r.deadT /\ w.deadQ = r.deadQ
  BY DEF SessionType
<1>6. SameMail(r, w)
  BY DEF SessionType, SameMail
<1>7. /\ u.pingQ = w.pingQ /\ u.pingT = w.pingT /\ u.deadT = w.deadT /\ u.deadQ = w.deadQ
      /\ SameMail(w, u)
  BY Zenon DEF SessionType, SameMail
<1> HIDE DEF u
<1>8. /\ c.pingQ = u.pingQ /\ c.pingT = u.pingT /\ c.deadQ = Aborted(u.deadT, u.deadQ)
      /\ SameMail(u, c)
  BY <1>1, Zenon DEF CancelDead, SessionType, SameMail
<1> HIDE DEF c
<1>9. /\ d.pingQ = c.pingQ /\ d.pingT = c.pingT /\ d.deadQ = c.deadQ /\ SameMail(c, d)
  BY <1>2, Zenon DEF SessionType, SameMail
<1> HIDE DEF d
<1>10. d.deadQ = {}
  BY <1>4, <1>5, <1>7, <1>8, <1>9 DEF Aborted
<1>11. /\ ~Has(d.toWorker) /\ ~Has(d.toServer) /\ ~Has(d.got) /\ ~Has(d.json)
  BY <1>4, <1>6, <1>7, <1>8, <1>9 DEF SameMail
<1>12. ~d.pingT /\ d.pingQ = r.pingQ \ {"ok"}
  BY <1>4, <1>5, <1>7, <1>8, <1>9
<1>13. Plain("ping") \in Msg /\ Plain("ping").t = "ping" /\ "ping" \in Turns
  BY PlainType DEF Plain, Turns
<1>14. /\ SameTimers(d, a)
       /\ a.toServer = d.toServer /\ a.got = d.got /\ a.json = d.json /\ a.peer = d.peer
       /\ a.toWorker = IF d.open /\ d.peer = "open" THEN Append(d.toWorker, Plain("ping"))
                       ELSE d.toWorker
  BY <1>3, <1>13, SendFields
<1> HIDE DEF a
<1>15. /\ Once(d.toWorker) /\ Once(d.toServer) /\ Once(d.got) /\ Once(d.json)
       /\ ~Occurs("connect", d.toServer) /\ ~Occurs("connect", d.got)
       /\ ~Occurs("connect", d.json)
  BY <1>11 DEF Has, Once, Occurs, Turns
<1>16. CASE d.open /\ d.peer = "open"
  <2>1. d.toWorker \in Queue
    BY <1>3, QueuesTyped
  <2>2. Once(a.toWorker) /\ Occurs("ping", a.toWorker)
    BY <1>11, <1>13, <1>14, <1>15, <1>16, <2>1, AppendTurn
  <2> QED BY <1>4, <1>10, <1>11, <1>12, <1>14, <1>15, <2>2
          DEF Turning, OneTurn, Due, Fresh, Unaborted, Carried, SameTimers, a, SendPing, d, c, u
<1>17. CASE ~(d.open /\ d.peer = "open")
  <2>1. a.toWorker = d.toWorker
    BY <1>14, <1>17
  <2> QED BY <1>4, <1>10, <1>11, <1>12, <1>14, <1>15, <1>17, <2>1
          DEF Turning, OneTurn, Due, Fresh, Unaborted, Carried, SameTimers, a, SendPing, d, c, u
<1> QED BY <1>16, <1>17

LEMMA SendCmdTurning ==
    ASSUME NEW r \in SessionType, Turning(r), NEW q \in Requests
    PROVE  Turning(SendCmd(r, q))
<1> DEFINE u == [r EXCEPT !.callback = q, !.nextRecive = TRUE]
           m == [t |-> "cmd", q |-> q]
<1>1. u \in SessionType
  BY Zenon DEF SessionType
<1>2. SameTimers(r, u) /\ SameMail(r, u)
  BY DEF SessionType, SameTimers, SameMail
<1>3. Turning(u)
  BY <1>2, SameTurning
<1>4. m \in Msg /\ m.t \notin Turns
  BY DEF Msg, Turns
<1> HIDE DEF u, m
<1>5. Turning(AsyncSend(u, m))
  BY <1>1, <1>3, <1>4, SendTurning
<1> QED BY <1>5 DEF SendCmd, u, m

(* What SessionMarusia drops may be a token: the ping is then lost.        *)
LEMMA DropTurning ==
    ASSUME NEW r \in SessionType, Turning(r), Kind = "marusia"
    PROVE  Turning([r EXCEPT !.json = <<>>])
<1> DEFINE u == [r EXCEPT !.json = <<>>]
<1>1. /\ SameTimers(r, u) /\ u.json = <<>> /\ u.toWorker = r.toWorker
      /\ u.toServer = r.toServer /\ u.got = r.got
  BY Zenon DEF SessionType, SameTimers
<1> HIDE DEF u
<1>2. ~Has(u.json) /\ Once(u.json) /\ ~Occurs("connect", u.json)
  BY <1>1, EmptyTurn
<1>3. Turning(u)
  BY <1>1, <1>2 DEF Turning, OneTurn, Due, Fresh, Unaborted, Carried, SameTimers
<1> QED BY <1>3 DEF u

-----------------------------------------------------------------------------
(* The steps of the system, one by one.                                    *)

LEMMA TurnStep ==
    ASSUME IInv, TurnInv, NEW s \in Sessions, NEW u, Turning(u), Set(s, u)
    PROVE  TurnInv'
<1>1. sess \in [Sessions -> SessionType] /\ sess' = [sess EXCEPT ![s] = u]
  BY DEF IInv, TypeOK, Set
<1>2. \A x \in Sessions : sess'[x] = IF x = s THEN u ELSE sess[x]
  BY <1>1
<1>3. \A x \in Sessions : Turning(sess'[x])
  BY <1>2 DEF TurnInv
<1> QED BY <1>3 DEF TurnInv

LEMMA SessTurning ==
    ASSUME IInv, TurnInv, NEW s \in Sessions
    PROVE  Good(sess[s]) /\ sess[s] \in SessionType /\ Turning(sess[s])
BY SessGood DEF TurnInv

LEMMA ConnectTurn ==
    ASSUME IInv, TurnInv, NEW w \in Workers, NEW s \in Sessions, Connect(w, s)
    PROVE  TurnInv'
<1> DEFINE q == <<Plain("connect")>>
           u == [NewSession EXCEPT !.owner = w, !.peer = "open", !.open = TRUE,
                                   !.toServer = q]
<1>1. Set(s, u)
  BY DEF Connect, Only
<1>2. Once(q)
  BY DEF Once
<1> HIDE DEF q
<1>3. /\ u.toServer = q /\ u.toWorker = <<>> /\ u.got = <<>> /\ u.json = <<>>
      /\ ~u.live /\ ~u.pingT /\ ~u.deadT /\ u.pingQ = {} /\ u.deadQ = {}
  BY DEF NewSession
<1> HIDE DEF u
<1>4. Turning(u)
  BY <1>2, <1>3, EmptyTurn DEF Turning, OneTurn, Due, Fresh, Unaborted, Carried
<1> QED BY <1>1, <1>4, TurnStep

LEMMA WorkerReadsTurn ==
    ASSUME IInv, TurnInv, NEW s \in Sessions, WorkerReads(s)
    PROVE  TurnInv'
<1> DEFINE r == sess[s]
           m == Head(r.toWorker)
           b == Tail(r.toWorker)
           c == [r EXCEPT !.toWorker = b]
           reply(a) == [c EXCEPT !.toServer = Append(@, a)]
           becomes(p) == [c EXCEPT !.peer = p]
<1>1. r \in SessionType /\ Turning(r) /\ r.toWorker # <<>>
  BY SessTurning DEF WorkerReads
<1>2. r.toWorker \in Queue /\ r.toServer \in Queue
  BY <1>1, QueuesTyped
<1>3. /\ Has(b) => Has(r.toWorker)
      /\ m.t \in Turns => Has(r.toWorker) /\ ~Has(b)
      /\ Once(b)
      /\ Occurs("ping", r.toWorker) => Occurs("ping", b) \/ m.t = "ping"
  BY <1>1, <1>2, TailTurn DEF Turning, OneTurn
<1>4. b \in Queue /\ m \in Msg
  BY <1>1, <1>2 DEF Queue
<1>5. \/ m.t = "ping" /\ Set(s, reply(Plain("pong")))
      \/ m.t = "cmd" /\ Set(s, reply([t |-> "answer", q |-> m.q]))
      \/ m.t = "connectOk" /\ Set(s, c)
      \/ Set(s, becomes("closed"))
      \/ Set(s, becomes("silent"))
  BY DEF WorkerReads, Only
<1> HIDE DEF b, m, r
<1>6. c \in SessionType
  BY <1>1, <1>4, Zenon DEF SessionType
<1>7. /\ SameTimers(r, c) /\ c.toWorker = b /\ c.toServer = r.toServer
      /\ c.got = r.got /\ c.json = r.json /\ c.peer = r.peer
  BY <1>1, Zenon DEF SessionType, SameTimers
<1> HIDE DEF c
<1>8. CASE m.t = "ping" /\ Set(s, reply(Plain("pong")))
  <2> DEFINE u == reply(Plain("pong"))
             q == Append(r.toServer, Plain("pong"))
  <2>1. /\ SameTimers(c, u) /\ u.toWorker = c.toWorker /\ u.got = c.got
        /\ u.json = c.json /\ u.toServer = Append(c.toServer, Plain("pong"))
    BY <1>6, Zenon DEF SessionType, SameTimers
  <2>2. Plain("pong") \in Msg /\ Plain("pong").t = "pong"
    BY PlainType DEF Plain
  <2>3. Has(r.toWorker) /\ ~Has(b)
    BY <1>3, <1>8 DEF Turns
  <2>4. /\ ~Has(r.toServer) /\ ~Has(r.got) /\ ~Has(r.json) /\ ~r.pingT /\ "ok" \notin r.pingQ
    BY <1>1, <2>3 DEF Turning, OneTurn, Due
  <2>5. Once(q) /\ Occurs("pong", q) /\ (Occurs("connect", q) => Occurs("connect", r.toServer))
    <3>1. Once(r.toServer)
      BY <1>1 DEF Turning, OneTurn
    <3>2. /\ Once(r.toServer) /\ (Plain("pong").t \in Turns => ~Has(r.toServer)) => Once(q)
          /\ \A t : Occurs(t, q) <=> Occurs(t, r.toServer) \/ Plain("pong").t = t
      BY <1>2, <2>2, AppendTurn
    <3>3. "pong" # "connect"
      OBVIOUS
    <3> HIDE DEF q
    <3> QED BY <2>2, <2>4, <3>1, <3>2, <3>3
  <2> HIDE DEF u, q
  <2>6. u.toServer = q
    BY <1>7, <2>1 DEF q
  <2>7. Turning(u)
    BY <1>1, <1>3, <1>7, <2>1, <2>3, <2>4, <2>5, <2>6
       DEF Turning, OneTurn, Due, Fresh, Unaborted, Carried, SameTimers
  <2> QED BY <1>8, <2>7, TurnStep DEF u
<1>9. CASE m.t = "cmd" /\ Set(s, reply([t |-> "answer", q |-> m.q]))
  <2> DEFINE a == [t |-> "answer", q |-> m.q]
             u == reply(a)
             q == Append(r.toServer, a)
  <2>1. a \in Msg /\ a.t = "answer" /\ a.t \notin Turns
    BY <1>4 DEF Msg, Turns
  <2> HIDE DEF a
  <2>2. /\ SameTimers(c, u) /\ u.toWorker = c.toWorker /\ u.got = c.got /\ u.peer = c.peer
        /\ u.json = c.json /\ u.toServer = Append(c.toServer, a)
    BY <1>6, Zenon DEF SessionType, SameTimers
  <2>3. /\ Has(q) <=> Has(r.toServer)
        /\ Once(r.toServer) => Once(q)
        /\ \A t \in Turns : Occurs(t, q) <=> Occurs(t, r.toServer)
    BY <1>2, <2>1, AppendTurn
  <2>4. "pong" \in Turns /\ "connect" \in Turns
    BY DEF Turns
  <2> HIDE DEF u, q
  <2>5. u.toServer = q
    BY <1>7, <2>2 DEF q
  <2>6. OneTurn(u)
    BY <1>1, <1>3, <1>7, <2>2, <2>3, <2>5 DEF Turning, OneTurn, Due, SameTimers
  <2>7. Fresh(u) /\ Unaborted(u)
    BY <1>1, <1>7, <2>2, <2>3, <2>4, <2>5 DEF Turning, Fresh, Unaborted, Due, SameTimers
  <2>8. m.t # "ping"
    BY <1>9
  <2>9. Carried(u)
    BY <1>1, <1>3, <1>7, <2>2, <2>3, <2>4, <2>5, <2>8 DEF Turning, Carried, SameTimers
  <2> QED BY <1>9, <2>6, <2>7, <2>9, TurnStep DEF u, a, Turning
<1>10. CASE m.t = "connectOk" /\ Set(s, c)
  <2>1. Turning(c)
    BY <1>1, <1>3, <1>7, <1>10 DEF Turning, OneTurn, Due, Fresh, Unaborted, Carried, SameTimers
  <2> QED BY <1>10, <2>1, TurnStep
<1>11. ASSUME NEW p \in {"closed", "silent"}, Set(s, becomes(p)) PROVE TurnInv'
  <2> DEFINE u == becomes(p)
  <2>1. /\ SameTimers(c, u) /\ u.toWorker = c.toWorker /\ u.got = c.got
        /\ u.json = c.json /\ u.toServer = c.toServer /\ u.peer = p
    BY <1>6, Zenon DEF SessionType, SameTimers
  <2> HIDE DEF u
  <2>2. Turning(u)
    BY <1>1, <1>3, <1>7, <2>1 DEF Turning, OneTurn, Due, Fresh, Unaborted, Carried, SameTimers
  <2> QED BY <1>11, <2>2, TurnStep DEF u
<1> QED BY <1>5, <1>8, <1>9, <1>10, <1>11

LEMMA WorkerFailsTurn ==
    ASSUME IInv, TurnInv, NEW s \in Sessions, WorkerSilent(s) \/ WorkerCloses(s)
    PROVE  TurnInv'
<1> DEFINE r == sess[s]
           u == [r EXCEPT !.peer = "silent"]
           v == [r EXCEPT !.peer = "closed", !.toWorker = <<>>]
<1>1. r \in SessionType /\ Turning(r)
  BY SessTurning
<1>2. Set(s, u) \/ Set(s, v)
  BY DEF WorkerSilent, WorkerCloses, Only
<1>3. /\ SameTimers(r, u) /\ u.toWorker = r.toWorker /\ u.got = r.got
      /\ u.json = r.json /\ u.toServer = r.toServer /\ u.peer = "silent"
  BY <1>1, Zenon DEF SessionType, SameTimers
<1>4. /\ SameTimers(r, v) /\ v.toWorker = <<>> /\ v.got = r.got
      /\ v.json = r.json /\ v.toServer = r.toServer /\ v.peer = "closed"
  BY <1>1, Zenon DEF SessionType, SameTimers
<1> HIDE DEF u, v, r
<1>5. Turning(u)
  BY <1>1, <1>3 DEF Turning, OneTurn, Due, Fresh, Unaborted, Carried, SameTimers
<1>6. Turning(v)
  BY <1>1, <1>4, EmptyTurn DEF Turning, OneTurn, Due, Fresh, Unaborted, Carried, SameTimers
<1> QED BY <1>2, <1>5, <1>6, TurnStep

LEMMA AcceptTurn ==
    ASSUME IInv, TurnInv, NEW s \in Sessions, Accept(s) \/ AcceptError(s)
    PROVE  TurnInv'
<1> DEFINE r == sess[s]
           u == [r EXCEPT !.accepted = TRUE, !.recv = 1]
           v == [NewSession EXCEPT !.accepted = TRUE, !.recv = 1, !.peer = "closed"]
<1>1. r \in SessionType /\ Turning(r)
  BY SessTurning
<1>2. Set(s, u) \/ Set(s, v)
  BY DEF Accept, AcceptError
<1>3. SameTimers(r, u) /\ SameMail(r, u)
  BY <1>1, Zenon DEF SessionType, SameTimers, SameMail
<1>4. /\ v.toServer = <<>> /\ v.toWorker = <<>> /\ v.got = <<>> /\ v.json = <<>>
      /\ ~v.live /\ ~v.pingT /\ v.pingQ = {}
  BY DEF NewSession
<1> HIDE DEF r, u, v
<1>5. Turning(u)
  BY <1>1, <1>3, SameTurning
<1>6. Turning(v)
  BY <1>4, EmptyTurn DEF Turning, OneTurn, Due, Fresh, Unaborted, Carried
<1> QED BY <1>2, <1>5, <1>6, TurnStep

LEMMA KillSessionTurn ==
    ASSUME IInv, TurnInv, KillSession
    PROVE  TurnInv'
<1>1. CASE DeadPositions = {}
  BY <1>1 DEF KillSession, vars, TurnInv
<1>2. CASE DeadPositions # {}
  <2>1. PICK i \in DeadPositions : Set(vec[i], Stop(sess[vec[i]]))
    BY <1>2 DEF KillSession
  <2>2. vec[i] \in Sessions
    BY DEF DeadPositions, IInv, TypeOK
  <2>3. Turning(Stop(sess[vec[i]]))
    BY <2>2, SessTurning, StopTurning
  <2> QED BY <2>1, <2>2, <2>3, TurnStep
<1> QED BY <1>1, <1>2

LEMMA ReceiveTurn ==
    ASSUME IInv, TurnInv, NEW s \in Sessions, NEW k \in 1..MaxChunk, ReceiveData(s, k)
    PROVE  TurnInv'
<1> DEFINE r == sess[s]
           g == SubSeq(r.toServer, 1, k)
           b == SubSeq(r.toServer, k + 1, Len(r.toServer))
           u == [r EXCEPT !.recv = r.recv - 1, !.got = g, !.toServer = b]
<1>1. r \in SessionType /\ Turning(r) /\ r.got = <<>>
  BY SessTurning DEF ReceiveData
<1>2. Set(s, u)
  BY DEF ReceiveData, Only
<1>3. r.toServer \in Queue /\ k \in Nat /\ k <= Len(r.toServer)
  BY <1>1, QueuesTyped, ConstantsAssumption DEF ReceiveData
<1>4. /\ (Has(g) => Has(r.toServer)) /\ (Has(b) => Has(r.toServer))
      /\ Once(r.toServer) => Once(g) /\ Once(b) /\ ~(Has(g) /\ Has(b))
      /\ \A t : Occurs(t, r.toServer) <=> Occurs(t, g) \/ Occurs(t, b)
  BY <1>3, SplitTurn, Zenon
<1> HIDE DEF g, b
<1>5. /\ SameTimers(r, u) /\ u.toWorker = r.toWorker /\ u.json = r.json /\ u.peer = r.peer
      /\ u.got = g /\ u.toServer = b
  BY <1>1, Zenon DEF SessionType, SameTimers
<1> HIDE DEF r, u
<1>6. OneTurn(u)
  BY <1>1, <1>4, <1>5 DEF Turning, OneTurn, Due, SameTimers
<1>7. Fresh(u) /\ Unaborted(u)
  BY <1>1, <1>4, <1>5 DEF Turning, Fresh, Unaborted, Due, SameTimers
<1>8. Carried(u)
  BY <1>1, <1>4, <1>5, EmptyTurn DEF Turning, Carried, SameTimers
<1> QED BY <1>2, <1>6, <1>7, <1>8, TurnStep DEF Turning

LEMMA ReactorTurn ==
    ASSUME IInv, TurnInv, NEW s \in Sessions, Reactor(s)
    PROVE  TurnInv'
<1> DEFINE r == sess[s]
<1>1. Good(r) /\ r \in SessionType /\ Turning(r)
  BY SessTurning
<1>2. CASE Accept(s)
  BY <1>2, AcceptTurn
<1>3. CASE ReceiveFails(s)
  <2> DEFINE u == [r EXCEPT !.recv = 0, !.recvError = TRUE]
  <2>1. SameTimers(r, u) /\ SameMail(r, u)
    BY <1>1, Zenon DEF SessionType, SameTimers, SameMail
  <2>2. Set(s, u)
    BY <1>3 DEF ReceiveFails, Only
  <2> HIDE DEF u
  <2> QED BY <1>1, <2>1, <2>2, SameTurning, TurnStep
<1>4. ASSUME NEW k \in 1..MaxChunk, ReceiveData(s, k) PROVE TurnInv'
  BY <1>4, ReceiveTurn
<1>5. CASE PingExpires(s)
  <2> DEFINE u == [r EXCEPT !.pingT = FALSE, !.pingQ = {"ok"}]
  <2>1. Set(s, u) /\ r.pingT /\ r.deadQ = {}
    BY <1>5 DEF PingExpires, Only
  <2>2. /\ SameMail(r, u) /\ u.live = r.live /\ u.deadT = r.deadT /\ u.deadQ = r.deadQ
        /\ u.pingT = FALSE /\ u.pingQ = {"ok"}
    BY <1>1, Zenon DEF SessionType, SameMail
  <2>3. u \in SessionType
    <3>1. {"ok"} \in Waits
      BY DEF Waits
    <3> QED BY <1>1, <3>1, Zenon DEF SessionType
  <2> HIDE DEF u, r
  <2>4. /\ ~Has(u.toWorker) /\ ~Has(u.toServer) /\ ~Has(u.got) /\ ~Has(u.json)
        /\ r.live => ~r.deadT
    BY <1>1, <2>1, <2>2 DEF Turning, OneTurn, Due, Unaborted, SameMail
  <2>5. Unaborted(u) /\ Carried(u)
    BY <2>1, <2>2, <2>4 DEF Unaborted, Carried
  <2>6. Turning(u)
    BY <2>2, <2>3, <2>4, <2>5, Tokenless
  <2> QED BY <2>1, <2>6, TurnStep
<1>6. CASE DeadExpires(s)
  <2> DEFINE u == [r EXCEPT !.deadT = FALSE, !.deadQ = {"ok"}]
  <2>1. Set(s, u) /\ r.deadT /\ r.pingQ = {}
    BY <1>6 DEF DeadExpires, Only
  <2>2. /\ SameMail(r, u) /\ u.live = r.live /\ u.pingT = r.pingT /\ u.pingQ = r.pingQ
        /\ u.deadT = FALSE /\ u.deadQ = {"ok"}
    BY <1>1, Zenon DEF SessionType, SameMail
  <2> HIDE DEF u, r
  <2>3. Turning(u)
    BY <1>1, <2>1, <2>2 DEF Turning, OneTurn, Due, Fresh, Unaborted, Carried, SameMail
  <2> QED BY <2>1, <2>3, TurnStep
<1> QED BY <1>2, <1>3, <1>4, <1>5, <1>6 DEF Reactor

LEMMA ReciveTurn ==
    ASSUME IInv, TurnInv, NEW s \in Sessions, ReciveError(s) \/ ReciveCommand(s)
    PROVE  TurnInv'
<1> DEFINE r == sess[s]
<1>1. r \in SessionType /\ Turning(r)
  BY SessTurning
<1>2. CASE ReciveError(s)
  <2> DEFINE u == [r EXCEPT !.recvError = FALSE]
  <2>1. SameTimers(r, u) /\ SameMail(r, u) /\ u \in SessionType
    BY <1>1, Zenon DEF SessionType, SameTimers, SameMail
  <2>2. Set(s, Stop(u))
    BY <1>2 DEF ReciveError, Only
  <2> HIDE DEF u, r
  <2>3. Turning(Stop(u))
    BY <1>1, <2>1, SameTurning, StopTurning
  <2> QED BY <2>2, <2>3, TurnStep
<1>3. CASE ReciveCommand(s)
  <2> DEFINE j == r.json \o r.got
             u == [r EXCEPT !.json = j, !.got = <<>>]
  <2>1. Set(s, u)
    BY <1>3 DEF ReciveCommand
  <2>2. r.json \in Queue /\ r.got \in Queue
    BY <1>1, QueuesTyped
  <2>3. /\ Has(j) <=> Has(r.json) \/ Has(r.got)
        /\ Once(r.json) /\ Once(r.got) /\ ~(Has(r.json) /\ Has(r.got)) => Once(j)
        /\ \A t : Occurs(t, j) <=> Occurs(t, r.json) \/ Occurs(t, r.got)
    BY <2>2, JoinTurn, Zenon
  <2> HIDE DEF j
  <2>4. /\ SameTimers(r, u) /\ u.toWorker = r.toWorker /\ u.toServer = r.toServer
        /\ u.peer = r.peer /\ u.json = j /\ u.got = <<>>
    BY <1>1, Zenon DEF SessionType, SameTimers
  <2> HIDE DEF r, u
  <2>5. OneTurn(u)
    BY <1>1, <2>3, <2>4, EmptyTurn DEF Turning, OneTurn, Due, SameTimers
  <2>6. Fresh(u) /\ Unaborted(u)
    BY <1>1, <2>3, <2>4, EmptyTurn DEF Turning, Fresh, Unaborted, Due, SameTimers
  <2>7. Carried(u)
    BY <1>1, <2>3, <2>4 DEF Turning, Carried, SameTimers
  <2> QED BY <2>1, <2>5, <2>6, <2>7, TurnStep DEF Turning
<1> QED BY <1>2, <1>3

LEMMA CommandAnalizeTurn ==
    ASSUME IInv, TurnInv, NEW s \in Sessions, CommandAnalize(s)
    PROVE  TurnInv'
<1> DEFINE r == sess[s]
<1>1. Good(r) /\ r \in SessionType /\ Turning(r) /\ r.json # <<>>
  BY SessTurning DEF CommandAnalize
<1>2. Head(r.json).t = "pong" => AnalizePing(r) \in SessionType /\ Turning(AnalizePing(r))
  BY <1>1, AnalizePingTurning, AnalizePingGood DEF Good
<1>3. Head(r.json).t = "connect" => Autorization(r) \in SessionType /\ Turning(Autorization(r))
  BY <1>1, AutorizationTurning, AutorizationGood DEF Good
<1>4. Head(r.json).t = "answer" => Pop(r) \in SessionType /\ Turning(Pop(r))
  BY <1>1, PopType, PopTurning
<1>5. PICK u \in SessionType : Turning(u) /\ Analized(s, u)
  BY <1>1, <1>2, <1>3, <1>4 DEF CommandAnalize
<1>6. CASE Kind = "marusia"
  <2>1. Set(s, [u EXCEPT !.json = <<>>])
    BY <1>5, <1>6 DEF Analized
  <2> QED BY <1>5, <1>6, <2>1, DropTurning, TurnStep
<1>7. CASE Kind # "marusia"
  <2>1. Set(s, u)
    BY <1>5, <1>7 DEF Analized
  <2> QED BY <1>5, <2>1, TurnStep
<1> QED BY <1>6, <1>7

LEMMA SendHandlerTurn ==
    ASSUME IInv, TurnInv, NEW s \in Sessions,
           SendFails(s) \/ SendDone(s) \/ \E leak \in BOOLEAN : SendSkews(s, leak)
    PROVE  TurnInv'
<1> DEFINE r == sess[s]
           q == Tail(r.sends)
<1>1. r \in SessionType /\ Turning(r)
  BY SessTurning
<1>2. q \in Queue
  <2>1. r.sends \in Seq(Msg) /\ r.sends # <<>>
    BY <1>1 DEF SessionType, Queue, SendFails, SendDone, SendSkews
  <2> QED BY <2>1 DEF Queue
<1>3. CASE SendFails(s)
  <2> DEFINE u == [r EXCEPT !.sends = q]
  <2>1. Set(s, Stop(u))
    BY <1>3 DEF SendFails, Only
  <2> HIDE DEF q
  <2>2. SameTimers(r, u) /\ SameMail(r, u) /\ u \in SessionType
    BY <1>1, <1>2, Zenon DEF SessionType, SameTimers, SameMail
  <2> HIDE DEF u, r
  <2>3. Turning(Stop(u))
    BY <1>1, <2>2, SameTurning, StopTurning
  <2> QED BY <2>1, <2>3, TurnStep
<1>4. CASE SendDone(s)
  <2> DEFINE n == IF r.nextRecive THEN r.recv + 1 ELSE r.recv
             u == [r EXCEPT !.sends = q, !.buf = Plain("none"), !.nextRecive = FALSE,
                            !.recv = n]
  <2>1. Set(s, u)
    BY <1>4 DEF SendDone, Only
  <2> HIDE DEF q, n
  <2>2. SameTimers(r, u) /\ SameMail(r, u)
    BY <1>1, Zenon DEF SessionType, SameTimers, SameMail
  <2> HIDE DEF u, r
  <2> QED BY <1>1, <2>1, <2>2, SameTurning, TurnStep
<1>5. ASSUME NEW leak \in BOOLEAN, SendSkews(s, leak) PROVE TurnInv'
  <2> DEFINE a == Append(q, Plain("err"))
             j == Append(r.toWorker, Plain("junk"))
             b == IF leak THEN j ELSE r.toWorker
             u == [r EXCEPT !.sends = a, !.toWorker = b]
  <2>1. Set(s, u)
    BY <1>5 DEF SendSkews
  <2>2. r.toWorker \in Queue /\ Plain("junk") \in Msg /\ Plain("junk").t \notin Turns
    BY <1>1, QueuesTyped, PlainType DEF Plain, Turns
  <2>3. /\ Has(j) <=> Has(r.toWorker)
        /\ Once(r.toWorker) => Once(j)
        /\ Occurs("ping", r.toWorker) => Occurs("ping", j)
    BY <2>2, AppendTurn, Zenon
  <2> HIDE DEF j, a
  <2>4. /\ Has(b) <=> Has(r.toWorker)
        /\ Once(r.toWorker) => Once(b)
        /\ Occurs("ping", r.toWorker) => Occurs("ping", b)
    BY <2>3
  <2> HIDE DEF b
  <2>5. /\ SameTimers(r, u) /\ u.toWorker = b /\ u.toServer = r.toServer
        /\ u.got = r.got /\ u.json = r.json /\ u.peer = r.peer
    BY <1>1, Zenon DEF SessionType, SameTimers
  <2> HIDE DEF u, r
  <2>6. Turning(u)
    BY <1>1, <2>4, <2>5 DEF Turning, OneTurn, Due, Fresh, Unaborted, Carried, SameTimers
  <2> QED BY <2>1, <2>6, TurnStep
<1> QED BY <1>3, <1>4, <1>5

LEMMA TimersTurn ==
    ASSUME IInv, TurnInv, NEW s \in Sessions,
           Ping(s) \/ PingAborted(s) \/ \E e \in {"ok", "aborted"} : DeadPing(s, e)
    PROVE  TurnInv'
<1> DEFINE r == sess[s]
<1>1. Good(r) /\ r \in SessionType /\ Turning(r)
  BY SessTurning
<1>2. ASSUME NEW e \in {"ok", "aborted"}, NEW u, u = [r EXCEPT !.pingQ = @ \ {e}]
      PROVE  /\ u \in SessionType
             /\ SameMail(r, u) /\ u.live = r.live /\ u.open = r.open
             /\ u.pingSuccess = r.pingSuccess /\ u.pingT = r.pingT
             /\ u.deadT = r.deadT /\ u.deadQ = r.deadQ /\ u.pingQ = r.pingQ \ {e}
             /\ Turning(u)
  <2>1. r.pingQ \ {e} \in Waits
    BY <1>1 DEF SessionType, Waits
  <2>2. u \in SessionType
    BY <1>1, <1>2, <2>1, Zenon DEF SessionType
  <2>3. /\ SameMail(r, u) /\ u.live = r.live /\ u.open = r.open
        /\ u.pingSuccess = r.pingSuccess /\ u.pingT = r.pingT
        /\ u.deadT = r.deadT /\ u.deadQ = r.deadQ /\ u.pingQ = r.pingQ \ {e}
    BY <1>1, <1>2 DEF SessionType, SameMail
  <2> HIDE DEF r
  <2>4. Turning(u)
    BY <1>1, <2>3 DEF Turning, OneTurn, Due, Fresh, Unaborted, Carried, SameMail
  <2> QED BY <2>2, <2>3, <2>4
<1>3. CASE Ping(s)
  <2> DEFINE u == [r EXCEPT !.pingQ = @ \ {"ok"}]
  <2>1. Set(s, IF u.live THEN SendPing(u) ELSE u) /\ "ok" \in r.pingQ
    BY <1>3 DEF Ping, Only
  <2>2. u \in SessionType /\ u.live = r.live /\ Turning(u)
    BY <1>2
  <2>3. u = [r EXCEPT !.pingQ = r.pingQ \ {"ok"}]
    OBVIOUS
  <2> HIDE DEF u, r
  <2>4. CASE r.live
    <3>1. Turning(SendPing(u))
      BY <1>1, <2>1, <2>2, <2>3, <2>4, SendPingTurning
    <3> QED BY <2>1, <2>2, <2>4, <3>1, TurnStep
  <2>5. CASE ~r.live
    BY <2>1, <2>2, <2>5, TurnStep
  <2> QED BY <2>4, <2>5
<1>4. CASE PingAborted(s)
  <2> DEFINE u == [r EXCEPT !.pingQ = @ \ {"aborted"}]
  <2>1. Set(s, Stop(u))
    BY <1>4 DEF PingAborted, Only
  <2>2. u \in SessionType /\ Turning(u)
    BY <1>2
  <2> HIDE DEF u, r
  <2> QED BY <2>1, <2>2, StopTurning, TurnStep
<1>5. ASSUME NEW e \in {"ok", "aborted"}, DeadPing(s, e) PROVE TurnInv'
  <2> DEFINE w == r.deadQ \ {e}
             u == [r EXCEPT !.deadQ = w]
  <2>1. Set(s, IF u.pingSuccess THEN u ELSE Stop(u))
    BY <1>5 DEF DeadPing, Only
  <2>2. w \in Waits
    BY <1>1 DEF SessionType, Waits
  <2>3. u \in SessionType
    BY <1>1, <2>2, Zenon DEF SessionType
  <2>4. /\ SameMail(r, u) /\ u.live = r.live /\ u.open = r.open
        /\ u.pingSuccess = r.pingSuccess /\ u.pingT = r.pingT
        /\ u.deadT = r.deadT /\ u.pingQ = r.pingQ /\ u.deadQ = r.deadQ \ {e}
    BY <1>1 DEF SessionType, SameMail
  <2> HIDE DEF u, r, w
  <2>5. Turning(u)
    BY <1>1, <2>4 DEF Turning, OneTurn, Due, Fresh, Unaborted, Carried, SameMail
  <2>6. CASE u.pingSuccess
    BY <2>1, <2>5, <2>6, TurnStep
  <2>7. CASE ~u.pingSuccess
    <3>1. Turning(Stop(u))
      BY <2>3, <2>5, StopTurning
    <3> QED BY <2>1, <2>7, <3>1, TurnStep
  <2> QED BY <2>6, <2>7
<1> QED BY <1>3, <1>4, <1>5

LEMMA StartCommandTurn ==
    ASSUME IInv, TurnInv, NEW s \in Sessions, NEW q \in Requests, StartCommand(s, q)
    PROVE  TurnInv'
<1>1. Turning(sess[s]) /\ Turning(SendCmd(sess[s], q))
  BY SessTurning, SendCmdTurning
<1>2. Set(s, SendCmd(sess[s], q)) \/ Set(s, sess[s])
  BY DEF StartCommand
<1> QED BY <1>1, <1>2, TurnStep

-----------------------------------------------------------------------------
LEMMA InitTurn == Init => TurnInv
BY NewTurning DEF Init, TurnInv

LEMMA NextTurn == IInv /\ TurnInv /\ [Next]_vars => TurnInv'
<1> SUFFICES ASSUME IInv, TurnInv, [Next]_vars PROVE TurnInv'
  OBVIOUS
<1>1. CASE WorkerStep
  BY <1>1, ConnectTurn, WorkerReadsTurn, WorkerFailsTurn DEF WorkerStep
<1>2. CASE KillSession
  BY <1>2, KillSessionTurn
<1>3. ASSUME NEW s \in Sessions, Reactor(s) PROVE TurnInv'
  BY <1>3, ReactorTurn
<1>4. ASSUME NEW s \in Sessions, Handler(s) PROVE TurnInv'
  BY <1>4, ReciveTurn, CommandAnalizeTurn, SendHandlerTurn, TimersTurn DEF Handler
<1>5. ASSUME NEW s \in Sessions, AcceptError(s) PROVE TurnInv'
  BY <1>5, AcceptTurn
<1>6. ASSUME NEW s \in Sessions, NEW q \in Requests, StartCommand(s, q) PROVE TurnInv'
  BY <1>6, StartCommandTurn
<1>7. CASE UNCHANGED vars
  BY <1>7 DEF vars, TurnInv
<1> QED BY <1>1, <1>2, <1>3, <1>4, <1>5, <1>6, <1>7 DEF Next

LEMMA TurnInductive == Spec => []TurnInv
BY InitTurn, NextTurn, Inductive, PTL DEF Spec

(* _ping treats a cancelled wait as a dead worker, and so does _deadPing   *)
(* while the last ping is unanswered; yet _autorization, _analizePing and  *)
(* _ping, which arm and cancel the timers, never make the server stop a    *)
(* live session by itself.                                                 *)
THEOREM NeverSelfAborts == Spec => []NoSelfAbort
<1>1. TurnInv => NoSelfAbort
  BY DEF TurnInv, NoSelfAbort, Turning, Unaborted
<1> QED BY <1>1, TurnInductive, PTL

(* The loop of SessionMQTT::_commandAnalize handles everything that one    *)
(* receive returned, however many connections, commands and messages: an   *)
(* unanswered ping is on its way there or back.  (SessionMarusia handles   *)
(* the first message only, and drops the rest.)                            *)
THEOREM PingsNotLost ==
    ASSUME Kind = "mqtt"
    PROVE  Spec => []PingNotLost
<1>1. IInv /\ TurnInv => PingNotLost
  <2> SUFFICES ASSUME IInv, TurnInv, NEW s \in Sessions,
                      sess[s].live, sess[s].open, sess[s].deadT, sess[s].peer = "open"
               PROVE  \/ Occurs("ping", sess[s].toWorker)
                      \/ Occurs("pong", sess[s].toServer \o sess[s].got \o sess[s].json)
    BY DEF PingNotLost
  <2> DEFINE r == sess[s]
             a == r.toServer \o r.got
  <2>1. r \in SessionType /\ Turning(r)
    BY SessTurning
  <2>2. /\ r.toServer \in Queue /\ r.got \in Queue /\ r.json \in Queue
    BY <2>1, QueuesTyped
  <2>3. a \in Queue
    BY <2>2 DEF Queue
  <2>4. Occurs("pong", a) <=> Occurs("pong", r.toServer) \/ Occurs("pong", r.got)
    BY <2>2, JoinTurn
  <2>5. Occurs("pong", a \o r.json) <=> Occurs("pong", a) \/ Occurs("pong", r.json)
    BY <2>2, <2>3, JoinTurn
  <2>6. Carried(r)
    BY <2>1 DEF Turning
  <2> QED BY <2>4, <2>5, <2>6 DEF Carried
<1> QED BY <1>1, Inductive, TurnInductive, PTL
-----------------------------------------------------------------------------
(* The third inductive invariant: an answer that is expected has a receive.*)

(* Until its connect message is handled a session has sent nothing.        *)
Introduced(r) ==
    Occurs("connect", r.toServer) \/ Occurs("connect", r.got) \/ Occurs("connect", r.json) =>
        /\ ~r.live /\ ~r.nextRecive /\ r.sends = <<>> /\ r.toWorker = <<>>
        /\ Len(r.toServer) + Len(r.got) + Len(r.json) = 1

(* Only a session that was constructed receives or is live, and only a     *)
(* known worker's session is live: it is never refused.                    *)
Accepted(r) ==
    /\ r.recv > 0 \/ r.got # <<>> \/ r.json # <<>> \/ r.live => r.accepted
    /\ r.live => r.owner \in Known
    /\ Occurs("connectFail", r.toWorker) => r.owner \notin Known

(* A worker that has closed answers no more questions.                     *)
NoQuestion(r) == r.live /\ r.peer = "closed" => r.toWorker = <<>>

(* No send is of the empty buffer that _sendCommand leaves.                *)
Sending(r) == \A i \in DOMAIN r.sends : r.sends[i].t # "none"

(* What AnswersAreRead says of a session without a send and of one with a  *)
(* single send under way, or sends overlap: then _sendCommand compares     *)
(* lengths of different messages, and either fails or skews.               *)
Covered(r) ==
    r.live /\ r.open =>
        \/ r.sends = <<>> /\ ~r.nextRecive /\ Outstanding(r) <= r.recv
        \/ /\ r.sends = <<r.buf>>
           /\ Outstanding(r) <= r.recv + (IF r.nextRecive THEN 1 ELSE 0)
        \/ Len(r.sends) >= 2
        \/ r.sends # <<>> /\ r.buf.t = "none"

Reading(r) == Introduced(r) /\ Accepted(r) /\ NoQuestion(r) /\ Sending(r)

ReadInv ==
    /\ \A s \in Sessions : Reading(sess[s])
    /\ ~skewed => \A s \in Sessions : Covered(sess[s])

(* Counting the questions in a queue.                                      *)
Asks(m) == m.t \in {"ping", "cmd"}

Places(q) == {i \in DOMAIN q : Asks(q[i])}

Count(q) == Cardinality(Places(q))

LEMMA PlacesFinite ==
    ASSUME NEW q \in Queue
    PROVE  IsFiniteSet(Places(q)) /\ Count(q) \in Nat
<1>1. Len(q) \in Nat /\ DOMAIN q = 1..Len(q)
  BY DEF Queue
<1>2. IsFiniteSet(DOMAIN q)
  BY <1>1, FS_Interval
<1>3. IsFiniteSet(Places(q))
  BY <1>2, FS_Subset DEF Places
<1> QED BY <1>3, FS_CardinalityType DEF Count

LEMMA CountEmpty == Count(<<>>) = 0
<1>1. Places(<<>>) = {}
  BY DEF Places
<1> QED BY <1>1, FS_EmptySet DEF Count

LEMMA CountAppend ==
    ASSUME NEW q \in Queue, NEW m \in Msg
    PROVE  Count(Append(q, m)) = Count(q) + (IF Asks(m) THEN 1 ELSE 0)
<1> DEFINE a == Append(q, m)
           n == Len(q) + 1
<1>1. /\ q \in Seq(Msg) /\ Len(q) \in Nat /\ DOMAIN q = 1..Len(q) /\ DOMAIN a = 1..n
      /\ a[n] = m /\ \A i \in 1..Len(q) : a[i] = q[i]
  BY DEF Queue
<1>2. n \notin DOMAIN q /\ n \in DOMAIN a /\ \A i \in DOMAIN a : i \in DOMAIN q \/ i = n
  BY <1>1
<1>3. \A i \in DOMAIN q : i \in DOMAIN a /\ a[i] = q[i]
  BY <1>1
<1>4. a[n] = m
  BY <1>1
<1> HIDE DEF a, n
<1>5. IsFiniteSet(Places(q)) /\ Count(q) \in Nat /\ n \notin Places(q)
  BY <1>2, PlacesFinite DEF Places
<1>6. CASE Asks(m)
  <2>1. Places(a) = Places(q) \cup {n}
    BY <1>2, <1>3, <1>4, <1>6 DEF Places
  <2> QED BY <1>5, <1>6, <2>1, FS_AddElement DEF Count, a
<1>7. CASE ~Asks(m)
  <2>1. Places(a) = Places(q)
    BY <1>2, <1>3, <1>4, <1>7 DEF Places
  <2> QED BY <1>5, <1>7, <2>1 DEF Count, a
<1> QED BY <1>6, <1>7

LEMMA CountTail ==
    ASSUME NEW q \in Queue, q # <<>>
    PROVE  Count(q) = Count(Tail(q)) + (IF Asks(Head(q)) THEN 1 ELSE 0)
<1> DEFINE b == Tail(q)
           f == [i \in Places(b) |-> i + 1]
           T == Places(q) \ {1}
<1>1. /\ q \in Seq(Msg) /\ DOMAIN q = 1..Len(q) /\ Len(q) \in Nat /\ Len(q) >= 1
      /\ DOMAIN b = 1..(Len(q) - 1)
      /\ \A i \in DOMAIN b : b[i] = q[i + 1]
  BY DEF Queue
<1>2. Head(q) = q[1] /\ 1 \in DOMAIN q /\ b \in Queue
  BY <1>1 DEF Queue
<1>3. \A i \in DOMAIN b : i + 1 \in DOMAIN q /\ b[i] = q[i + 1] /\ i + 1 # 1 /\ i \in Int
  BY <1>1
<1>4. \A i \in DOMAIN q : i = 1 \/ (i - 1 \in DOMAIN b /\ b[i - 1] = q[i] /\ (i - 1) + 1 = i)
  BY <1>1
<1> HIDE DEF b
<1>5. f \in Bijection(Places(b), T)
  <2>1. \A i \in Places(b) : i + 1 \in T /\ i \in Int
    BY <1>3 DEF Places
  <2>2. \A j \in T : \E i \in Places(b) : i + 1 = j
    BY <1>4 DEF Places
  <2>3. f \in Injection(Places(b), T)
    BY <2>1 DEF Injection, IsInjective
  <2>4. f \in Surjection(Places(b), T)
    BY <2>1, <2>2 DEF Surjection
  <2> QED BY <2>3, <2>4 DEF Bijection
<1>6. ExistsBijection(Places(b), T)
  BY <1>5 DEF ExistsBijection
<1> HIDE DEF T, f
<1>7. IsFiniteSet(Places(b)) /\ Count(b) \in Nat /\ IsFiniteSet(Places(q)) /\ Count(q) \in Nat
  BY <1>2, PlacesFinite
<1>8. Cardinality(T) = Count(b)
  BY <1>6, <1>7, FS_Bijection DEF Count
<1>9. Cardinality(T) = IF 1 \in Places(q) THEN Count(q) - 1 ELSE Count(q)
  BY <1>7, FS_RemoveElement DEF Count, T
<1>10. 1 \in Places(q) <=> Asks(Head(q))
  BY <1>2 DEF Places
<1> QED BY <1>7, <1>8, <1>9, <1>10 DEF b

LEMMA OutstandingCount ==
    \A r : Outstanding(r) = Count(r.toWorker) + Len(r.toServer)
BY DEF Outstanding, Questions, Count, Places, Asks

-----------------------------------------------------------------------------
(* What the handlers do to a session's messages and receives.              *)

Unheard(r) ==
    Occurs("connect", r.toServer) \/ Occurs("connect", r.got) \/ Occurs("connect", r.json)

SameLink(r, u) ==
    /\ u.live = r.live /\ u.open = r.open /\ u.nextRecive = r.nextRecive
    /\ u.recv = r.recv /\ u.sends = r.sends /\ u.buf = r.buf
    /\ u.accepted = r.accepted /\ u.owner = r.owner

LEMMA SameReading ==
    ASSUME NEW r, NEW u, SameLink(r, u), SameMail(r, u)
    PROVE  (Reading(r) => Reading(u)) /\ (Covered(r) => Covered(u))
<1>1. Outstanding(u) = Outstanding(r)
  BY OutstandingCount DEF SameMail
<1> QED BY <1>1 DEF Reading, Introduced, Accepted, NoQuestion, Sending, Covered, SameLink, SameMail

LEMMA LinkTyped ==
    ASSUME NEW r \in SessionType
    PROVE  /\ r.sends \in Seq(Msg) /\ r.recv \in Nat /\ r.buf \in Msg
           /\ Count(r.toWorker) \in Nat /\ Len(r.toServer) \in Nat
           /\ Outstanding(r) \in Nat
<1>1. r.sends \in Seq(Msg) /\ r.recv \in Nat /\ r.buf \in Msg
  BY DEF SessionType, Queue
<1>2. Count(r.toWorker) \in Nat /\ Len(r.toServer) \in Nat
  BY QueuesTyped, PlacesFinite DEF Queue
<1> QED BY <1>1, <1>2, OutstandingCount

LEMMA NewReading == Reading(NewSession) /\ Covered(NewSession)
<1>1. /\ NewSession.toServer = <<>> /\ NewSession.toWorker = <<>> /\ NewSession.got = <<>>
      /\ NewSession.json = <<>> /\ NewSession.sends = <<>> /\ ~NewSession.live
      /\ NewSession.recv = 0
  BY DEF NewSession
<1> QED BY <1>1, EmptyTurn DEF Reading, Introduced, Accepted, NoQuestion, Sending, Covered

LEMMA StopReading ==
    ASSUME NEW r \in SessionType, Reading(r)
    PROVE  Reading(Stop(r)) /\ Covered(Stop(r))
<1> DEFINE u == Stop(r)
<1>1. /\ ~u.live /\ ~u.open /\ u.nextRecive = r.nextRecive /\ u.recv = r.recv
      /\ u.sends = r.sends /\ u.accepted = r.accepted /\ u.owner = r.owner
      /\ SameMail(r, u)
  BY DEF Stop, SessionType, SameMail
<1> HIDE DEF u
<1> QED BY <1>1 DEF Reading, Introduced, Accepted, NoQuestion, Sending, Covered, SameMail, u

LEMMA SendReading ==
    ASSUME NEW r \in SessionType, NEW m \in Msg, ~Unheard(r),
           Accepted(r), NoQuestion(r), Sending(r), m.t # "none",
           m.t = "connectFail" => r.owner \notin Known
    PROVE  Reading(AsyncSend(r, m))
<1> DEFINE u == AsyncSend(r, m)
           x == IF r.open THEN m ELSE Plain("err")
<1>1. /\ SameTimers(r, u)
      /\ u.toServer = r.toServer /\ u.got = r.got /\ u.json = r.json /\ u.peer = r.peer
      /\ u.toWorker = IF r.open /\ r.peer = "open" THEN Append(r.toWorker, m)
                      ELSE r.toWorker
  BY SendFields
<1>2. /\ u.recv = r.recv /\ u.accepted = r.accepted /\ u.owner = r.owner
      /\ u.sends = Append(r.sends, x)
  BY DEF AsyncSend, SessionType
<1>3. x \in Msg /\ x.t # "none"
  BY PlainType DEF Plain
<1>4. r.toWorker \in Queue /\ r.sends \in Seq(Msg)
  BY QueuesTyped, LinkTyped
<1> HIDE DEF u, x
<1>5. Introduced(u)
  BY <1>1 DEF Introduced, Unheard
<1>6. Accepted(u)
  <2>1. Occurs("connectFail", u.toWorker) => r.owner \notin Known
    BY <1>1, <1>4, AppendTurn DEF Accepted
  <2> QED BY <1>1, <1>2, <2>1 DEF Accepted, SameTimers
<1>7. NoQuestion(u)
  <2>1. r.peer = "closed" => u.toWorker = r.toWorker
    BY <1>1
  <2> QED BY <1>1, <2>1 DEF NoQuestion, SameTimers
<1>8. Sending(u)
  <2>1. ASSUME NEW i \in DOMAIN Append(r.sends, x) PROVE Append(r.sends, x)[i].t # "none"
    <3>1. CASE i \in DOMAIN r.sends
      BY <1>3, <1>4, <3>1 DEF Sending
    <3>2. CASE i = Len(r.sends) + 1
      BY <1>3, <1>4, <3>2
    <3> QED BY <1>3, <1>4, <3>1, <3>2
  <2> QED BY <1>2, <2>1 DEF Sending
<1> QED BY <1>5, <1>6, <1>7, <1>8 DEF Reading, u

(* A send that begins while another is under way overlaps it; a question   *)
(* sent alone has its receive announced.                                   *)
LEMMA SendCovered ==
    ASSUME NEW r \in SessionType, NEW m \in Msg, Asks(m) => r.nextRecive,
           r.live /\ r.open /\ r.sends = <<>> => Outstanding(r) <= r.recv
    PROVE  Covered(AsyncSend(r, m))
<1> DEFINE u == AsyncSend(r, m)
<1>1. /\ SameTimers(r, u) /\ u.toServer = r.toServer
      /\ u.toWorker = IF r.open /\ r.peer = "open" THEN Append(r.toWorker, m)
                      ELSE r.toWorker
  BY SendFields
<1>2. /\ u.recv = r.recv /\ u.nextRecive = r.nextRecive /\ u.buf = m
      /\ r.open => u.sends = Append(r.sends, m)
  BY DEF AsyncSend, SessionType
<1>3. r.toWorker \in Queue /\ r.sends \in Seq(Msg) /\ r.recv \in Nat
      /\ Count(r.toWorker) \in Nat /\ Len(r.toServer) \in Nat
  BY QueuesTyped, LinkTyped
<1> HIDE DEF u
<1> SUFFICES ASSUME r.live, r.open PROVE Covered(u)
  BY <1>1 DEF Covered, SameTimers, u
<1>4. CASE r.sends = <<>>
  <2>1. u.sends = <<u.buf>>
    BY <1>2, <1>4
  <2>2. Count(Append(r.toWorker, m)) = Count(r.toWorker) + (IF Asks(m) THEN 1 ELSE 0)
    BY <1>3, CountAppend
  <2>3. Count(u.toWorker) <= Count(r.toWorker) + (IF Asks(m) THEN 1 ELSE 0)
    <3> DEFINE c == Count(r.toWorker)
               d == Count(u.toWorker)
               q == Append(r.toWorker, m)
    <3>1. d = c \/ d = Count(q)
      BY <1>1
    <3>2. Count(q) = c + (IF Asks(m) THEN 1 ELSE 0) /\ c \in Nat
      BY <1>3, <2>2
    <3> HIDE DEF c, d, q
    <3> QED BY <3>1, <3>2 DEF c, d
  <2>4. Count(r.toWorker) + Len(r.toServer) <= r.recv
    BY <1>4, OutstandingCount
  <2>5. Count(u.toWorker) \in Nat
    <3>1. u.toWorker \in Queue
      BY <1>1, <1>3, QueueFacts
    <3> QED BY <3>1, PlacesFinite
  <2>6. Outstanding(u) = Count(u.toWorker) + Len(r.toServer)
    BY <1>1, OutstandingCount
  <2>7. Outstanding(u) <= r.recv + (IF r.nextRecive THEN 1 ELSE 0)
    <3> DEFINE c == Count(r.toWorker)
               d == Count(u.toWorker)
               l == Len(r.toServer)
               o == Outstanding(u)
               n == r.recv
    <3>1. /\ c \in Nat /\ d \in Nat /\ l \in Nat /\ n \in Nat
          /\ o = d + l /\ c + l <= n /\ d <= c + (IF Asks(m) THEN 1 ELSE 0)
      BY <1>3, <2>3, <2>4, <2>5, <2>6
    <3> HIDE DEF c, d, l, o, n
    <3>2. o <= n + (IF r.nextRecive THEN 1 ELSE 0)
      BY <3>1
    <3> QED BY <3>2 DEF o, n
  <2> QED BY <1>2, <2>1, <2>7 DEF Covered
<1>5. CASE r.sends # <<>>
  <2>1. Len(Append(r.sends, m)) >= 2
    BY <1>3, <1>5
  <2> QED BY <1>2, <2>1 DEF Covered
<1> QED BY <1>4, <1>5

LEMMA OneOfThree ==
    ASSUME NEW a \in Nat, NEW b \in Nat, NEW c \in Nat, a + b + c = 1
    PROVE  (c >= 1 => a = 0 /\ b = 0 /\ c = 1) /\ (a > 0 \/ b > 0 => c = 0 /\ a + b + 0 = 1)
OBVIOUS

LEMMA ShortQueue ==
    ASSUME NEW q \in Seq(Msg)
    PROVE  (Len(q) = 0 => q = <<>>) /\ (Len(q) = 1 => Tail(q) = <<>>)
<1>1. Len(q) = 1 => Len(Tail(q)) = 0 /\ Tail(q) \in Seq(Msg)
  OBVIOUS
<1>2. \A x \in Seq(Msg) : Len(x) = 0 => x = <<>>
  OBVIOUS
<1> QED BY <1>1, <1>2

LEMMA IdleCovered ==
    ASSUME NEW r \in SessionType, Covered(r), r.live, r.open, r.sends = <<>>
    PROVE  Outstanding(r) <= r.recv /\ ~r.nextRecive
<1>1. Len(r.sends) = 0
  BY LinkTyped
<1>2. r.sends # <<r.buf>>
  OBVIOUS
<1> QED BY <1>1, <1>2 DEF Covered

(* The messages that a pass of _commandAnalize finds: connect is alone.    *)
LEMMA PopReading ==
    ASSUME NEW r \in SessionType, Reading(r), r.json # <<>>
    PROVE  /\ ~Unheard(Pop(r)) /\ Reading(Pop(r))
           /\ Covered(r) => Covered(Pop(r))
           /\ Unheard(r) => r.toServer = <<>>
           /\ Occurs(Head(r.json).t, r.json)
<1> DEFINE u == Pop(r)
<1>1. /\ SameTimers(r, u) /\ u.json = Tail(r.json) /\ u.toWorker = r.toWorker
      /\ u.toServer = r.toServer /\ u.got = r.got /\ u.peer = r.peer
  BY PopFields
<1>2. SameLink(r, u)
  BY DEF Pop, SessionType, SameLink
<1>3. r.json \in Seq(Msg) /\ r.got \in Seq(Msg) /\ r.toServer \in Seq(Msg)
  BY QueuesTyped DEF Queue
<1>4. Len(r.json) >= 1 /\ Len(r.json) \in Nat /\ Len(r.got) \in Nat /\ Len(r.toServer) \in Nat
  BY <1>3
<1> HIDE DEF u
<1>5. ASSUME Unheard(r) PROVE r.toServer = <<>> /\ r.got = <<>> /\ Tail(r.json) = <<>>
  <2>1. Len(r.toServer) + Len(r.got) + Len(r.json) = 1
    BY <1>5 DEF Reading, Introduced, Unheard
  <2>2. Len(r.toServer) = 0 /\ Len(r.got) = 0 /\ Len(r.json) = 1
    BY <1>4, <2>1, OneOfThree
  <2> QED BY <1>3, <2>2, ShortQueue
<1>6. ~Unheard(u)
  <2>1. \A t : Occurs(t, Tail(r.json)) => Occurs(t, r.json)
    BY <1>3, TailTurn DEF Queue
  <2>2. Unheard(u) => Unheard(r)
    BY <1>1, <2>1 DEF Unheard
  <2> QED BY <1>1, <1>5, <2>2, EmptyTurn DEF Unheard
<1>7. Reading(u)
  BY <1>1, <1>2, <1>6, <1>3
     DEF Reading, Introduced, Unheard, Accepted, NoQuestion, Sending, SameLink
<1>8. Covered(r) => Covered(u)
  <2>1. Outstanding(u) = Outstanding(r)
    BY <1>1, OutstandingCount
  <2> QED BY <1>2, <2>1 DEF Covered, SameLink
<1>9. Occurs(Head(r.json).t, r.json)
  <2>1. 1 \in DOMAIN r.json /\ Head(r.json) = r.json[1]
    BY <1>3
  <2> QED BY <2>1 DEF Occurs
<1> QED BY <1>5, <1>6, <1>7, <1>8, <1>9 DEF u

LEMMA DropReading ==
    ASSUME NEW r \in SessionType, Reading(r)
    PROVE  /\ Reading([r EXCEPT !.json = <<>>])
           /\ Covered(r) => Covered([r EXCEPT !.json = <<>>])
<1> DEFINE u == [r EXCEPT !.json = <<>>]
<1>1. /\ SameLink(r, u) /\ u.json = <<>> /\ u.toWorker = r.toWorker
      /\ u.toServer = r.toServer /\ u.got = r.got /\ u.peer = r.peer
  BY Zenon DEF SessionType, SameLink
<1>2. r.json \in Seq(Msg) /\ r.got \in Seq(Msg) /\ r.toServer \in Seq(Msg)
  BY QueuesTyped DEF Queue
<1> HIDE DEF u
<1>3. Introduced(u)
  <2> SUFFICES ASSUME Unheard(u) PROVE Introduced(u)
    BY DEF Introduced, Unheard
  <2>1. Occurs("connect", r.toServer) \/ Occurs("connect", r.got)
    BY <1>1, EmptyTurn DEF Unheard
  <2>2. Len(r.toServer) + Len(r.got) + Len(r.json) = 1
    BY <2>1 DEF Reading, Introduced
  <2>3. Len(r.toServer) > 0 \/ Len(r.got) > 0
    BY <1>2, <2>1, EmptyTurn
  <2>4. Len(r.toServer) + Len(r.got) + 0 = 1
    <3>1. Len(r.toServer) \in Nat /\ Len(r.got) \in Nat /\ Len(r.json) \in Nat
      BY <1>2
    <3> QED BY <2>2, <2>3, <3>1, OneOfThree
  <2> QED BY <1>1, <2>1, <2>4 DEF Introduced, SameLink, Reading
<1>4. Accepted(u) /\ NoQuestion(u) /\ Sending(u)
  BY <1>1 DEF Reading, Accepted, NoQuestion, Sending, SameLink
<1>5. Covered(r) => Covered(u)
  <2>1. Outstanding(u) = Outstanding(r)
    BY <1>1, OutstandingCount
  <2> QED BY <1>1, <2>1 DEF Covered, SameLink
<1> QED BY <1>3, <1>4, <1>5 DEF Reading, u

LEMMA AutorizationReading ==
    ASSUME NEW r, Good(r), Reading(r), r.json # <<>>, Head(r.json).t = "connect"
    PROVE  Reading(Autorization(r)) /\ Covered(Autorization(r))
<1> DEFINE p == Pop(r)
           u == [p EXCEPT !.id = r.owner, !.live = TRUE]
           v == [p EXCEPT !.id = r.owner]
           a == ArmPing(u)
<1>1. r \in SessionType /\ p \in SessionType /\ u \in SessionType /\ v \in SessionType
  BY PopType DEF Good
<1>2. ~Unheard(p) /\ Reading(p) /\ Unheard(r) /\ r.toServer = <<>>
  BY <1>1, PopReading DEF Unheard
<1>3. ~r.live /\ ~r.nextRecive /\ r.sends = <<>> /\ r.toWorker = <<>>
  BY <1>2 DEF Reading, Introduced, Unheard
<1>4. /\ p.owner = r.owner /\ p.sends = r.sends /\ p.nextRecive = r.nextRecive
      /\ p.accepted = r.accepted /\ p.recv = r.recv /\ p.live = r.live
      /\ p.toServer = r.toServer /\ p.toWorker = r.toWorker
  BY <1>1 DEF Pop, SessionType
<1>5. r.accepted
  BY <1>2 DEF Reading, Accepted
<1> HIDE DEF p
<1>6. /\ SameMail(p, u) /\ u.live = TRUE /\ u.owner = p.owner /\ u.sends = p.sends
      /\ u.recv = p.recv /\ u.accepted = p.accepted /\ u.nextRecive = p.nextRecive
  BY <1>1, Zenon DEF SessionType, SameMail
<1>7. SameMail(p, v) /\ SameLink(p, v)
  BY <1>1, Zenon DEF SessionType, SameMail, SameLink
<1> HIDE DEF u, v
<1>8. a \in SessionType
  BY <1>1, ArmPingGood
<1>9. SameMail(u, a) /\ SameLink(u, a)
  BY <1>1, Zenon DEF ArmPing, SessionType, SameMail, SameLink
<1> HIDE DEF a
<1>10. ~Unheard(a) /\ ~Unheard(v)
  BY <1>2, <1>6, <1>7, <1>9 DEF Unheard, SameMail
<1>11. Plain("connectOk") \in Msg /\ Plain("connectFail") \in Msg
  BY PlainType
<1>12. /\ Plain("connectOk").t = "connectOk" /\ Plain("connectFail").t = "connectFail"
       /\ ~Asks(Plain("connectOk")) /\ ~Asks(Plain("connectFail"))
  BY DEF Plain, Asks
<1>13. CASE r.owner \in Known
  <2>1. a.toWorker = <<>> /\ a.toServer = <<>> /\ a.sends = <<>> /\ a.owner = r.owner
    BY <1>2, <1>3, <1>4, <1>6, <1>9 DEF SameMail, SameLink
  <2>2. Accepted(a)
    BY <1>4, <1>5, <1>6, <1>9, <1>13, <2>1, EmptyTurn DEF Accepted, SameMail, SameLink
  <2>3. NoQuestion(a) /\ Sending(a)
    BY <2>1 DEF NoQuestion, Sending
  <2>4. Reading(AsyncSend(a, Plain("connectOk")))
    BY <1>8, <1>10, <1>11, <1>12, <2>2, <2>3, SendReading
  <2>5. Outstanding(a) <= a.recv
    <3>1. Outstanding(a) = 0
      BY <2>1, OutstandingCount, CountEmpty
    <3> QED BY <1>8, <3>1, LinkTyped
  <2>6. Covered(AsyncSend(a, Plain("connectOk")))
    BY <1>8, <1>11, <1>12, <2>5, SendCovered
  <2> QED BY <1>13, <2>4, <2>6 DEF Autorization, a, u, p
<1>14. CASE r.owner \notin Known
  <2>1. Reading(v) /\ v.owner = r.owner /\ ~v.live
    BY <1>2, <1>3, <1>4, <1>7, SameReading DEF SameLink
  <2>2. Reading(AsyncSend(v, Plain("connectFail")))
    BY <1>1, <1>10, <1>11, <1>12, <1>14, <2>1, SendReading DEF Reading
  <2>3. Covered(AsyncSend(v, Plain("connectFail")))
    BY <1>1, <1>11, <1>12, <2>1, SendCovered
  <2> QED BY <1>14, <2>2, <2>3 DEF Autorization, v, p
<1> QED BY <1>13, <1>14

LEMMA AnalizePingReading ==
    ASSUME NEW r, Good(r), Reading(r), r.json # <<>>
    PROVE  Reading(AnalizePing(r)) /\ (Covered(r) => Covered(AnalizePing(r)))
<1> DEFINE p == Pop(r)
           u == [p EXCEPT !.pingSuccess = TRUE]
           c == CancelDead(u)
           a == ArmPing(c)
<1>1. r \in SessionType /\ p \in SessionType /\ u \in SessionType /\ c \in SessionType
  BY PopType, CancelDeadType DEF Good
<1>2. Reading(p) /\ (Covered(r) => Covered(p))
  BY <1>1, PopReading
<1> HIDE DEF p
<1>3. SameMail(p, u) /\ SameLink(p, u)
  BY <1>1, Zenon DEF SessionType, SameMail, SameLink
<1> HIDE DEF u
<1>4. SameMail(u, c) /\ SameLink(u, c)
  BY <1>1, Zenon DEF CancelDead, SessionType, SameMail, SameLink
<1> HIDE DEF c
<1>5. SameMail(c, a) /\ SameLink(c, a)
  BY <1>1, Zenon DEF ArmPing, SessionType, SameMail, SameLink
<1> HIDE DEF a
<1>6. SameMail(p, a) /\ SameLink(p, a)
  BY <1>3, <1>4, <1>5 DEF SameMail, SameLink
<1> QED BY <1>2, <1>6, SameReading DEF AnalizePing, a, c, u, p

LEMMA SendPingReading ==
    ASSUME NEW r \in SessionType, Reading(r), r.live
    PROVE  Reading(SendPing(r)) /\ (Covered(r) => Covered(SendPing(r)))
<1> DEFINE u == [r EXCEPT !.nextRecive = TRUE, !.pingSuccess = FALSE]
           c == CancelDead(u)
           d == [c EXCEPT !.deadT = TRUE]
           m == Plain("ping")
<1>1. u \in SessionType
  BY Zenon DEF SessionType
<1>2. c \in SessionType
  BY <1>1, CancelDeadType
<1>3. d \in SessionType
  BY <1>2, Zenon DEF SessionType
<1>4. /\ SameMail(r, u) /\ u.nextRecive = TRUE /\ u.live = r.live /\ u.open = r.open
      /\ u.sends = r.sends /\ u.recv = r.recv /\ u.accepted = r.accepted /\ u.owner = r.owner
  BY Zenon DEF SessionType, SameMail
<1> HIDE DEF u
<1>5. SameMail(u, c) /\ SameLink(u, c)
  BY <1>1, Zenon DEF CancelDead, SessionType, SameMail, SameLink
<1> HIDE DEF c
<1>6. SameMail(c, d) /\ SameLink(c, d)
  BY <1>2, Zenon DEF SessionType, SameMail, SameLink
<1> HIDE DEF d
<1>7. /\ SameMail(r, d) /\ d.nextRecive = TRUE /\ d.live = r.live /\ d.open = r.open
      /\ d.sends = r.sends /\ d.recv = r.recv /\ d.accepted = r.accepted /\ d.owner = r.owner
  BY <1>4, <1>5, <1>6 DEF SameMail, SameLink
<1>8. m \in Msg /\ m.t = "ping"
  BY PlainType DEF Plain
<1>9. ~Unheard(d) /\ Accepted(d) /\ NoQuestion(d) /\ Sending(d)
  BY <1>7 DEF Reading, Introduced, Unheard, Accepted, NoQuestion, Sending, SameMail
<1> HIDE DEF m
<1>10. Reading(AsyncSend(d, m))
  BY <1>3, <1>8, <1>9, SendReading
<1>11. ASSUME Covered(r) PROVE Covered(AsyncSend(d, m))
  <2>1. Outstanding(d) = Outstanding(r)
    BY <1>7, OutstandingCount DEF SameMail
  <2>2. d.live /\ d.open /\ d.sends = <<>> => Outstanding(d) <= d.recv
    BY <1>7, <1>11, <2>1, IdleCovered
  <2> QED BY <1>3, <1>7, <1>8, <2>2, SendCovered
<1> QED BY <1>10, <1>11 DEF SendPing, d, c, u, m

LEMMA SendCmdReading ==
    ASSUME NEW r \in SessionType, Reading(r), r.live, NEW q \in Requests
    PROVE  Reading(SendCmd(r, q)) /\ (Covered(r) => Covered(SendCmd(r, q)))
<1> DEFINE d == [r EXCEPT !.callback = q, !.nextRecive = TRUE]
           m == [t |-> "cmd", q |-> q]
<1>1. d \in SessionType
  BY Zenon DEF SessionType
<1>2. /\ SameMail(r, d) /\ d.nextRecive = TRUE /\ d.live = r.live /\ d.open = r.open
      /\ d.sends = r.sends /\ d.recv = r.recv /\ d.accepted = r.accepted /\ d.owner = r.owner
  BY Zenon DEF SessionType, SameMail
<1> HIDE DEF d
<1>3. m \in Msg /\ m.t = "cmd"
  BY DEF Msg
<1>4. ~Unheard(d) /\ Accepted(d) /\ NoQuestion(d) /\ Sending(d)
  BY <1>2 DEF Reading, Introduced, Unheard, Accepted, NoQuestion, Sending, SameMail
<1> HIDE DEF m
<1>5. Reading(AsyncSend(d, m))
  BY <1>1, <1>3, <1>4, SendReading
<1>6. ASSUME Covered(r) PROVE Covered(AsyncSend(d, m))
  <2>1. Outstanding(d) = Outstanding(r)
    BY <1>2, OutstandingCount DEF SameMail
  <2>2. d.live /\ d.open /\ d.sends = <<>> => Outstanding(d) <= d.recv
    BY <1>2, <1>6, <2>1, IdleCovered
  <2> QED BY <1>1, <1>2, <1>3, <2>2, SendCovered
<1> QED BY <1>5, <1>6 DEF SendCmd, d, m

-----------------------------------------------------------------------------
(* The steps of the system, one by one.                                    *)

LEMMA ReadStep ==
    ASSUME IInv, ReadInv, NEW s \in Sessions, NEW u, Reading(u), Covered(sess[s]) => Covered(u),
           skewed' = skewed, Set(s, u)
    PROVE  ReadInv'
<1>1. sess \in [Sessions -> SessionType] /\ sess' = [sess EXCEPT ![s] = u]
  BY DEF IInv, TypeOK, Set
<1>2. \A x \in Sessions : sess'[x] = IF x = s THEN u ELSE sess[x]
  BY <1>1
<1>3. \A x \in Sessions : Reading(sess'[x])
  BY <1>2 DEF ReadInv
<1>4. ~skewed' => \A x \in Sessions : Covered(sess'[x])
  BY <1>2 DEF ReadInv
<1> QED BY <1>3, <1>4 DEF ReadInv

LEMMA SessReading ==
    ASSUME IInv, ReadInv, NEW s \in Sessions
    PROVE  Good(sess[s]) /\ sess[s] \in SessionType /\ Reading(sess[s])
BY SessGood DEF ReadInv

LEMMA ConnectRead ==
    ASSUME IInv, ReadInv, NEW w \in Workers, NEW s \in Sessions, Connect(w, s)
    PROVE  ReadInv'
<1> DEFINE q == <<Plain("connect")>>
           u == [NewSession EXCEPT !.owner = w, !.peer = "open", !.open = TRUE,
                                   !.toServer = q]
<1>1. Set(s, u) /\ skewed' = skewed
  BY DEF Connect, Only
<1>2. Len(q) + Len(<<>>) + Len(<<>>) = 1
  OBVIOUS
<1> HIDE DEF q
<1>3. /\ u.toServer = q /\ u.toWorker = <<>> /\ u.got = <<>> /\ u.json = <<>>
      /\ ~u.live /\ ~u.nextRecive /\ u.sends = <<>> /\ u.recv = 0
  BY DEF NewSession
<1> HIDE DEF u
<1>4. Reading(u) /\ Covered(u)
  BY <1>2, <1>3, EmptyTurn DEF Reading, Introduced, Accepted, NoQuestion, Sending, Covered
<1> QED BY <1>1, <1>4, ReadStep

LEMMA WorkerReadsRead ==
    ASSUME IInv, ReadInv, NEW s \in Sessions, WorkerReads(s)
    PROVE  ReadInv'
<1> DEFINE r == sess[s]
           m == Head(r.toWorker)
           b == Tail(r.toWorker)
           c == [r EXCEPT !.toWorker = b]
           reply(a) == [c EXCEPT !.toServer = Append(@, a)]
           becomes(p) == [c EXCEPT !.peer = p]
<1>1. r \in SessionType /\ Reading(r) /\ r.toWorker # <<>> /\ r.peer = "open"
  BY SessReading DEF WorkerReads
<1>2. r.toWorker \in Queue /\ r.toServer \in Queue
  BY <1>1, QueuesTyped
<1>3. /\ \A t : Occurs(t, b) => Occurs(t, r.toWorker)
      /\ Count(r.toWorker) = Count(b) + (IF Asks(m) THEN 1 ELSE 0)
  BY <1>1, <1>2, TailTurn, CountTail
<1>4. b \in Queue /\ m \in Msg /\ Occurs(m.t, r.toWorker)
  <2>1. 1 \in DOMAIN r.toWorker /\ m = r.toWorker[1]
    BY <1>1, <1>2 DEF Queue
  <2> QED BY <1>1, <1>2, <2>1 DEF Queue, Occurs
<1>5. Count(b) \in Nat /\ Count(r.toWorker) \in Nat /\ Len(r.toServer) \in Nat
      /\ r.recv \in Nat
  BY <1>1, <1>4, PlacesFinite, LinkTyped
<1>6. /\ \/ m.t = "ping" /\ Set(s, reply(Plain("pong")))
         \/ m.t = "cmd" /\ Set(s, reply([t |-> "answer", q |-> m.q]))
         \/ m.t = "connectOk" /\ Set(s, c)
         \/ m.t = "connectFail" /\ Set(s, becomes("closed"))
         \/ m.t = "junk" /\ Set(s, becomes("silent"))
      /\ skewed' = skewed
  BY DEF WorkerReads, Only
<1> HIDE DEF b, m, r
<1>7. c \in SessionType
  BY <1>1, <1>4, Zenon DEF SessionType
<1>8. /\ SameLink(r, c) /\ c.toWorker = b /\ c.toServer = r.toServer
      /\ c.got = r.got /\ c.json = r.json /\ c.peer = r.peer
  BY <1>1, Zenon DEF SessionType, SameLink
<1>9. ~Unheard(r) /\ ~Unheard(c)
  BY <1>1, <1>8 DEF Reading, Introduced, Unheard
<1>10. Accepted(c) /\ Sending(c)
  BY <1>1, <1>3, <1>8 DEF Reading, Accepted, Sending, SameLink
<1>11. NoQuestion(c)
  BY <1>1, <1>8 DEF NoQuestion
<1>12. Outstanding(r) = Count(r.toWorker) + Len(r.toServer)
       /\ Outstanding(c) = Count(b) + Len(r.toServer)
  BY <1>8, OutstandingCount
<1> HIDE DEF c
<1>13. ASSUME NEW a \in Msg, a.t \in {"pong", "answer"}, Asks(m), Set(s, reply(a))
       PROVE  ReadInv'
  <2> DEFINE u == reply(a)
             q == Append(r.toServer, a)
  <2>1. /\ SameLink(c, u) /\ u.toWorker = c.toWorker /\ u.got = c.got
        /\ u.json = c.json /\ u.toServer = Append(c.toServer, a) /\ u.peer = c.peer
    BY <1>7, Zenon DEF SessionType, SameLink
  <2>2. Occurs("connect", q) => Occurs("connect", r.toServer)
    BY <1>2, <1>13, AppendTurn
  <2>3. Len(q) = Len(r.toServer) + 1
    BY <1>2 DEF Queue
  <2> HIDE DEF u, q
  <2>4. u.toServer = q
    BY <1>8, <2>1 DEF q
  <2>5. Reading(u)
    BY <1>8, <1>9, <1>10, <1>11, <2>1, <2>2, <2>4
       DEF Reading, Introduced, Unheard, Accepted, NoQuestion, Sending, SameLink
  <2>6. Outstanding(u) = Outstanding(r)
    <3> DEFINE x == Count(b)
               y == Count(r.toWorker)
               n == Len(r.toServer)
               l == Len(q)
               o == Outstanding(r)
               p == Outstanding(u)
    <3>1. x \in Nat /\ y = x + 1 /\ n \in Nat /\ l = n + 1 /\ o = y + n
      BY <1>3, <1>5, <1>12, <1>13, <2>3
    <3>2. p = x + l
      BY <1>8, <2>1, <2>4, OutstandingCount
    <3> HIDE DEF x, y, n, l, o, p
    <3>3. o = p
      BY <3>1, <3>2
    <3> QED BY <3>3 DEF o, p
  <2>7. Covered(r) => Covered(u)
    BY <1>8, <2>1, <2>6 DEF Covered, SameLink
  <2> QED BY <1>6, <1>13, <2>5, <2>7, ReadStep DEF u, r
<1>14. ASSUME NEW u, SameLink(c, u), u.toWorker = c.toWorker, u.toServer = c.toServer,
              u.got = c.got, u.json = c.json, u.peer = "closed" => u.peer = c.peer \/ ~r.live
       PROVE  Reading(u) /\ (Covered(r) => Covered(u))
  <2>1. NoQuestion(u)
    BY <1>8, <1>11, <1>14 DEF NoQuestion, SameLink
  <2>2. Introduced(u) /\ Accepted(u) /\ Sending(u)
    BY <1>9, <1>10, <1>14 DEF Introduced, Unheard, Accepted, Sending, SameLink
  <2>3. Outstanding(u) = Count(b) + Len(r.toServer)
    BY <1>8, <1>14, OutstandingCount
  <2>4. ASSUME NEW k \in Nat, Outstanding(r) <= k PROVE Outstanding(u) <= k
    <3> DEFINE x == Count(b)
               y == Count(r.toWorker)
               n == Len(r.toServer)
               o == Outstanding(r)
               p == Outstanding(u)
    <3>1. /\ x \in Nat /\ n \in Nat /\ (y = x \/ y = x + 1) /\ o = y + n /\ p = x + n /\ o <= k
      BY <1>3, <1>5, <1>12, <2>3, <2>4
    <3> HIDE DEF x, y, n, o, p
    <3>2. p <= k
      BY <3>1
    <3> QED BY <3>2 DEF p
  <2>5. r.recv \in Nat /\ r.recv + (IF r.nextRecive THEN 1 ELSE 0) \in Nat
    BY <1>5
  <2>6. Covered(r) => Covered(u)
    BY <1>8, <1>14, <2>4, <2>5 DEF Covered, SameLink
  <2> QED BY <2>1, <2>2, <2>6 DEF Reading
<1>15. CASE m.t = "ping" /\ Set(s, reply(Plain("pong")))
  <2>1. Plain("pong") \in Msg /\ Plain("pong").t = "pong" /\ Asks(m)
    BY <1>15, PlainType DEF Plain, Asks
  <2> QED BY <1>13, <1>15, <2>1
<1>16. CASE m.t = "cmd" /\ Set(s, reply([t |-> "answer", q |-> m.q]))
  <2>1. [t |-> "answer", q |-> m.q] \in Msg /\ Asks(m)
    BY <1>4, <1>16 DEF Msg, Asks
  <2>2. [t |-> "answer", q |-> m.q].t = "answer"
    OBVIOUS
  <2> QED BY <1>13, <1>16, <2>1, <2>2
<1>17. CASE m.t = "connectOk" /\ Set(s, c)
  <2>1. SameLink(c, c)
    BY DEF SameLink
  <2> QED BY <1>6, <1>14, <1>17, <2>1, ReadStep DEF r
<1>18. CASE m.t = "connectFail" /\ Set(s, becomes("closed"))
  <2> DEFINE u == becomes("closed")
  <2>1. /\ SameLink(c, u) /\ u.toWorker = c.toWorker /\ u.got = c.got
        /\ u.json = c.json /\ u.toServer = c.toServer
    BY <1>7, Zenon DEF SessionType, SameLink
  <2>2. ~r.live
    BY <1>1, <1>4, <1>18 DEF Reading, Accepted
  <2> HIDE DEF u
  <2> QED BY <1>6, <1>14, <1>18, <2>1, <2>2, ReadStep DEF u, r
<1>19. CASE m.t = "junk" /\ Set(s, becomes("silent"))
  <2> DEFINE u == becomes("silent")
  <2>1. /\ SameLink(c, u) /\ u.toWorker = c.toWorker /\ u.got = c.got
        /\ u.json = c.json /\ u.toServer = c.toServer /\ u.peer = "silent"
    BY <1>7, Zenon DEF SessionType, SameLink
  <2> HIDE DEF u
  <2> QED BY <1>6, <1>14, <1>19, <2>1, ReadStep DEF u, r
<1> QED BY <1>6, <1>15, <1>16, <1>17, <1>18, <1>19

LEMMA WorkerFailsRead ==
    ASSUME IInv, ReadInv, NEW s \in Sessions, WorkerSilent(s) \/ WorkerCloses(s)
    PROVE  ReadInv'
<1> DEFINE r == sess[s]
           u == [r EXCEPT !.peer = "silent"]
           v == [r EXCEPT !.peer = "closed", !.toWorker = <<>>]
<1>1. r \in SessionType /\ Reading(r)
  BY SessReading
<1>2. (Set(s, u) \/ Set(s, v)) /\ skewed' = skewed
  BY DEF WorkerSilent, WorkerCloses, Only
<1>3. /\ SameLink(r, u) /\ u.toWorker = r.toWorker /\ u.got = r.got
      /\ u.json = r.json /\ u.toServer = r.toServer /\ u.peer = "silent"
  BY <1>1, Zenon DEF SessionType, SameLink
<1>4. /\ SameLink(r, v) /\ v.toWorker = <<>> /\ v.got = r.got
      /\ v.json = r.json /\ v.toServer = r.toServer /\ v.peer = "closed"
  BY <1>1, Zenon DEF SessionType, SameLink
<1>5. /\ Count(r.toWorker) \in Nat /\ Len(r.toServer) \in Nat /\ r.recv \in Nat
  BY <1>1, LinkTyped
<1> HIDE DEF u, v, r
<1>6. Reading(u)
  BY <1>1, <1>3 DEF Reading, Introduced, Accepted, NoQuestion, Sending, SameLink
<1>7. Covered(r) => Covered(u)
  <2>1. Outstanding(u) = Outstanding(r)
    BY <1>3, OutstandingCount
  <2> QED BY <1>3, <2>1 DEF Covered, SameLink
<1>8. Reading(v)
  BY <1>1, <1>4, EmptyTurn DEF Reading, Introduced, Accepted, NoQuestion, Sending, SameLink
<1>9. Covered(r) => Covered(v)
  <2>1. Outstanding(v) = Len(r.toServer) /\ Outstanding(r) = Count(r.toWorker) + Len(r.toServer)
    <3>1. Outstanding(v) = 0 + Len(r.toServer)
      BY <1>4, OutstandingCount, CountEmpty
    <3> QED BY <1>5, <3>1, OutstandingCount
  <2>2. ASSUME NEW k \in Nat, Outstanding(r) <= k PROVE Outstanding(v) <= k
    <3> DEFINE x == Count(r.toWorker)
               n == Len(r.toServer)
    <3>1. x \in Nat /\ n \in Nat /\ x + n <= k
      BY <1>5, <2>1, <2>2
    <3> HIDE DEF x, n
    <3>2. n <= k
      BY <3>1
    <3> QED BY <2>1, <3>2 DEF n
  <2>3. r.recv \in Nat /\ r.recv + (IF r.nextRecive THEN 1 ELSE 0) \in Nat
    BY <1>5
  <2> QED BY <1>4, <2>2, <2>3 DEF Covered, SameLink
<1> QED BY <1>2, <1>6, <1>7, <1>8, <1>9, ReadStep DEF r

LEMMA AcceptRead ==
    ASSUME IInv, ReadInv, NEW s \in Sessions, Accept(s) \/ AcceptError(s)
    PROVE  ReadInv'
<1> DEFINE r == sess[s]
           u == [r EXCEPT !.accepted = TRUE, !.recv = 1]
           v == [NewSession EXCEPT !.accepted = TRUE, !.recv = 1, !.peer = "closed"]
<1>1. r \in SessionType /\ Reading(r)
  BY SessReading
<1>2. ((Set(s, u) /\ ~r.accepted) \/ Set(s, v)) /\ skewed' = skewed
  BY DEF Accept, AcceptError
<1>3. /\ SameMail(r, u) /\ u.live = r.live /\ u.accepted = TRUE /\ u.owner = r.owner
      /\ u.sends = r.sends /\ u.nextRecive = r.nextRecive
  BY <1>1, Zenon DEF SessionType, SameMail
<1>4. /\ v.toServer = <<>> /\ v.toWorker = <<>> /\ v.got = <<>> /\ v.json = <<>>
      /\ ~v.live /\ v.sends = <<>> /\ v.accepted
  BY DEF NewSession
<1> HIDE DEF u, v, r
<1>5. Reading(u)
  BY <1>1, <1>3 DEF Reading, Introduced, Accepted, NoQuestion, Sending, SameMail
<1>6. ~r.accepted => ~u.live
  BY <1>1, <1>3 DEF Reading, Accepted
<1>7. Reading(v) /\ Covered(v)
  BY <1>4, EmptyTurn DEF Reading, Introduced, Accepted, NoQuestion, Sending, Covered
<1>8. CASE Set(s, u) /\ ~r.accepted
  <2>1. Covered(u)
    BY <1>6, <1>8 DEF Covered
  <2> QED BY <1>2, <1>5, <1>8, <2>1, ReadStep
<1> QED BY <1>2, <1>7, <1>8, ReadStep

LEMMA KillSessionRead ==
    ASSUME IInv, ReadInv, KillSession
    PROVE  ReadInv'
<1>1. CASE DeadPositions = {}
  BY <1>1 DEF KillSession, vars, ReadInv
<1>2. CASE DeadPositions # {}
  <2>1. PICK i \in DeadPositions : Set(vec[i], Stop(sess[vec[i]])) /\ skewed' = skewed
    BY <1>2 DEF KillSession
  <2>2. vec[i] \in Sessions
    BY DEF DeadPositions, IInv, TypeOK
  <2>3. Reading(Stop(sess[vec[i]])) /\ Covered(Stop(sess[vec[i]]))
    BY <2>2, SessReading, StopReading
  <2> QED BY <2>1, <2>2, <2>3, ReadStep
<1> QED BY <1>1, <1>2

(* A receive takes at least one message.                                   *)
LEMMA ReceiveRead ==
    ASSUME IInv, ReadInv, NEW s \in Sessions, NEW k \in 1..MaxChunk, ReceiveData(s, k)
    PROVE  ReadInv'
<1> DEFINE r == sess[s]
           g == SubSeq(r.toServer, 1, k)
           b == SubSeq(r.toServer, k + 1, Len(r.toServer))
           u == [r EXCEPT !.recv = r.recv - 1, !.got = g, !.toServer = b]
<1>1. r \in SessionType /\ Reading(r) /\ r.got = <<>> /\ r.recv > 0
  BY SessReading DEF ReceiveData
<1>2. Set(s, u) /\ skewed' = skewed
  BY DEF ReceiveData, Only
<1>3. r.toServer \in Queue /\ k \in Nat /\ k >= 1 /\ k <= Len(r.toServer)
  BY <1>1, QueuesTyped, ConstantsAssumption DEF ReceiveData
<1>4. \A t : Occurs(t, r.toServer) <=> Occurs(t, g) \/ Occurs(t, b)
  BY <1>3, SplitTurn, Zenon
<1>5. Len(g) = k /\ Len(b) = Len(r.toServer) - k
  BY <1>3 DEF Queue
<1>6. /\ Count(r.toWorker) \in Nat /\ Len(r.toServer) \in Nat /\ r.recv \in Nat
      /\ r.json \in Queue
  BY <1>1, LinkTyped, QueuesTyped
<1> HIDE DEF g, b
<1>7. /\ u.live = r.live /\ u.open = r.open /\ u.nextRecive = r.nextRecive
      /\ u.recv = r.recv - 1 /\ u.sends = r.sends /\ u.buf = r.buf
      /\ u.accepted = r.accepted /\ u.owner = r.owner
      /\ u.toWorker = r.toWorker /\ u.json = r.json /\ u.peer = r.peer
      /\ u.got = g /\ u.toServer = b
  BY <1>1, Zenon DEF SessionType
<1> HIDE DEF r, u
<1>8. Introduced(u)
  <2> SUFFICES ASSUME Unheard(u) PROVE Introduced(u)
    BY DEF Introduced, Unheard
  <2>1. Unheard(r)
    BY <1>4, <1>7 DEF Unheard
  <2>2. Len(r.toServer) + Len(r.got) + Len(r.json) = 1
    BY <1>1, <2>1 DEF Reading, Introduced, Unheard
  <2>3. Len(b) + Len(g) + Len(r.json) = 1
    <3> DEFINE x == Len(r.toServer)
               y == Len(r.json)
    <3>0. x \in Nat /\ y \in Nat /\ Len(r.got) = 0
      BY <1>1, <1>6 DEF Queue
    <3>1. x + 0 + y = 1
      BY <2>2, <3>0
    <3> HIDE DEF x, y
    <3>2. (x - k) + k + y = 1
      BY <1>3, <3>0, <3>1
    <3> QED BY <1>5, <3>2 DEF x, y
  <2> QED BY <1>1, <1>7, <2>1, <2>3 DEF Reading, Introduced, Unheard
<1>9. Accepted(u)
  <2>1. r.accepted
    BY <1>1 DEF Reading, Accepted
  <2> QED BY <1>1, <1>7, <2>1 DEF Reading, Accepted
<1>10. NoQuestion(u) /\ Sending(u)
  BY <1>1, <1>7 DEF Reading, NoQuestion, Sending
<1>11. Covered(r) => Covered(u)
  <2>1. /\ Outstanding(r) = Count(r.toWorker) + Len(r.toServer)
        /\ Outstanding(u) = Count(r.toWorker) + Len(b)
    BY <1>7, OutstandingCount
  <2>2. ASSUME NEW e \in {0, 1}, Outstanding(r) <= r.recv + e
        PROVE  Outstanding(u) <= (r.recv - 1) + e
    <3> DEFINE c == Count(r.toWorker)
               n == Len(r.toServer)
               l == Len(b)
               v == r.recv
    <3>1. c \in Nat /\ n \in Nat /\ l = n - k /\ v \in Nat /\ c + n <= v + e
      BY <1>5, <1>6, <2>1, <2>2
    <3> HIDE DEF c, n, l, v
    <3>2. c + l <= (v - 1) + e
      BY <1>3, <3>1
    <3> QED BY <2>1, <3>2 DEF c, l, v
  <2>3. Outstanding(r) <= r.recv => Outstanding(u) <= r.recv - 1
    BY <1>6, <2>2
  <2>4. Outstanding(r) <= r.recv + (IF r.nextRecive THEN 1 ELSE 0) =>
        Outstanding(u) <= (r.recv - 1) + (IF r.nextRecive THEN 1 ELSE 0)
    BY <2>2
  <2> QED BY <1>7, <2>3, <2>4 DEF Covered
<1> QED BY <1>2, <1>8, <1>9, <1>10, <1>11, ReadStep DEF Reading, r

LEMMA ReactorRead ==
    ASSUME IInv, ReadInv, NEW s \in Sessions, Reactor(s)
    PROVE  ReadInv'
<1> DEFINE r == sess[s]
<1>1. r \in SessionType /\ Reading(r)
  BY SessReading
<1>2. CASE Accept(s)
  BY <1>2, AcceptRead
<1>3. CASE ReceiveFails(s)
  <2> DEFINE u == [r EXCEPT !.recv = 0, !.recvError = TRUE]
  <2>1. /\ SameMail(r, u) /\ u.live = r.live /\ u.open = r.open /\ u.sends = r.sends
        /\ u.accepted = r.accepted /\ u.owner = r.owner /\ u.nextRecive = r.nextRecive
        /\ u.buf = r.buf /\ u.recv = 0
    BY <1>1, Zenon DEF SessionType, SameMail
  <2>2. Set(s, u) /\ skewed' = skewed /\ (~r.open \/ (r.peer = "closed" /\ r.toServer = <<>>))
    BY <1>3 DEF ReceiveFails, Only
  <2> HIDE DEF u, r
  <2>3. Reading(u)
    <3>1. Introduced(u) /\ NoQuestion(u) /\ Sending(u)
      BY <1>1, <2>1 DEF Reading, Introduced, NoQuestion, Sending, SameMail
    <3>2. ~(u.recv > 0)
      BY <2>1
    <3>3. Accepted(u)
      BY <1>1, <2>1, <3>2 DEF Reading, Accepted, SameMail
    <3> QED BY <3>1, <3>3 DEF Reading
  <2>4. Covered(r) => Covered(u)
    <3>1. CASE ~r.open \/ ~r.live
      BY <2>1, <3>1 DEF Covered
    <3>2. CASE r.live /\ r.peer = "closed" /\ r.toServer = <<>>
      <4>1. r.toWorker = <<>>
        BY <1>1, <3>2 DEF Reading, NoQuestion
      <4>2. Outstanding(u) = 0
        BY <2>1, <3>2, <4>1, OutstandingCount, CountEmpty DEF SameMail
      <4> QED BY <2>1, <4>2 DEF Covered
    <3> QED BY <2>2, <3>1, <3>2
  <2> QED BY <2>2, <2>3, <2>4, ReadStep DEF r
<1>4. ASSUME NEW k \in 1..MaxChunk, ReceiveData(s, k) PROVE ReadInv'
  BY <1>4, ReceiveRead
<1>5. CASE PingExpires(s)
  <2> DEFINE u == [r EXCEPT !.pingT = FALSE, !.pingQ = {"ok"}]
  <2>1. Set(s, u) /\ skewed' = skewed
    BY <1>5 DEF PingExpires, Only
  <2>2. SameMail(r, u) /\ SameLink(r, u)
    BY <1>1, Zenon DEF SessionType, SameMail, SameLink
  <2> HIDE DEF u
  <2> QED BY <1>1, <2>1, <2>2, SameReading, ReadStep
<1>6. CASE DeadExpires(s)
  <2> DEFINE u == [r EXCEPT !.deadT = FALSE, !.deadQ = {"ok"}]
  <2>1. Set(s, u) /\ skewed' = skewed
    BY <1>6 DEF DeadExpires, Only
  <2>2. SameMail(r, u) /\ SameLink(r, u)
    BY <1>1, Zenon DEF SessionType, SameMail, SameLink
  <2> HIDE DEF u
  <2> QED BY <1>1, <2>1, <2>2, SameReading, ReadStep
<1> QED BY <1>2, <1>3, <1>4, <1>5, <1>6 DEF Reactor

LEMMA ReciveRead ==
    ASSUME IInv, ReadInv, NEW s \in Sessions, ReciveError(s) \/ ReciveCommand(s)
    PROVE  ReadInv'
<1> DEFINE r == sess[s]
<1>1. r \in SessionType /\ Reading(r)
  BY SessReading
<1>2. CASE ReciveError(s)
  <2> DEFINE u == [r EXCEPT !.recvError = FALSE]
  <2>1. SameLink(r, u) /\ SameMail(r, u) /\ u \in SessionType
    BY <1>1, Zenon DEF SessionType, SameLink, SameMail
  <2>2. Set(s, Stop(u)) /\ skewed' = skewed
    BY <1>2 DEF ReciveError, Only
  <2> HIDE DEF u
  <2>3. Reading(Stop(u)) /\ Covered(Stop(u))
    BY <1>1, <2>1, SameReading, StopReading
  <2> QED BY <2>2, <2>3, ReadStep
<1>3. CASE ReciveCommand(s)
  <2> DEFINE j == r.json \o r.got
             u == [r EXCEPT !.json = j, !.got = <<>>]
  <2>1. Set(s, u) /\ skewed' = skewed
    BY <1>3 DEF ReciveCommand
  <2>2. r.json \in Queue /\ r.got \in Queue /\ r.toServer \in Queue
    BY <1>1, QueuesTyped
  <2>3. \A t : Occurs(t, j) <=> Occurs(t, r.json) \/ Occurs(t, r.got)
    BY <2>2, JoinTurn, Zenon
  <2>4. Len(j) = Len(r.json) + Len(r.got)
    BY <2>2 DEF Queue
  <2>5. r.got # <<>>
    BY <1>3 DEF ReciveCommand
  <2> HIDE DEF j
  <2>6. /\ SameLink(r, u) /\ u.toWorker = r.toWorker /\ u.toServer = r.toServer
        /\ u.peer = r.peer /\ u.json = j /\ u.got = <<>>
    BY <1>1, Zenon DEF SessionType, SameLink
  <2> HIDE DEF r, u
  <2>7. Introduced(u)
    <3> SUFFICES ASSUME Unheard(u) PROVE Introduced(u)
      BY DEF Introduced, Unheard
    <3>1. Unheard(r)
      BY <2>3, <2>6, EmptyTurn DEF Unheard
    <3>2. Len(r.toServer) + Len(r.got) + Len(r.json) = 1
      BY <1>1, <3>1 DEF Reading, Introduced, Unheard
    <3>3. Len(r.toServer) + 0 + Len(j) = 1
      <4> DEFINE x == Len(r.toServer)
                 y == Len(r.json)
                 z == Len(r.got)
      <4>0. x \in Nat /\ y \in Nat /\ z \in Nat
        BY <2>2 DEF Queue
      <4>1. x + z + y = 1
        BY <3>2
      <4> HIDE DEF x, y, z
      <4>2. x + 0 + (y + z) = 1
        BY <4>0, <4>1
      <4> QED BY <2>4, <4>2 DEF x, y, z
    <3>4. Len(u.toServer) + Len(u.got) + Len(u.json) = 1
      BY <2>6, <3>3
    <3> QED BY <1>1, <2>6, <3>1, <3>4 DEF Reading, Introduced, Unheard, SameLink
  <2>8. Accepted(u) /\ NoQuestion(u) /\ Sending(u)
    BY <1>1, <2>5, <2>6 DEF Reading, Accepted, NoQuestion, Sending, SameLink
  <2>9. Covered(r) => Covered(u)
    <3>1. Outstanding(u) = Outstanding(r)
      BY <2>6, OutstandingCount
    <3> QED BY <2>6, <3>1 DEF Covered, SameLink
  <2> QED BY <2>1, <2>7, <2>8, <2>9, ReadStep DEF Reading, r
<1> QED BY <1>2, <1>3

LEMMA CommandAnalizeRead ==
    ASSUME IInv, ReadInv, NEW s \in Sessions, CommandAnalize(s)
    PROVE  ReadInv'
<1> DEFINE r == sess[s]
<1>1. Good(r) /\ r \in SessionType /\ Reading(r) /\ r.json # <<>>
  BY SessReading DEF CommandAnalize
<1>2. /\ AnalizePing(r) \in SessionType /\ Reading(AnalizePing(r))
      /\ Covered(r) => Covered(AnalizePing(r))
  BY <1>1, AnalizePingReading, AnalizePingGood DEF Good
<1>3. Head(r.json).t = "connect" =>
        Autorization(r) \in SessionType /\ Reading(Autorization(r)) /\ Covered(Autorization(r))
  BY <1>1, AutorizationReading, AutorizationGood DEF Good
<1>4. Pop(r) \in SessionType /\ Reading(Pop(r)) /\ (Covered(r) => Covered(Pop(r)))
  BY <1>1, PopType, PopReading
<1>5. PICK u \in SessionType : /\ Reading(u) /\ (Covered(r) => Covered(u))
                               /\ Analized(s, u)
  BY <1>1, <1>2, <1>3, <1>4 DEF CommandAnalize
<1>6. skewed' = skewed
  BY DEF CommandAnalize
<1>7. CASE Kind = "marusia"
  <2>1. Set(s, [u EXCEPT !.json = <<>>])
    BY <1>5, <1>7 DEF Analized
  <2> QED BY <1>5, <1>6, <2>1, DropReading, ReadStep
<1>8. CASE Kind # "marusia"
  <2>1. Set(s, u)
    BY <1>5, <1>8 DEF Analized
  <2> QED BY <1>5, <1>6, <2>1, ReadStep
<1> QED BY <1>7, <1>8

(* The last send that is alone arms the receive it announced; of those     *)
(* that overlap one remains whose buffer is gone, and the next handler     *)
(* skews or fails.                                                         *)
LEMMA SendHandlerRead ==
    ASSUME IInv, ReadInv, NEW s \in Sessions,
           SendFails(s) \/ SendDone(s) \/ \E leak \in BOOLEAN : SendSkews(s, leak)
    PROVE  ReadInv'
<1> DEFINE r == sess[s]
           q == Tail(r.sends)
<1>1. r \in SessionType /\ Reading(r)
  BY SessReading
<1>2. r.sends \in Seq(Msg) /\ r.sends # <<>> /\ q \in Queue
  <2>1. r.sends \in Seq(Msg) /\ r.sends # <<>>
    BY <1>1 DEF SessionType, Queue, SendFails, SendDone, SendSkews
  <2> QED BY <2>1 DEF Queue
<1>3. /\ \A i \in DOMAIN q : q[i].t # "none"
      /\ Head(r.sends).t # "none"
      /\ Len(r.sends) >= 2 => q # <<>>
      /\ \A b : r.sends = <<b>> => q = <<>>
  <2>1. \A i \in DOMAIN q : i + 1 \in DOMAIN r.sends /\ q[i] = r.sends[i + 1]
    BY <1>2
  <2>2. Head(r.sends) = r.sends[1] /\ 1 \in DOMAIN r.sends
    BY <1>2
  <2>3. Len(r.sends) >= 2 => q # <<>>
    <3>1. Len(q) = Len(r.sends) - 1 /\ Len(r.sends) \in Nat
      BY <1>2
    <3>2. Len(<<>>) = 0
      OBVIOUS
    <3> HIDE DEF q
    <3> QED BY <3>1, <3>2
  <2>4. \A b : r.sends = <<b>> => q = <<>>
    OBVIOUS
  <2> QED BY <1>1, <2>1, <2>2, <2>3, <2>4 DEF Reading, Sending
<1>4. CASE SendFails(s)
  <2> DEFINE u == [r EXCEPT !.sends = q]
  <2>1. Set(s, Stop(u)) /\ skewed' = skewed
    BY <1>4 DEF SendFails, Only
  <2> HIDE DEF q
  <2>2. /\ SameMail(r, u) /\ u \in SessionType /\ u.sends = q /\ u.live = r.live
        /\ u.nextRecive = r.nextRecive /\ u.recv = r.recv /\ u.accepted = r.accepted
        /\ u.owner = r.owner
    BY <1>1, <1>2, Zenon DEF SessionType, SameMail
  <2> HIDE DEF u, r
  <2>3. ~Unheard(r) /\ ~Unheard(u)
    BY <1>1, <1>2, <2>2 DEF Reading, Introduced, Unheard, SameMail
  <2>4. Reading(u)
    BY <1>1, <1>3, <2>2, <2>3
       DEF Reading, Introduced, Unheard, Accepted, NoQuestion, Sending, SameMail
  <2>5. Reading(Stop(u)) /\ Covered(Stop(u))
    BY <2>2, <2>4, StopReading
  <2> QED BY <2>1, <2>5, ReadStep DEF r
<1>5. CASE SendDone(s)
  <2> DEFINE n == IF r.nextRecive THEN r.recv + 1 ELSE r.recv
             u == [r EXCEPT !.sends = q, !.buf = Plain("none"), !.nextRecive = FALSE,
                            !.recv = n]
  <2>1. Set(s, u) /\ skewed' = skewed /\ r.live /\ Head(r.sends).t = r.buf.t
    BY <1>5 DEF SendDone, Only
  <2>2. n = r.recv + (IF r.nextRecive THEN 1 ELSE 0)
    BY <1>1, LinkTyped
  <2> HIDE DEF q, n
  <2>3. /\ SameMail(r, u) /\ u.sends = q /\ u.live = r.live /\ u.open = r.open
        /\ u.nextRecive = FALSE /\ u.recv = n /\ u.accepted = r.accepted
        /\ u.owner = r.owner /\ u.buf = Plain("none")
    BY <1>1, Zenon DEF SessionType, SameMail
  <2> HIDE DEF u, r
  <2>4. ~Unheard(u)
    BY <1>1, <2>1, <2>3 DEF Reading, Introduced, Unheard, SameMail
  <2>5. Reading(u)
    BY <1>1, <1>3, <2>1, <2>3, <2>4
       DEF Reading, Introduced, Unheard, Accepted, NoQuestion, Sending, SameMail
  <2>6. ASSUME Covered(r), r.open PROVE Covered(u)
    <3>1. CASE r.sends = <<r.buf>>
                 /\ Outstanding(r) <= r.recv + (IF r.nextRecive THEN 1 ELSE 0)
      <4>1. q = <<>>
        BY <1>3, <3>1
      <4>2. Outstanding(u) = Outstanding(r)
        BY <2>3, OutstandingCount DEF SameMail
      <4> QED BY <2>2, <2>3, <3>1, <4>1, <4>2 DEF Covered
    <3>2. CASE Len(r.sends) >= 2
      <4>1. u.sends # <<>> /\ u.buf.t = "none"
        BY <1>3, <2>3, <3>2 DEF Plain
      <4> QED BY <4>1 DEF Covered
    <3>3. r.buf.t # "none"
      BY <1>3, <2>1
    <3> QED BY <1>2, <2>1, <2>6, <3>1, <3>2, <3>3 DEF Covered
  <2>7. Covered(r) => Covered(u)
    BY <2>3, <2>6 DEF Covered
  <2> QED BY <2>1, <2>5, <2>7, ReadStep DEF r
<1>6. ASSUME NEW leak \in BOOLEAN, SendSkews(s, leak) PROVE ReadInv'
  <2> DEFINE a == Append(q, Plain("err"))
             j == Append(r.toWorker, Plain("junk"))
             b == IF leak THEN j ELSE r.toWorker
             u == [r EXCEPT !.sends = a, !.toWorker = b]
  <2>1. /\ Set(s, u) /\ skewed' = TRUE /\ r.live
        /\ leak => r.peer = "open"
    BY <1>6 DEF SendSkews
  <2>2. r.toWorker \in Queue /\ Plain("junk") \in Msg /\ Plain("junk").t = "junk"
    BY <1>1, QueuesTyped, PlainType DEF Plain
  <2>3. Occurs("connectFail", j) => Occurs("connectFail", r.toWorker)
    BY <2>2, AppendTurn
  <2>4. \A i \in DOMAIN a : a[i].t # "none"
    <3>1. /\ q \in Seq(Msg) /\ Plain("err") \in Msg /\ Plain("err").t # "none"
      BY <1>2, PlainType DEF Queue, Plain
    <3> HIDE DEF q
    <3> SUFFICES ASSUME NEW i \in DOMAIN a PROVE a[i].t # "none"
      OBVIOUS
    <3>2. (i \in DOMAIN q /\ a[i] = q[i]) \/ a[i] = Plain("err")
      BY <3>1
    <3> QED BY <1>3, <3>1, <3>2
  <2> HIDE DEF j, a
  <2>5. /\ Occurs("connectFail", b) => Occurs("connectFail", r.toWorker)
        /\ r.peer = "closed" => b = r.toWorker
    BY <2>1, <2>3
  <2> HIDE DEF b
  <2>6. /\ u.sends = a /\ u.live = r.live /\ u.recv = r.recv /\ u.accepted = r.accepted
        /\ u.owner = r.owner /\ u.toWorker = b /\ u.toServer = r.toServer
        /\ u.got = r.got /\ u.json = r.json /\ u.peer = r.peer
    BY <1>1, Zenon DEF SessionType
  <2> HIDE DEF u
  <2>7. Reading(u)
    <3>1. Introduced(u)
      BY <1>1, <2>1, <2>6 DEF Reading, Introduced
    <3>2. Accepted(u) /\ NoQuestion(u)
      BY <1>1, <2>5, <2>6 DEF Reading, Accepted, NoQuestion
    <3>3. Sending(u)
      BY <2>4, <2>6 DEF Sending
    <3> QED BY <3>1, <3>2, <3>3 DEF Reading
  <2>8. sess' = [sess EXCEPT ![s] = u] /\ sess \in [Sessions -> SessionType]
    BY <2>1 DEF Set, IInv, TypeOK
  <2>9. \A x \in Sessions : sess'[x] = u \/ sess'[x] = sess[x]
    BY <2>8
  <2> QED BY <2>1, <2>7, <2>9 DEF ReadInv
<1> QED BY <1>4, <1>5, <1>6

LEMMA TimersRead ==
    ASSUME IInv, ReadInv, NEW s \in Sessions,
           Ping(s) \/ PingAborted(s) \/ \E e \in {"ok", "aborted"} : DeadPing(s, e)
    PROVE  ReadInv'
<1> DEFINE r == sess[s]
<1>1. r \in SessionType /\ Reading(r)
  BY SessReading
<1>2. ASSUME NEW e \in {"ok", "aborted"}, NEW u, u = [r EXCEPT !.pingQ = @ \ {e}]
      PROVE  /\ u \in SessionType /\ u.live = r.live
             /\ Reading(u) /\ (Covered(r) => Covered(u))
  <2>1. r.pingQ \ {e} \in Waits
    BY <1>1 DEF SessionType, Waits
  <2>2. u \in SessionType
    BY <1>1, <1>2, <2>1, Zenon DEF SessionType
  <2>3. SameMail(r, u) /\ SameLink(r, u)
    BY <1>1, <1>2 DEF SessionType, SameMail, SameLink
  <2> HIDE DEF r
  <2> QED BY <1>1, <2>2, <2>3, SameReading DEF SameLink
<1>3. CASE Ping(s)
  <2> DEFINE u == [r EXCEPT !.pingQ = @ \ {"ok"}]
  <2>1. Set(s, IF u.live THEN SendPing(u) ELSE u) /\ skewed' = skewed
    BY <1>3 DEF Ping, Only
  <2>2. u \in SessionType /\ Reading(u) /\ (Covered(r) => Covered(u))
    BY <1>2
  <2> HIDE DEF u
  <2>3. CASE u.live
    <3>1. Reading(SendPing(u)) /\ (Covered(u) => Covered(SendPing(u)))
      BY <2>2, <2>3, SendPingReading
    <3> QED BY <2>1, <2>2, <2>3, <3>1, ReadStep
  <2>4. CASE ~u.live
    BY <2>1, <2>2, <2>4, ReadStep
  <2> QED BY <2>3, <2>4
<1>4. CASE PingAborted(s)
  <2> DEFINE u == [r EXCEPT !.pingQ = @ \ {"aborted"}]
  <2>1. Set(s, Stop(u)) /\ skewed' = skewed
    BY <1>4 DEF PingAborted, Only
  <2>2. u \in SessionType /\ Reading(u)
    BY <1>2
  <2> HIDE DEF u
  <2> QED BY <2>1, <2>2, StopReading, ReadStep
<1>5. ASSUME NEW e \in {"ok", "aborted"}, DeadPing(s, e) PROVE ReadInv'
  <2> DEFINE w == r.deadQ \ {e}
             u == [r EXCEPT !.deadQ = w]
  <2>1. Set(s, IF u.pingSuccess THEN u ELSE Stop(u)) /\ skewed' = skewed
    BY <1>5 DEF DeadPing, Only
  <2>2. w \in Waits
    BY <1>1 DEF SessionType, Waits
  <2>3. u \in SessionType
    BY <1>1, <2>2, Zenon DEF SessionType
  <2>4. SameMail(r, u) /\ SameLink(r, u)
    BY <1>1, Zenon DEF SessionType, SameMail, SameLink
  <2> HIDE DEF u, w
  <2>5. Reading(u) /\ (Covered(r) => Covered(u)) /\ Reading(Stop(u)) /\ Covered(Stop(u))
    BY <1>1, <2>3, <2>4, SameReading, StopReading
  <2>6. CASE u.pingSuccess
    BY <2>1, <2>5, <2>6, ReadStep
  <2>7. CASE ~u.pingSuccess
    BY <2>1, <2>5, <2>7, ReadStep
  <2> QED BY <2>6, <2>7
<1> QED BY <1>3, <1>4, <1>5

LEMMA StartCommandRead ==
    ASSUME IInv, ReadInv, NEW s \in Sessions, NEW q \in Requests, StartCommand(s, q)
    PROVE  ReadInv'
<1>1. sess[s] \in SessionType /\ Reading(sess[s]) /\ skewed' = skewed
  BY SessReading DEF StartCommand
<1>2. CASE sess[s].live
  <2>1. Set(s, SendCmd(sess[s], q))
    BY <1>2 DEF StartCommand
  <2> QED BY <1>1, <1>2, <2>1, SendCmdReading, ReadStep
<1>3. CASE ~sess[s].live
  <2>1. Set(s, sess[s])
    BY <1>3 DEF StartCommand
  <2> QED BY <1>1, <2>1, ReadStep
<1> QED BY <1>2, <1>3

-----------------------------------------------------------------------------
LEMMA InitRead == Init => ReadInv
BY NewReading DEF Init, ReadInv

LEMMA NextRead == IInv /\ ReadInv /\ [Next]_vars => ReadInv'
<1> SUFFICES ASSUME IInv, ReadInv, [Next]_vars PROVE ReadInv'
  OBVIOUS
<1>1. CASE WorkerStep
  BY <1>1, ConnectRead, WorkerReadsRead, WorkerFailsRead DEF WorkerStep
<1>2. CASE KillSession
  BY <1>2, KillSessionRead
<1>3. ASSUME NEW s \in Sessions, Reactor(s) PROVE ReadInv'
  BY <1>3, ReactorRead
<1>4. ASSUME NEW s \in Sessions, Handler(s) PROVE ReadInv'
  BY <1>4, ReciveRead, CommandAnalizeRead, SendHandlerRead, TimersRead DEF Handler
<1>5. ASSUME NEW s \in Sessions, AcceptError(s) PROVE ReadInv'
  BY <1>5, AcceptRead
<1>6. ASSUME NEW s \in Sessions, NEW q \in Requests, StartCommand(s, q) PROVE ReadInv'
  BY <1>6, StartCommandRead
<1>7. CASE UNCHANGED vars
  BY <1>7 DEF vars, ReadInv
<1> QED BY <1>1, <1>2, <1>3, <1>4, <1>5, <1>6, <1>7 DEF Next

LEMMA ReadInductive == Spec => []ReadInv
BY InitRead, NextRead, Inductive, PTL DEF Spec

(* _next_recive is one flag for all sends and _sendCommand clears it, yet  *)
(* as long as sends do not overlap there is a receive, armed or announced, *)
(* for every message that the server has still to read or will be sent in  *)
(* reply: whatever the pings, the commands and the messages that one       *)
(* receive takes together.                                                 *)
THEOREM AnswersAlwaysRead == Spec => []AnswersAreRead
<1>1. IInv /\ ReadInv => AnswersAreRead
  <2> SUFFICES ASSUME IInv, ReadInv, NEW s \in Sessions,
                      sess[s].live, sess[s].open, ~skewed,
                      sess[s].sends \in {<<>>, <<sess[s].buf>>}
               PROVE  Outstanding(sess[s]) <=
                        sess[s].recv + (IF sess[s].nextRecive THEN 1 ELSE 0)
    BY DEF AnswersAreRead
  <2> DEFINE r == sess[s]
  <2>1. r \in SessionType /\ Reading(r) /\ Covered(r)
    BY SessReading DEF ReadInv
  <2>2. r.recv \in Nat /\ Outstanding(r) \in Nat
    BY <2>1, LinkTyped
  <2>3. CASE r.sends = <<>>
    <3>1. Outstanding(r) <= r.recv /\ ~r.nextRecive
      BY <2>1, <2>3, IdleCovered
    <3> QED BY <2>2, <3>1
  <2>4. CASE r.sends = <<r.buf>>
    <3>1. ~(Len(r.sends) >= 2) /\ r.sends # <<>>
      BY <2>4
    <3>2. r.buf.t # "none"
      <4>1. 1 \in DOMAIN r.sends /\ r.sends[1] = r.buf
        BY <2>4
      <4> QED BY <2>1, <4>1 DEF Reading, Sending
    <3> QED BY <2>1, <3>1, <3>2 DEF Covered
  <2> QED BY <2>3, <2>4
<1> QED BY <1>1, Inductive, ReadInductive, PTL
=============================================================================
