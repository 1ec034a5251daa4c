-------------------------- MODULE HTTPSServerProofs --------------------------
(***************************************************************************)
(* What holds of the voice requests for any number of HTTPS connections,   *)
(* any tables and any workers that come and go.                            *)
(***************************************************************************)
EXTENDS HTTPSServer, SequenceTheorems, WellFoundedInduction, TLAPS

Early == {"none", "handshake", "reading"}

(* A session r has its body exactly while it waits for the workers, so     *)
(* that no callback can respond before or after; it is live as long as it  *)
(* reads or waits, and never once it is over.                              *)
Orderly(r) ==
    /\ r.body <=> r.phase = "waiting"
    /\ r.phase \in Early \cup {"waiting"} => r.responses = 0
    /\ r.responses \in {0, 1}
    /\ r.phase = "gone" => ~r.live
    /\ r.phase \in {"reading", "waiting"} => r.live

(* The request of session r has been analysed and its station was found.   *)
Past(r) == r.phase \notin Early /\ r.station \in Registered

(* A worker session l that was given a command has a callback, and its     *)
(* commands are those of requests that were analysed, by the sessions H.   *)
Fit(l, H) ==
    /\ l.queue # <<>> => l.callback \in Https
    /\ \A i \in DOMAIN l.queue : Past(H[l.queue[i]])

IInv ==
    /\ TypeOK
    /\ \A h \in Https : Orderly(http[h])
    /\ \A x \in Links : Fit(link[x], http)

(* No step takes a request back to where its station is not known.         *)
Ages == \A h \in Https : Past(http[h]) => Past(http'[h])

-----------------------------------------------------------------------------
(* The vectors: what is found in one, and what erasing leaves.             *)

LEMMA MinChosen ==
    ASSUME NEW I \in SUBSET Nat, I # {}
    PROVE  Min(I) \in I
<1> DEFINE R == {ss \in Nat \X Nat : ss[1] < ss[2]}
<1>1. IsWellFoundedOn(R, Nat)
  BY NatLessThanWellFounded DEF OpToRel
<1>2. \A m, n \in Nat : m < n => <<m, n>> \in R
  OBVIOUS
<1> HIDE DEF R
<1>3. PICK n \in I : \A m \in I : <<m, n>> \notin R
  BY <1>1, WFMin
<1>4. ASSUME NEW m \in I PROVE n <= m
  <2>1. m \in Nat /\ n \in Nat
    OBVIOUS
  <2>2. ~(m < n)
    BY <1>2, <1>3, <2>1
  <2> QED BY <2>1, <2>2
<1> QED BY <1>4 DEF Min

(* __killSession finds a session that is not live.                         *)
LEMMA FirstDeadHttp ==
    ASSUME NEW i, i = FirstDead(sessions, LAMBDA h : http[h].live), i # 0,
           sessions \in Seq(Https)
    PROVE  i \in 1..Len(sessions) /\ ~http[sessions[i]].live
<1> DEFINE I == {j \in 1..Len(sessions) : ~http[sessions[j]].live}
<1>1. i = IF I # {} THEN Min(I) ELSE 0
  BY DEF FirstDead, SelectInSeq
<1>2. I \in SUBSET Nat
  OBVIOUS
<1> HIDE DEF I
<1>3. i \in I
  BY <1>1, <1>2, MinChosen
<1> QED BY <1>3 DEF I

LEMMA FirstDeadLink ==
    ASSUME NEW S, NEW vec \in Seq(S), FirstDead(vec, IsLive) # 0
    PROVE  FirstDead(vec, IsLive) \in 1..Len(vec)
<1> DEFINE I == {j \in 1..Len(vec) : ~IsLive(vec[j])}
           i == FirstDead(vec, IsLive)
<1>1. i = IF I # {} THEN Min(I) ELSE 0
  BY DEF FirstDead, SelectInSeq
<1>2. I \in SUBSET Nat
  OBVIOUS
<1> HIDE DEF I, i
<1>3. i \in I
  BY <1>1, <1>2, MinChosen DEF i
<1> QED BY <1>3 DEF I, i

LEMMA PositionFound ==
    ASSUME NEW S, NEW vec \in Seq(S), NEW ids
    PROVE  /\ Position(vec, ids) \in Nat
           /\ Position(vec, ids) # 0 => Position(vec, ids) \in 1..Len(vec)
<1> DEFINE I == {j \in 1..Len(vec) : WorkerOf[vec[j]] \in ids}
<1>1. Position(vec, ids) = IF I # {} THEN Min(I) ELSE 0
  BY DEF Position, SelectInSeq
<1>2. I \in SUBSET Nat
  OBVIOUS
<1>3. I \in SUBSET (1..Len(vec))
  OBVIOUS
<1> HIDE DEF I
<1>4. CASE I = {}
  BY <1>1, <1>4
<1>5. CASE I # {}
  <2>1. Position(vec, ids) \in I
    BY <1>1, <1>2, <1>5, MinChosen
  <2>2. Position(vec, ids) \in Nat /\ Position(vec, ids) \in 1..Len(vec)
    BY <1>2, <1>3, <2>1, Zenon
  <2> QED BY <2>2
<1> QED BY <1>4, <1>5

(* Erasing one element of a vector.                                        *)
LEMMA Erased ==
    ASSUME NEW S, NEW vec \in Seq(S), NEW i \in 1..Len(vec)
    PROVE  /\ RemoveAt(vec, i) \in Seq(S)
           /\ ToSet(vec) \subseteq ToSet(RemoveAt(vec, i)) \cup {vec[i]}
<1> DEFINE a == SubSeq(vec, 1, i - 1)
           b == SubSeq(vec, i + 1, Len(vec))
<1>1. a \in Seq(S) /\ Len(a) = i - 1 /\ \A j \in 1..(i - 1) : a[j] = vec[j]
  OBVIOUS
<1>2. /\ b \in Seq(S) /\ Len(b) = Len(vec) - i
      /\ \A j \in 1..(Len(vec) - i) : b[j] = vec[j + i]
  OBVIOUS
<1>3. RemoveAt(vec, i) = a \o b
  BY DEF RemoveAt
<1> HIDE DEF a, b
<1>4. /\ a \o b \in Seq(S) /\ Len(a \o b) = Len(vec) - 1
      /\ \A j \in 1..(Len(vec) - 1) :
             (a \o b)[j] = IF j <= i - 1 THEN a[j] ELSE b[j - (i - 1)]
  <2>1. Len(a) + Len(b) = Len(vec) - 1
    BY <1>1, <1>2
  <2>2. /\ a \o b \in Seq(S) /\ Len(a \o b) = Len(a) + Len(b)
        /\ \A j \in 1..(Len(a) + Len(b)) :
               (a \o b)[j] = IF j <= Len(a) THEN a[j] ELSE b[j - Len(a)]
    BY <1>1, <1>2, ConcatProperties
  <2> QED BY <1>1, <2>1, <2>2
<1>5. ASSUME NEW j \in 1..Len(vec), j # i
      PROVE  \E n \in 1..(Len(vec) - 1) : (a \o b)[n] = vec[j]
  <2>1. CASE j < i
    BY <1>1, <1>4, <2>1
  <2>2. CASE j > i
    <3>1. j - 1 \in 1..(Len(vec) - 1) /\ ~(j - 1 <= i - 1) /\ (j - 1) - (i - 1) = j - i
      BY <2>2
    <3>2. j - i \in 1..(Len(vec) - i) /\ (j - i) + i = j
      BY <2>2
    <3> QED BY <1>2, <1>4, <3>1, <3>2
  <2>3. j < i \/ j > i
    BY <1>5
  <2> QED BY <2>1, <2>2, <2>3
<1>6. DOMAIN (a \o b) = 1..(Len(vec) - 1) /\ DOMAIN vec = 1..Len(vec)
  BY <1>4
<1>7. ASSUME NEW e \in ToSet(vec), e # vec[i] PROVE e \in ToSet(a \o b)
  <2>1. PICK j \in 1..Len(vec) : e = vec[j]
    BY <1>6 DEF ToSet
  <2>2. PICK n \in 1..(Len(vec) - 1) : (a \o b)[n] = vec[j]
    BY <1>5, <1>7, <2>1
  <2> QED BY <1>6, <2>1, <2>2 DEF ToSet
<1> QED BY <1>3, <1>4, <1>7
-----------------------------------------------------------------------------
LEMMA InvImplies == IInv => RequestsSound /\ OnlyRegisteredMove
<1> SUFFICES ASSUME IInv PROVE RequestsSound /\ OnlyRegisteredMove
  OBVIOUS
<1>1. OneResponse
  BY DEF IInv, Orderly, OneResponse
<1>2. GoneIsMarked
  BY DEF IInv, Orderly, GoneIsMarked
<1>3. OnlyRegisteredMove
  BY DEF IInv, Fit, Past, OnlyRegisteredMove, Links
<1> QED BY <1>1, <1>2, <1>3 DEF IInv, RequestsSound

LEMMA InitGood == Init => IInv
<1> SUFFICES ASSUME Init PROVE IInv
  OBVIOUS
<1>1. NewHttp \in HttpType
  BY TablesAssumption DEF NewHttp, HttpType
<1>2. Orderly(NewHttp)
  BY DEF Orderly, NewHttp, Early
<1>3. NewLink \in LinkType
  BY DEF NewLink, LinkType
<1>4. Fit(NewLink, http)
  BY DEF Fit, NewLink
<1>5. sessions \in Seq(Https) /\ marusia \in Seq(MarusiaLinks) /\ mqtt \in Seq(LiftLinks)
  BY DEF Init
<1>6. TypeOK
  BY <1>1, <1>3, <1>5 DEF Init, TypeOK
<1> QED BY <1>2, <1>4, <1>6 DEF Init, IInv

(* Commands stay fit when requests only get on.                            *)
LEMMA FitAges ==
    ASSUME NEW l \in LinkType, Fit(l, http), Ages
    PROVE  Fit(l, http')
<1>1. \A i \in DOMAIN l.queue : l.queue[i] \in Https
  BY DEF LinkType
<1> QED BY <1>1 DEF Fit, Ages

(* A step of one HTTPS session that leaves the worker sessions alone.      *)
LEMMA HttpKeeps ==
    ASSUME IInv, NEW h \in Https, NEW r \in HttpType, Orderly(r), Past(http[h]) => Past(r),
           http' = [http EXCEPT ![h] = r], UNCHANGED <<link, marusia, mqtt>>,
           sessions' \in Seq(Https), accepting' \in BOOLEAN,
           status' \in {"up", "hung", "down"}
    PROVE  IInv'
<1>1. TypeOK'
  BY DEF IInv, TypeOK
<1>2. \A g \in Https : http'[g] = IF g = h THEN r ELSE http[g]
  BY DEF IInv, TypeOK
<1>3. \A g \in Https : Orderly(http'[g])
  BY <1>2 DEF IInv
<1>4. Ages
  BY <1>2 DEF Ages
<1>5. \A x \in Links : Fit(link'[x], http')
  BY <1>4, FitAges DEF IInv, TypeOK
<1> QED BY <1>1, <1>3, <1>5 DEF IInv

(* A step of the worker sessions, with at most one HTTPS session.          *)
LEMMA LinksKeep ==
    ASSUME IInv, NEW h \in Https, NEW r \in HttpType, Orderly(r),
           http' = [http EXCEPT ![h] = r], Ages,
           link' \in [Links -> LinkType], \A x \in Links : Fit(link'[x], http'),
           UNCHANGED <<sessions, accepting, marusia, mqtt>>,
           status' \in {"up", "hung", "down"}
    PROVE  IInv'
<1>1. TypeOK'
  BY DEF IInv, TypeOK
<1>2. \A g \in Https : http'[g] = IF g = h THEN r ELSE http[g]
  BY DEF IInv, TypeOK
<1>3. \A g \in Https : Orderly(http'[g])
  BY <1>2 DEF IInv
<1> QED BY <1>1, <1>3 DEF IInv

(* A step that changes no session: the vectors, the listener, the status.  *)
LEMMA OthersKeep ==
    ASSUME IInv, UNCHANGED <<http, link>>, sessions' \in Seq(Https), accepting' \in BOOLEAN,
           marusia' \in Seq(MarusiaLinks), mqtt' \in Seq(LiftLinks),
           status' \in {"up", "hung", "down"}
    PROVE  IInv'
BY DEF IInv, TypeOK
-----------------------------------------------------------------------------
(* The Listener, and an HTTPS session up to its request.                   *)

LEMMA SessionTyped ==
    ASSUME IInv, NEW h \in Https
    PROVE  http[h] \in HttpType /\ Orderly(http[h])
BY DEF IInv, TypeOK

LEMMA BecomesKeeps ==
    ASSUME IInv, NEW h \in Https, NEW r \in HttpType, Orderly(r), Past(http[h]) => Past(r),
           Becomes(h, r)
    PROVE  IInv'
BY HttpKeeps DEF Becomes, IInv, TypeOK

LEMMA OnAcceptKeeps ==
    ASSUME IInv, NEW h \in Https, OnAccept(h)
    PROVE  IInv'
<1> DEFINE r == [http[h] EXCEPT !.phase = "handshake"]
<1>1. http' = [http EXCEPT ![h] = r]
  BY DEF OnAccept, IInv, TypeOK
<1>2. r \in HttpType
  BY SessionTyped DEF HttpType
<1>3. Orderly(r) /\ (Past(http[h]) => Past(r))
  BY SessionTyped DEF HttpType, Orderly, Past, Early, OnAccept
<1>4. sessions' \in Seq(Https)
  BY DEF OnAccept, IInv, TypeOK
<1> QED BY <1>1, <1>2, <1>3, <1>4, HttpKeeps DEF OnAccept, IInv, TypeOK

LEMMA HandshakeKeeps ==
    ASSUME IInv, NEW h \in Https, HandshakeDone(h) \/ HandshakeRetry(h) \/ HandshakeFails(h)
    PROVE  IInv'
<1>1. CASE HandshakeDone(h)
  <2> DEFINE r == [http[h] EXCEPT !.live = TRUE, !.phase = "reading"]
  <2>1. r \in HttpType
    BY SessionTyped DEF HttpType
  <2>2. Orderly(r) /\ (Past(http[h]) => Past(r))
    BY <1>1, SessionTyped DEF HttpType, Orderly, Past, Early, HandshakeDone
  <2> QED BY <1>1, <2>1, <2>2, BecomesKeeps DEF HandshakeDone
<1>2. CASE HandshakeRetry(h)
  <2> DEFINE n == http[h].tries + 1
             r == [http[h] EXCEPT !.tries = n]
  <2>1. n \in 0..MaxReconnect
    BY <1>2, SessionTyped, TablesAssumption DEF HttpType, HandshakeRetry
  <2> HIDE DEF n
  <2>2. r \in HttpType
    BY <2>1, SessionTyped DEF HttpType
  <2>3. Orderly(r) /\ (Past(http[h]) => Past(r))
    BY <1>2, SessionTyped DEF HttpType, Orderly, Past, Early, HandshakeRetry
  <2>4. Becomes(h, r)
    BY <1>2 DEF HandshakeRetry, n
  <2> QED BY <2>2, <2>3, <2>4, BecomesKeeps
<1>3. CASE HandshakeFails(h)
  <2> DEFINE r == [http[h] EXCEPT !.live = FALSE, !.phase = "gone"]
  <2>1. r \in HttpType
    BY SessionTyped DEF HttpType
  <2>2. Orderly(r) /\ (Past(http[h]) => Past(r))
    BY <1>3, SessionTyped DEF HttpType, Orderly, Past, Early, HandshakeFails
  <2> QED BY <1>3, <2>1, <2>2, BecomesKeeps DEF HandshakeFails
<1> QED BY <1>1, <1>2, <1>3

LEMMA ReadFailsKeeps ==
    ASSUME IInv, NEW h \in Https, ReadFails(h)
    PROVE  IInv'
<1>1. PICK p \in {"gone", "closing"} : Becomes(h, [http[h] EXCEPT !.live = FALSE, !.phase = p])
  BY DEF ReadFails
<1> DEFINE r == [http[h] EXCEPT !.live = FALSE, !.phase = p]
<1>2. r \in HttpType
  BY SessionTyped DEF HttpType
<1>3. Orderly(r) /\ (Past(http[h]) => Past(r))
  BY SessionTyped DEF HttpType, Orderly, Past, Early, ReadFails
<1> QED BY <1>1, <1>2, <1>3, BecomesKeeps

LEMMA ReadSimpleKeeps ==
    ASSUME IInv, NEW h \in Https, NEW bad \in BOOLEAN, ReadSimple(h, bad)
    PROVE  IInv'
<1> DEFINE n == http[h].responses + 1
           r == [http[h] EXCEPT !.phase = "writing", !.live = ~bad, !.keep = ~bad,
                                !.responses = n]
<1>1. n = 1
  BY SessionTyped DEF HttpType, Orderly, Early, ReadSimple
<1>2. n \in Nat
  BY <1>1
<1>3. Becomes(h, r) /\ http[h].phase = "reading"
  BY DEF ReadSimple
<1> HIDE DEF n
<1>4. r \in HttpType
  BY <1>2, SessionTyped, Zenon DEF HttpType
<1>5. r.phase = "writing" /\ r.body = http[h].body /\ r.responses = n
  BY SessionTyped, Zenon DEF HttpType
<1>6. Orderly(r) /\ (Past(http[h]) => Past(r))
  <2> HIDE DEF r
  <2> QED BY <1>1, <1>3, <1>5, SessionTyped DEF Orderly, Past, Early
<1> QED BY <1>3, <1>4, <1>6, BecomesKeeps

LEMMA OnWriteKeeps ==
    ASSUME IInv, NEW h \in Https, OnWrite(h) \/ OnShutdown(h)
    PROVE  IInv'
<1>1. PICK p \in {"closing", "gone"} :
          /\ http[h].phase \in {"writing", "closing"}
          /\ Becomes(h, [http[h] EXCEPT !.live = FALSE, !.phase = p])
  BY DEF OnWrite, OnShutdown
<1> DEFINE r == [http[h] EXCEPT !.live = FALSE, !.phase = p]
<1>2. r \in HttpType
  BY SessionTyped DEF HttpType
<1>3. Orderly(r) /\ (Past(http[h]) => Past(r))
  BY <1>1, SessionTyped DEF HttpType, Orderly, Past, Early
<1> QED BY <1>1, <1>2, <1>3, BecomesKeeps

LEMMA ListenerKeeps ==
    ASSUME IInv, OnAcceptError \/ KillHttp \/ KillMarusia \/ KillMqtt
    PROVE  IInv'
<1>1. CASE OnAcceptError
  BY <1>1, OthersKeep DEF OnAcceptError, IInv, TypeOK
<1>2. CASE KillHttp
  <2> DEFINE i == FirstDead(sessions, LAMBDA h : http[h].live)
  <2>1. i \in 1..Len(sessions)
    BY <1>2, FirstDeadHttp DEF KillHttp, IInv, TypeOK
  <2>2. sessions' \in Seq(Https)
    <3> HIDE DEF i
    <3>1. sessions' = RemoveAt(sessions, i)
      BY <1>2 DEF KillHttp, i
    <3> QED BY <2>1, <3>1, Erased DEF IInv, TypeOK
  <2> QED BY <1>2, <2>2, OthersKeep DEF KillHttp, IInv, TypeOK
<1>3. CASE KillMarusia
  <2>1. FirstDead(marusia, IsLive) \in 1..Len(marusia)
    BY <1>3, FirstDeadLink DEF KillMarusia, IInv, TypeOK
  <2>2. marusia' \in Seq(MarusiaLinks)
    BY <1>3, <2>1, Erased DEF KillMarusia, IInv, TypeOK
  <2> QED BY <1>3, <2>2, OthersKeep DEF KillMarusia, IInv, TypeOK
<1>4. CASE KillMqtt
  <2>1. FirstDead(mqtt, IsLive) \in 1..Len(mqtt)
    BY <1>4, FirstDeadLink DEF KillMqtt, IInv, TypeOK
  <2>2. mqtt' \in Seq(LiftLinks)
    BY <1>4, <2>1, Erased DEF KillMqtt, IInv, TypeOK
  <2> QED BY <1>4, <2>2, OthersKeep DEF KillMqtt, IInv, TypeOK
<1> QED BY <1>1, <1>2, <1>3, <1>4
-----------------------------------------------------------------------------
(* Commands and answers.                                                   *)

(* A command started for a request that was analysed.                      *)
LEMMA StartedFits ==
    ASSUME NEW links \in [Links -> LinkType], NEW H, \A z \in Links : Fit(links[z], H),
           NEW y \in Links, NEW c \in Https, NEW o \in Https, Past(H[o])
    PROVE  /\ Started(links, y, c, o) \in [Links -> LinkType]
           /\ \A z \in Links : Fit(Started(links, y, c, o)[z], H)
<1>1. CASE links[y].state # "live"
  BY <1>1 DEF Started
<1>2. CASE links[y].state = "live"
  <2> DEFINE q == Append(links[y].queue, o)
             l == [links[y] EXCEPT !.callback = c, !.queue = q]
  <2>1. links[y] \in LinkType
    OBVIOUS
  <2>2. q \in Seq(Https) /\ \A i \in DOMAIN q : i \in DOMAIN links[y].queue \/ q[i] = o
    BY <2>1 DEF LinkType
  <2>3. \A i \in DOMAIN links[y].queue : q[i] = links[y].queue[i]
    BY <2>1 DEF LinkType
  <2> HIDE DEF q
  <2>4. l \in LinkType /\ l.callback = c /\ l.queue = q
    BY <2>1, <2>2 DEF LinkType
  <2>5. Fit(l, H)
    <3> HIDE DEF l
    <3> QED BY <2>2, <2>3, <2>4 DEF Fit
  <2>6. Started(links, y, c, o) = [links EXCEPT ![y] = l]
    BY <1>2, <2>1 DEF Started, q, LinkType
  <2> HIDE DEF l
  <2> QED BY <2>4, <2>5, <2>6
<1> QED BY <1>1, <1>2

(* Answers take commands off the front.                                    *)
LEMMA RestFits ==
    ASSUME NEW links \in [Links -> LinkType], NEW H, \A z \in Links : Fit(links[z], H),
           NEW x \in Links, NEW k \in Nat, k <= Len(links[x].queue),
           NEW rest, rest = [links EXCEPT ![x].queue = SubSeq(@, k + 1, Len(@))]
    PROVE  rest \in [Links -> LinkType] /\ \A z \in Links : Fit(rest[z], H)
<1> DEFINE p == links[x].queue
           q == SubSeq(p, k + 1, Len(p))
           l == [links[x] EXCEPT !.queue = q]
<1>1. links[x] \in LinkType /\ p \in Seq(Https)
  BY DEF LinkType
<1>2. q \in Seq(Https) /\ Len(q) = Len(p) - k /\ \A i \in 1..Len(q) : q[i] = p[i + k]
  BY <1>1
<1>3. \A i \in DOMAIN q : i + k \in DOMAIN p /\ q[i] = p[i + k]
  BY <1>1, <1>2
<1>4. q # <<>> => p # <<>>
  BY <1>1
<1>5. rest = [links EXCEPT ![x] = l]
  BY <1>1 DEF LinkType
<1> HIDE DEF q, p
<1>6. l \in LinkType /\ l.callback = links[x].callback /\ l.queue = q
  BY <1>1, <1>2 DEF LinkType
<1>7. Fit(l, H)
  <2> HIDE DEF l
  <2>1. Fit(links[x], H)
    OBVIOUS
  <2> QED BY <1>3, <1>4, <1>6, <2>1 DEF Fit, p
<1> HIDE DEF l
<1> QED BY <1>5, <1>6, <1>7

(* What a response makes of a session, and that only the first counts.     *)
LEMMA RespondedOrderly ==
    ASSUME NEW r \in HttpType, r.responses = 0, NEW o \in Https \cup {NoSession},
           NEW keep \in BOOLEAN
    PROVE  LET s == Responded(r, o, keep)
           IN  s \in HttpType /\ Orderly(s) /\ s.phase = "writing" /\ s.station = r.station
<1> DEFINE n == r.responses + 1
           s == [r EXCEPT !.phase = "writing", !.body = FALSE, !.keep = keep,
                          !.responses = n, !.answerTo = o]
<1>1. n = 1 /\ n \in Nat
  BY DEF HttpType
<1>2. Responded(r, o, keep) = s
  BY DEF Responded
<1> HIDE DEF n
<1>3. s \in HttpType
  BY <1>1, Zenon DEF HttpType
<1>4. s.phase = "writing" /\ s.station = r.station /\ ~s.body /\ s.responses = n
  BY Zenon DEF HttpType
<1> HIDE DEF s
<1>5. Orderly(s)
  BY <1>1, <1>4 DEF Orderly, Early
<1> QED BY <1>2, <1>3, <1>4, <1>5

(* A callback responds with the session's own request, or drops the        *)
(* message: either way requests only get on.                               *)
LEMMA RespondKeeps ==
    ASSUME IInv, NEW c \in Https, NEW o \in Https \cup {NoSession}, Respond(c, o)
    PROVE  \E r \in HttpType : Orderly(r) /\ http' = [http EXCEPT ![c] = r] /\ Ages
<1>1. CASE http[c].body
  <2>1. PICK keep \in BOOLEAN : http' = [http EXCEPT ![c] = Responded(http[c], o, keep)]
    BY <1>1 DEF Respond
  <2> DEFINE r == Responded(http[c], o, keep)
  <2>2. http[c].responses = 0
    BY <1>1, SessionTyped DEF Orderly
  <2>3. r \in HttpType /\ Orderly(r) /\ r.phase = "writing" /\ r.station = http[c].station
    BY <2>2, SessionTyped, RespondedOrderly
  <2> HIDE DEF r
  <2>4. \A g \in Https : http'[g] = IF g = c THEN r ELSE http[g]
    BY <2>1 DEF r, IInv, TypeOK
  <2>5. Ages
    BY <2>3, <2>4 DEF Ages, Past, Early
  <2> QED BY <2>1, <2>3, <2>5 DEF r
<1>2. CASE ~http[c].body
  <2>1. UNCHANGED http
    BY <1>2 DEF Respond
  <2>2. http = [http EXCEPT ![c] = http[c]]
    BY DEF IInv, TypeOK
  <2> QED BY <2>1, <2>2, SessionTyped DEF Ages
<1> QED BY <1>1, <1>2

LEMMA AnalizeRequestKeeps ==
    ASSUME IInv, NEW h \in Https, NEW st \in Stations, AnalizeRequest(h, st)
    PROVE  IInv'
<1> DEFINE r == [http[h] EXCEPT !.station = st, !.body = TRUE]
<1>1. http[h] \in HttpType /\ Orderly(http[h]) /\ http[h].phase = "reading"
  BY SessionTyped DEF AnalizeRequest
<1>2. http[h].responses = 0 /\ http[h].live /\ ~Past(http[h])
  BY <1>1 DEF Orderly, Past, Early
<1>3. r \in HttpType /\ r.responses = 0
  BY <1>1, <1>2 DEF HttpType
<1>4. CASE \E keep \in BOOLEAN : Becomes(h, Responded(r, NoSession, keep))
  <2>1. PICK keep \in BOOLEAN : Becomes(h, Responded(r, NoSession, keep))
    BY <1>4
  <2> DEFINE s == Responded(r, NoSession, keep)
  <2> HIDE DEF r
  <2>2. s \in HttpType /\ Orderly(s)
    BY <1>3, RespondedOrderly
  <2> HIDE DEF s
  <2> QED BY <1>2, <2>1, <2>2, BecomesKeeps DEF s
<1>5. CASE /\ Served(st)
           /\ http' = [http EXCEPT ![h] = [r EXCEPT
                 !.phase = "waiting",
                 !.posLu = Position(mqtt, BlockWorkers[StationBlock[st]])]]
           /\ link' = Started(link, marusia[Position(marusia, StationWorkers[st])], h, h)
           /\ UNCHANGED <<sessions, accepting, marusia, mqtt, status>>
  <2> DEFINE n == Position(mqtt, BlockWorkers[StationBlock[st]])
             m == Position(marusia, StationWorkers[st])
             s == [r EXCEPT !.phase = "waiting", !.posLu = n]
  <2>1. n \in Nat
    BY PositionFound DEF IInv, TypeOK
  <2>2. m \in 1..Len(marusia)
    BY <1>5, PositionFound DEF Served, IInv, TypeOK
  <2>3. marusia[m] \in Links
    <3> HIDE DEF m
    <3> QED BY <2>2 DEF IInv, TypeOK, Links
  <2>4. http' = [http EXCEPT ![h] = s] /\ link' = Started(link, marusia[m], h, h)
    BY <1>5
  <2> HIDE DEF n, m
  <2>5. s \in HttpType
    BY <1>1, <2>1 DEF HttpType
  <2>6. s.phase = "waiting" /\ s.body /\ s.responses = 0 /\ s.live /\ s.station = st
    BY <1>1, <1>2 DEF HttpType
  <2> HIDE DEF s
  <2>7. Orderly(s) /\ Past(s)
    BY <1>5, <2>6 DEF Orderly, Past, Early, Served
  <2>8. \A g \in Https : http'[g] = IF g = h THEN s ELSE http[g]
    BY <2>4 DEF IInv, TypeOK
  <2>9. Ages
    BY <2>7, <2>8 DEF Ages
  <2>10. \A z \in Links : Fit(link[z], http')
    BY <2>9, FitAges DEF IInv, TypeOK
  <2>11. Past(http'[h])
    BY <2>7, <2>8
  <2>12. link \in [Links -> LinkType]
    BY DEF IInv, TypeOK
  <2>13. link' \in [Links -> LinkType] /\ \A z \in Links : Fit(link'[z], http')
    BY <2>3, <2>4, <2>10, <2>11, <2>12, StartedFits
  <2> QED BY <1>5, <2>4, <2>5, <2>7, <2>9, <2>13, LinksKeep DEF IInv, TypeOK
<1> QED BY <1>4, <1>5 DEF AnalizeRequest

LEMMA WorkersKeep ==
    ASSUME IInv, NEW x \in Links, Join(x) \/ Lose(x)
    PROVE  IInv'
<1>1. PICK s \in {"live", "dead"} : link' = [link EXCEPT ![x].state = s]
  BY DEF Join, Lose
<1> DEFINE l == [link[x] EXCEPT !.state = s]
<1>2. link[x] \in LinkType /\ Fit(link[x], http)
  BY DEF IInv, TypeOK
<1>3. link' = [link EXCEPT ![x] = l]
  BY <1>1 DEF IInv, TypeOK
<1>4. l \in LinkType /\ l.callback = link[x].callback /\ l.queue = link[x].queue
  BY <1>2 DEF LinkType
<1> HIDE DEF l
<1>5. Fit(l, http)
  BY <1>2, <1>4 DEF Fit
<1>6. link' \in [Links -> LinkType] /\ \A z \in Links : Fit(link'[z], http)
  BY <1>3, <1>4, <1>5 DEF IInv, TypeOK
<1>7. marusia' \in Seq(MarusiaLinks) /\ mqtt' \in Seq(LiftLinks)
  <2>1. marusia \in Seq(MarusiaLinks) /\ mqtt \in Seq(LiftLinks)
    BY DEF IInv, TypeOK
  <2>2. CASE x \in MarusiaLinks /\ marusia' = Append(marusia, x) /\ UNCHANGED mqtt
    BY <2>1, <2>2
  <2>3. CASE x \in LiftLinks /\ mqtt' = Append(mqtt, x) /\ UNCHANGED marusia
    BY <2>1, <2>3
  <2>4. CASE UNCHANGED <<marusia, mqtt>>
    BY <2>1, <2>4
  <2> QED BY <2>2, <2>3, <2>4 DEF Join, Lose
<1>8. UNCHANGED <<http, sessions, accepting, status>>
  BY DEF Join, Lose
<1> QED BY <1>6, <1>7, <1>8 DEF IInv, TypeOK

(* The common part of the two callbacks: link x is left with rest, and     *)
(* the callback of its session c responds or passes the command on.        *)
LEMMA AnsweredKeeps ==
    ASSUME IInv, NEW c \in Https, NEW rest \in [Links -> LinkType],
           \A z \in Links : Fit(rest[z], http),
           \/ link' = rest /\ UNCHANGED http
           \/ link' = rest /\ \E o \in Https \cup {NoSession} : Respond(c, o)
           \/ /\ UNCHANGED http
              /\ \E y \in Links, o \in Https : Past(http[o]) /\ link' = Started(rest, y, c, o),
           UNCHANGED <<sessions, accepting, marusia, mqtt>>, status' \in {"up", "hung", "down"}
    PROVE  IInv'
<1>1. http[c] \in HttpType /\ Orderly(http[c]) /\ http = [http EXCEPT ![c] = http[c]]
  BY SessionTyped DEF IInv, TypeOK
<1>2. CASE link' = rest /\ UNCHANGED http
  BY <1>1, <1>2, LinksKeep DEF Ages
<1>3. CASE link' = rest /\ \E o \in Https \cup {NoSession} : Respond(c, o)
  <2>1. PICK r \in HttpType : Orderly(r) /\ http' = [http EXCEPT ![c] = r] /\ Ages
    BY <1>3, RespondKeeps
  <2>2. \A z \in Links : Fit(rest[z], http')
    BY <2>1, FitAges
  <2> QED BY <1>3, <2>1, <2>2, LinksKeep
<1>4. CASE /\ UNCHANGED http
           /\ \E y \in Links, o \in Https : Past(http[o]) /\ link' = Started(rest, y, c, o)
  <2>1. PICK y \in Links, o \in Https : Past(http[o]) /\ link' = Started(rest, y, c, o)
    BY <1>4
  <2>2. link' \in [Links -> LinkType] /\ \A z \in Links : Fit(link'[z], http)
    BY <2>1, StartedFits
  <2> QED BY <1>1, <1>4, <2>2, LinksKeep DEF Ages
<1> QED BY <1>2, <1>3, <1>4

LEMMA MarusiaAnswerKeeps ==
    ASSUME IInv, NEW x \in MarusiaLinks, NEW k \in 1..2, NEW a \in Answers, MarusiaAnswer(x, k, a)
    PROVE  IInv'
<1> DEFINE c == link[x].callback
           o == Head(link[x].queue)
           rest == [link EXCEPT ![x].queue = SubSeq(@, k + 1, Len(@))]
<1>1. x \in Links /\ link[x] \in LinkType /\ Fit(link[x], http)
  BY DEF IInv, TypeOK, Links
<1>2. link[x].queue \in Seq(Https) /\ link[x].queue # <<>> /\ k <= Len(link[x].queue)
  BY <1>1 DEF MarusiaAnswer, LinkType
<1>3. c \in Https
  BY <1>1, <1>2 DEF Fit
<1>4. o \in Https /\ Past(http[o])
  <2>1. 1 \in DOMAIN link[x].queue /\ o = link[x].queue[1]
    BY <1>2
  <2> QED BY <1>1, <1>2, <2>1 DEF Fit
<1>5. rest \in [Links -> LinkType] /\ \A z \in Links : Fit(rest[z], http)
  <2>1. k \in Nat /\ link \in [Links -> LinkType] /\ \A z \in Links : Fit(link[z], http)
    BY DEF IInv, TypeOK
  <2> QED BY <1>1, <1>2, <2>1, RestFits
<1>6. UNCHANGED <<sessions, accepting, marusia, mqtt>> /\ status' \in {"up", "hung", "down"}
  BY DEF MarusiaAnswer
<1>7. \/ link' = rest /\ UNCHANGED http
      \/ link' = rest /\ \E n \in Https \cup {NoSession} : Respond(c, n)
      \/ /\ UNCHANGED http
         /\ \E y \in Links, n \in Https : Past(http[n]) /\ link' = Started(rest, y, c, n)
  <2> HIDE DEF rest
  <2>1. CASE LiftReachable(c) /\ link' = Started(rest, mqtt[http[c].posLu], c, o) /\ UNCHANGED http
    <3>1. mqtt[http[c].posLu] \in Links
      BY <2>1 DEF LiftReachable, IInv, TypeOK, Links
    <3> QED BY <1>4, <2>1, <3>1
  <2> QED BY <1>4, <2>1 DEF MarusiaAnswer, rest
<1> HIDE DEF rest, c
<1> QED BY <1>3, <1>5, <1>6, <1>7, AnsweredKeeps

LEMMA LiftAnswerKeeps ==
    ASSUME IInv, NEW y \in LiftLinks, LiftAnswer(y)
    PROVE  IInv'
<1> DEFINE c == link[y].callback
           o == Head(link[y].queue)
           rest == [link EXCEPT ![y].queue = Tail(@)]
<1>1. y \in Links /\ link[y] \in LinkType /\ Fit(link[y], http)
  BY DEF IInv, TypeOK, Links
<1>2. link[y].queue \in Seq(Https) /\ link[y].queue # <<>>
  BY <1>1 DEF LiftAnswer, LinkType
<1>3. c \in Https /\ o \in Https
  BY <1>1, <1>2 DEF Fit
<1>4. rest = [link EXCEPT ![y].queue = SubSeq(@, 1 + 1, Len(@))]
  <2>1. Tail(link[y].queue) = SubSeq(link[y].queue, 1 + 1, Len(link[y].queue))
    BY <1>2
  <2> QED BY <2>1, Zenon
<1>5. 1 <= Len(link[y].queue)
  BY <1>2
<1>6. rest \in [Links -> LinkType] /\ \A z \in Links : Fit(rest[z], http)
  BY <1>1, <1>4, <1>5, RestFits DEF IInv, TypeOK
<1>7. UNCHANGED <<sessions, accepting, marusia, mqtt>> /\ status' \in {"up", "hung", "down"}
  BY DEF LiftAnswer
<1>8. CASE UNCHANGED <<http, link>>
  BY <1>7, <1>8, OthersKeep DEF IInv, TypeOK
<1>9. CASE link' = rest /\ (UNCHANGED http \/ Respond(c, o))
  <2> HIDE DEF rest, c, o
  <2> QED BY <1>3, <1>6, <1>7, <1>9, AnsweredKeeps
<1> QED BY <1>8, <1>9 DEF LiftAnswer

LEMMA ClientKeeps ==
    ASSUME IInv, NEW h \in Https, Client(h)
    PROVE  IInv'
<1>1. CASE AnalizeRequestNoSession(h)
  BY <1>1, OthersKeep DEF AnalizeRequestNoSession, IInv, TypeOK
<1> QED BY <1>1, HandshakeKeeps, ReadFailsKeeps, ReadSimpleKeeps, AnalizeRequestKeeps DEF Client

LEMMA AnswerKeeps ==
    ASSUME IInv, NEW x \in Links, Answer(x)
    PROVE  IInv'
BY MarusiaAnswerKeeps, LiftAnswerKeeps DEF Answer

LEMMA NextKeeps == IInv /\ [Next]_vars => IInv'
<1> SUFFICES ASSUME IInv, [Next]_vars PROVE IInv'
  OBVIOUS
<1>1. CASE OnAcceptError \/ KillHttp \/ KillMarusia \/ KillMqtt
  BY <1>1, ListenerKeeps
<1>2. ASSUME NEW h \in Https, OnAccept(h) \/ Client(h) \/ OnWrite(h) \/ OnShutdown(h)
      PROVE  IInv'
  BY <1>2, OnAcceptKeeps, ClientKeeps, OnWriteKeeps
<1>3. ASSUME NEW x \in Links, Join(x) \/ Lose(x) \/ Answer(x) PROVE IInv'
  BY <1>3, WorkersKeep, AnswerKeeps
<1>4. CASE UNCHANGED vars
  BY <1>4, OthersKeep DEF vars, IInv, TypeOK
<1> QED BY <1>1, <1>2, <1>3, <1>4 DEF Next

LEMMA InvAlways == Spec => []IInv
<1>1. Init => IInv
  BY InitGood
<1>2. IInv /\ [Next]_vars => IInv'
  BY NextKeeps
<1> QED BY <1>1, <1>2, PTL DEF Spec

(* Whatever answers of other requests reach the callbacks of a session, it *)
(* responds at most once, because __constructResponse forgets the body it  *)
(* needs; and every session that is over is marked for __killSession.      *)
THEOREM RequestsAlwaysSound == Spec => []RequestsSound
<1>1. IInv => RequestsSound
  BY InvImplies
<1> QED BY <1>1, InvAlways, PTL

(* A lift worker is only ever given commands of requests whose station is  *)
(* in the table, even when the callback that starts the command is another *)
(* session's than the one that asked.                                      *)
THEOREM OnlyRegisteredMoves == Spec => []OnlyRegisteredMove
<1>1. IInv => OnlyRegisteredMove
  BY InvImplies
<1> QED BY <1>1, InvAlways, PTL

(* What __killSession erases is not live, and the other steps erase none.  *)
LEMMA KillSparesWaiting ==
    ASSUME IInv, [Next]_vars, NEW h \in Https,
           http[h].phase \in {"reading", "waiting"}, InList(h)
    PROVE  InList(h)'
<1>1. sessions \in Seq(Https) /\ http[h].live
  BY DEF IInv, TypeOK, Orderly
<1>2. CASE KillHttp
  <2> DEFINE i == FirstDead(sessions, LAMBDA g : http[g].live)
  <2>1. i \in 1..Len(sessions) /\ ~http[sessions[i]].live
    BY <1>1, <1>2, FirstDeadHttp DEF KillHttp
  <2>2. sessions' = RemoveAt(sessions, i)
    BY <1>2 DEF KillHttp
  <2> HIDE DEF i
  <2>3. ToSet(sessions) \subseteq ToSet(sessions') \cup {sessions[i]}
    BY <1>1, <2>1, <2>2, Erased
  <2>4. h # sessions[i]
    BY <1>1, <2>1
  <2> QED BY <2>3, <2>4 DEF InList
<1>3. CASE \E g \in Https : sessions' = Append(sessions, g)
  BY <1>1, <1>3 DEF InList, ToSet
<1>4. CASE UNCHANGED sessions
  BY <1>4 DEF InList
<1>5. ASSUME NEW g \in Https, Client(g) \/ OnWrite(g) \/ OnShutdown(g)
      PROVE  UNCHANGED sessions
  BY <1>5 DEF Client, OnWrite, OnShutdown, HandshakeDone, HandshakeRetry, HandshakeFails,
     ReadFails, ReadSimple, AnalizeRequest, AnalizeRequestNoSession, Becomes
<1>6. ASSUME NEW x \in Links, Join(x) \/ Lose(x) \/ Answer(x)
      PROVE  UNCHANGED sessions
  BY <1>6 DEF Join, Lose, Answer, MarusiaAnswer, LiftAnswer
<1>7. CASE OnAcceptError \/ KillMarusia \/ KillMqtt \/ UNCHANGED vars
  BY <1>4, <1>7 DEF OnAcceptError, KillMarusia, KillMqtt, vars
<1> QED BY <1>2, <1>3, <1>4, <1>5, <1>6, <1>7 DEF Next, OnAccept

(* __killSession never erases a session that reads or waits, so that the   *)
(* plain pointer in a worker session's callback stays good until then.     *)
THEOREM WaitingAlwaysKept == Spec => WaitingKept
<1>1. IInv /\ [Next]_vars =>
        [\A h \in Https :
            http[h].phase \in {"reading", "waiting"} /\ InList(h) => InList(h)']_vars
  BY KillSparesWaiting
<1> QED BY <1>1, InvAlways, PTL DEF Spec, WaitingKept
=============================================================================
