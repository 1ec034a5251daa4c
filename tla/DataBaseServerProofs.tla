------------------------ MODULE DataBaseServerProofs ------------------------
(***************************************************************************)
(* What holds of the data base server for any connections and any number   *)
(* of queries: how far a client that was refused can get on the session    *)
(* that goes on after its stop(), and which sessions are left without an   *)
(* operation.                                                              *)
(***************************************************************************)
EXTENDS DataBaseServer, TLAPS

(* What is known of a session r whatever the others do.  A reply lies in   *)
(* __buf_send exactly while its send is pending, __flag_wrong_connect is   *)
(* set only then, and on an open socket only an accepted client comes to   *)
(* send a command.                                                         *)
Sound(r) ==
    /\ r.client = "none" => r = NewSession
    /\ r.op \in {"none", "connectAnalize", "waitCommand"} => ~r.flagWrong
    /\ r.op \in {"resAutentification", "sendCommand"} =>
         r.toDb = "none" /\ r.client \in {"waiting", "closed"}
    /\ r.op = "resAutentification" => r.buf = IF r.flagWrong THEN "fail" ELSE "ok"
    /\ r.op = "sendCommand" => r.buf \in {"table", "bye"} /\ "ok" \in r.got
    /\ r.toDb # "none" => r.client \in {"waiting", "closed"}
    /\ r.open /\ (r.client = "ready" \/ r.toDb \in {"query", "disconnect"}) => "ok" \in r.got
    /\ "table" \in r.got => "ok" \in r.got
    /\ r.flagExit /\ r.op # "none" => "fail" \in r.got

(* What is known of a session that is in __sessions.                       *)
Listed(r) == r.client # "none" /\ (r.op = "none" => r.flagExit \/ r.stopFailed)

IInv ==
    /\ TypeOK
    /\ \A c \in Conns : Sound(sess[c])
    /\ \A c \in ToSet(sessions) : Listed(sess[c])

LEMMA InvImplies == IInv => SessionsSound
<1> SUFFICES ASSUME IInv PROVE SessionsSound
  OBVIOUS
<1>1. TablesForAccepted
  BY DEF IInv, Sound, TablesForAccepted
<1>2. EndedIsQuiet
  BY DEF IInv, Sound, EndedIsQuiet
<1>3. NeverStranded
  BY DEF IInv, Listed, NeverStranded
<1> QED BY <1>1, <1>2, <1>3 DEF IInv, SessionsSound

LEMMA NewTyped == NewSession \in SessionType
BY ConstantsAssumption DEF NewSession, SessionType, Ops

LEMMA InitGood == Init => IInv
<1> SUFFICES ASSUME Init PROVE IInv
  OBVIOUS
<1>1. NewSession \in SessionType
  BY NewTyped
<1>2. Sound(NewSession)
  BY DEF Sound, NewSession
<1>3. TypeOK
  <2>1. sess \in [Conns -> SessionType]
    BY <1>1 DEF Init
  <2>2. sessions \in Seq(Conns)
    BY DEF Init
  <2> QED BY <2>1, <2>2 DEF Init, TypeOK
<1>4. ToSet(sessions) = {}
  BY DEF Init, ToSet
<1> QED BY <1>2, <1>3, <1>4 DEF Init, IInv

(* A step of one session that is sound after it, and listed if it is one   *)
(* of __sessions, keeps the invariant.                                     *)
LEMMA SessionKeeps ==
    ASSUME IInv, NEW c \in Conns, NEW r \in SessionType, Sound(r),
           c \in ToSet(sessions) => Listed(r),
           sess' = [sess EXCEPT ![c] = r], UNCHANGED sessions,
           tempSend' \in Conns \cup {Nobody}, skewed' \in BOOLEAN, down' \in BOOLEAN
    PROVE  IInv'
<1>1. TypeOK'
  BY DEF IInv, TypeOK
<1>2. ASSUME NEW d \in Conns PROVE sess'[d] = IF d = c THEN r ELSE sess[d]
  BY DEF IInv, TypeOK
<1>3. \A d \in Conns : Sound(sess'[d])
  BY <1>2 DEF IInv
<1>4. ToSet(sessions) \subseteq Conns
  BY DEF IInv, TypeOK, ToSet
<1>5. \A d \in ToSet(sessions') : Listed(sess'[d])
  BY <1>2, <1>4 DEF IInv
<1> QED BY <1>1, <1>3, <1>5 DEF IInv

(* The same for the step of a session that is new in __sessions.           *)
LEMMA AppendKeeps ==
    ASSUME IInv, NEW c \in Conns, NEW r \in SessionType, Sound(r), Listed(r),
           sess' = [sess EXCEPT ![c] = r], sessions' = Append(sessions, c),
           UNCHANGED <<tempSend, skewed, down>>
    PROVE  IInv'
<1>1. TypeOK'
  BY DEF IInv, TypeOK
<1>2. ASSUME NEW d \in Conns PROVE sess'[d] = IF d = c THEN r ELSE sess[d]
  BY DEF IInv, TypeOK
<1>3. \A d \in Conns : Sound(sess'[d])
  BY <1>2 DEF IInv
<1>4. ToSet(sessions) \subseteq Conns
  BY DEF IInv, TypeOK, ToSet
<1>5. ToSet(sessions') \subseteq ToSet(sessions) \cup {c}
  BY DEF IInv, TypeOK, ToSet
<1>6. \A d \in ToSet(sessions') : Listed(sess'[d])
  BY <1>2, <1>4, <1>5 DEF IInv
<1> QED BY <1>1, <1>3, <1>6 DEF IInv

(* A step that touches no session and adds none to the vector.             *)
LEMMA OthersKeep ==
    ASSUME IInv, UNCHANGED sess, sessions' \in Seq(Conns), ToSet(sessions') \subseteq ToSet(sessions),
           tempSend' \in Conns \cup {Nobody}, skewed' \in BOOLEAN, down' \in BOOLEAN
    PROVE  IInv'
BY DEF IInv, TypeOK

LEMMA CrashKeeps ==
    ASSUME IInv, Crashes
    PROVE  IInv'
BY OthersKeep DEF Crashes, IInv, TypeOK
-----------------------------------------------------------------------------
(* One lemma per action.                                                   *)

LEMMA ConnectsKeeps ==
    ASSUME IInv, NEW c \in Conns, NEW good \in BOOLEAN, Connects(c, good)
    PROVE  IInv'
<1> DEFINE r == [NewSession EXCEPT !.client = "new", !.good = good, !.open = TRUE]
<1>1. r \in SessionType
  BY NewTyped, Zenon DEF SessionType
<1>2. Sound(r)
  BY DEF Sound, NewSession
<1>3. c \notin ToSet(sessions)
  BY DEF Connects, IInv, Listed
<1> QED BY <1>1, <1>2, <1>3, SessionKeeps DEF Connects, Becomes, IInv, TypeOK

LEMMA ClientSendsKeeps ==
    ASSUME IInv, NEW c \in Conns, NEW m \in {"connect", "query", "disconnect"}, ClientSends(c, m)
    PROVE  IInv'
<1> DEFINE r == sess[c]
           q == IF m = "query" THEN r.queries + 1 ELSE r.queries
           x == [r EXCEPT !.client = "waiting", !.toDb = m, !.queries = q]
<1>1. r \in SessionType /\ Sound(r)
  BY DEF IInv, TypeOK
<1>2. q \in 0..MaxQueries
  BY <1>1, ConstantsAssumption DEF ClientSends, SessionType
<1>3. x \in SessionType
  <2> HIDE DEF q
  <2> QED BY <1>1, <1>2 DEF SessionType
<1>4. Sound(x)
  <2> HIDE DEF q
  <2> QED BY <1>1 DEF Sound, SessionType, ClientSends
<1>5. Listed(r) => Listed(x)
  <2> HIDE DEF q
  <2> QED BY <1>1 DEF Listed, SessionType
<1>6. Becomes(c, x)
  BY DEF ClientSends
<1> QED BY <1>3, <1>4, <1>5, <1>6, SessionKeeps DEF Becomes, IInv, TypeOK

LEMMA ClientClosesKeeps ==
    ASSUME IInv, NEW c \in Conns, ClientCloses(c)
    PROVE  IInv'
<1> DEFINE r == sess[c]
           x == [r EXCEPT !.client = "closed"]
<1>1. r \in SessionType /\ Sound(r)
  BY DEF IInv, TypeOK
<1>2. x \in SessionType
  BY <1>1 DEF SessionType
<1>3. Sound(x) /\ (Listed(r) => Listed(x))
  BY <1>1 DEF Sound, SessionType, ClientCloses, Listed
<1> QED BY <1>2, <1>3, SessionKeeps DEF ClientCloses, Becomes, IInv, TypeOK

(* What stop() leaves of a session: its type and its reply, and a flag     *)
(* that says that it ended or that stop() threw.                           *)
LEMMA StopsSound ==
    ASSUME NEW r \in SessionType, NEW x \in Stops(r)
    PROVE  /\ x \in SessionType
           /\ x.flagExit \/ x.stopFailed
           /\ x.open => r.open /\ r.client = "closed"
           /\ x = [r EXCEPT !.open = x.open, !.flagExit = x.flagExit, !.stopFailed = x.stopFailed]
<1>1. CASE x = [r EXCEPT !.open = FALSE, !.flagExit = TRUE]
  BY <1>1 DEF SessionType
<1>2. CASE x = [r EXCEPT !.stopFailed = TRUE] /\ (r.open => r.client = "closed")
  BY <1>2 DEF SessionType
<1> QED BY <1>1, <1>2 DEF Stops

LEMMA StartedSound ==
    ASSUME NEW r \in SessionType, Sound(r), r.op = "none", r.client # "none", ~r.flagExit,
           NEW x \in Started(r)
    PROVE  x \in SessionType /\ Sound(x) /\ Listed(x)
<1>1. CASE x = Await(r, "connectAnalize")
  <2>1. x \in SessionType
    BY <1>1 DEF Await, SessionType, Ops
  <2> QED BY <1>1, <2>1 DEF Await, SessionType, Sound, Listed
<1>2. CASE x \in Stops(r)
  <2>1. x \in SessionType /\ (x.flagExit \/ x.stopFailed) /\ (x.open => r.open)
    BY <1>2, StopsSound
  <2>2. x = [r EXCEPT !.open = x.open, !.flagExit = x.flagExit, !.stopFailed = x.stopFailed]
    BY <1>2, StopsSound
  <2>3. /\ x.op = r.op /\ x.buf = r.buf /\ x.flagWrong = r.flagWrong /\ x.client = r.client
        /\ x.toDb = r.toDb /\ x.got = r.got
    BY <2>2 DEF SessionType
  <2> QED BY <2>1, <2>3 DEF Sound, Listed
<1> QED BY <1>1, <1>2 DEF Started

LEMMA AcceptKeeps ==
    ASSUME IInv, NEW c \in Conns, Accept(c) \/ AcceptError(c)
    PROVE  IInv'
<1>1. CASE Accept(c)
  <2>1. PICK x \in Started(sess[c]) : sess' = [sess EXCEPT ![c] = x]
    BY <1>1 DEF Accept
  <2>2. sess[c] \in SessionType /\ Sound(sess[c])
    BY DEF IInv, TypeOK
  <2>3. x \in SessionType /\ Sound(x) /\ Listed(x)
    BY <1>1, <2>2, StartedSound DEF Accept
  <2> QED BY <1>1, <2>1, <2>3, AppendKeeps DEF Accept
<1>2. CASE AcceptError(c)
  <2> DEFINE r == [NewSession EXCEPT !.client = "closed"]
  <2>1. PICK x \in Started(r) : sess' = [sess EXCEPT ![c] = x]
    BY <1>2 DEF AcceptError
  <2>2. r \in SessionType
    BY NewTyped, Zenon DEF SessionType
  <2>3. Sound(r) /\ r.op = "none" /\ r.client # "none" /\ ~r.flagExit
    BY DEF Sound, NewSession
  <2>4. x \in SessionType /\ Sound(x) /\ Listed(x)
    <3> HIDE DEF r
    <3> QED BY <2>2, <2>3, StartedSound
  <2> QED BY <1>2, <2>1, <2>4, AppendKeeps DEF AcceptError
<1> QED BY <1>1, <1>2

LEMMA ResetTimerKeeps ==
    ASSUME IInv, ResetTimer
    PROVE  IInv'
<1>1. CASE Crashes
  BY <1>1, CrashKeeps
<1>2. CASE /\ Exited # {}
           /\ sessions' = SubSeq(sessions, 1, Len(sessions) - 1)
           /\ UNCHANGED <<sess, tempSend, skewed, down>>
  <2>1. sessions \in Seq(Conns)
    BY DEF IInv, TypeOK
  <2>2. Len(sessions) # 0
    BY <1>2, <2>1 DEF Exited
  <2>3. sessions' \in Seq(Conns)
    BY <1>2, <2>1, <2>2
  <2>4. ToSet(sessions') \subseteq ToSet(sessions)
    BY <1>2, <2>1, <2>2 DEF ToSet
  <2> QED BY <1>2, <2>3, <2>4, OthersKeep DEF IInv, TypeOK
<1> QED BY <1>1, <1>2 DEF ResetTimer

LEMMA ConnectAnalizeKeeps ==
    ASSUME IInv, NEW c \in Conns, ConnectAnalize(c)
    PROVE  IInv'
<1> DEFINE s == sess[c]
           r == [s EXCEPT !.toDb = "none", !.op = "resAutentification", !.flagSend = TRUE]
<1>1. s \in SessionType /\ Sound(s)
  BY DEF IInv, TypeOK
<1>2. s.op = "connectAnalize" /\ s.toDb = "connect"
  BY DEF ConnectAnalize, Ready
<1>3. CASE Becomes(c, [r EXCEPT !.buf = "ok"])
  <2> DEFINE x == [r EXCEPT !.buf = "ok"]
  <2>1. x \in SessionType
    BY <1>1 DEF SessionType, Ops
  <2>2. Sound(x) /\ (Listed(s) => Listed(x))
    BY <1>1, <1>2 DEF SessionType, Sound, Listed
  <2> QED BY <1>3, <2>1, <2>2, SessionKeeps DEF Becomes, IInv, TypeOK
<1>4. CASE Becomes(c, [r EXCEPT !.buf = "fail", !.flagWrong = TRUE])
  <2> DEFINE x == [r EXCEPT !.buf = "fail", !.flagWrong = TRUE]
  <2>1. x \in SessionType
    BY <1>1 DEF SessionType, Ops
  <2>2. Sound(x) /\ (Listed(s) => Listed(x))
    BY <1>1, <1>2 DEF SessionType, Sound, Listed
  <2> QED BY <1>4, <2>1, <2>2, SessionKeeps DEF Becomes, IInv, TypeOK
<1> QED BY <1>3, <1>4, CrashKeeps DEF ConnectAnalize

LEMMA WaitCommandKeeps ==
    ASSUME IInv, NEW c \in Conns, WaitCommand(c)
    PROVE  IInv'
<1> DEFINE s == sess[c]
           r == [s EXCEPT !.toDb = "none", !.op = "sendCommand", !.flagSend = TRUE]
<1>1. s \in SessionType /\ Sound(s)
  BY DEF IInv, TypeOK
<1>2. s.op = "waitCommand" /\ s.toDb \in {"query", "disconnect"}
  BY DEF WaitCommand, Ready
<1>3. s.open
  BY <1>1 DEF WaitCommand, SessionType
<1>4. CASE Becomes(c, [r EXCEPT !.buf = "table"])
  <2> DEFINE x == [r EXCEPT !.buf = "table"]
  <2>1. x \in SessionType
    BY <1>1 DEF SessionType, Ops
  <2>2. Sound(x) /\ (Listed(s) => Listed(x))
    BY <1>1, <1>2, <1>3 DEF SessionType, Sound, Listed
  <2> QED BY <1>4, <2>1, <2>2, SessionKeeps DEF Becomes, IInv, TypeOK
<1>5. CASE Becomes(c, [r EXCEPT !.buf = "bye", !.flagWrong = TRUE])
  <2> DEFINE x == [r EXCEPT !.buf = "bye", !.flagWrong = TRUE]
  <2>1. x \in SessionType
    BY <1>1 DEF SessionType, Ops
  <2>2. Sound(x) /\ (Listed(s) => Listed(x))
    BY <1>1, <1>2, <1>3 DEF SessionType, Sound, Listed
  <2> QED BY <1>5, <2>1, <2>2, SessionKeeps DEF Becomes, IInv, TypeOK
<1> QED BY <1>4, <1>5, CrashKeeps DEF WaitCommand

(* A reply that is sent is in got, and only the client that waited for it  *)
(* becomes ready.                                                          *)
LEMMA SentSound ==
    ASSUME NEW s \in SessionType, s.buf # "none"
    PROVE  /\ Sent(s) \in SessionType
           /\ Sent(s).op = s.op /\ Sent(s).toDb = s.toDb
           /\ Sent(s).flagWrong = s.flagWrong /\ Sent(s).flagExit = s.flagExit
           /\ Sent(s).got = s.got \cup {s.buf}
           /\ Sent(s).client = IF s.client = "waiting" THEN "ready" ELSE s.client
<1>1. s.got \cup {s.buf} \in SUBSET {"ok", "fail", "table", "bye"}
  BY DEF SessionType
<1>2. (IF s.client = "waiting" THEN "ready" ELSE s.client)
          \in {"none", "new", "waiting", "ready", "closed"}
  BY DEF SessionType
<1>3. "none" \in {"none", "ok", "fail", "table", "bye"}
  OBVIOUS
<1> QED BY <1>1, <1>2, <1>3, Zenon DEF Sent, SessionType

LEMMA ResAutentificationKeeps ==
    ASSUME IInv, NEW c \in Conns, ResAutentification(c)
    PROVE  IInv'
<1> DEFINE s == sess[c]
           r == Sent(s)
           next(y) == Await([y EXCEPT !.flagSend = FALSE], "waitCommand")
<1>1. s \in SessionType /\ Sound(s)
  BY DEF IInv, TypeOK
<1>2. s.op = "resAutentification"
  BY DEF ResAutentification, Ready
<1>3. /\ s.buf = (IF s.flagWrong THEN "fail" ELSE "ok") /\ s.toDb = "none"
      /\ s.client \in {"waiting", "closed"}
  BY <1>1, <1>2 DEF Sound
<1>4. r \in SessionType
  BY <1>1, <1>3, SentSound
<1>5. /\ r.flagWrong = s.flagWrong /\ r.toDb = "none" /\ r.client \in {"ready", "closed"}
      /\ r.got = s.got \cup {s.buf} /\ r.op = s.op
  BY <1>1, <1>3, SentSound
<1>6. ASSUME NEW x \in SessionType, Becomes(c, x), x.client \in {"ready", "closed"},
             x.op = "waitCommand", ~x.flagWrong, x.toDb = "none", x.got = r.got,
             x.open /\ x.client = "ready" => "ok" \in r.got,
             x.flagExit => s.flagExit \/ "fail" \in r.got
      PROVE  IInv'
  <2>1. Sound(x)
    BY <1>1, <1>2, <1>3, <1>5, <1>6 DEF Sound
  <2>2. Listed(x)
    BY <1>6 DEF Listed
  <2> QED BY <2>1, <2>2, <1>6, SessionKeeps DEF Becomes, IInv, TypeOK
<1>7. CASE r.flagWrong
  <2>1. PICK y \in Stops(r) : Becomes(c, next([y EXCEPT !.flagWrong = FALSE]))
    BY <1>7 DEF ResAutentification
  <2> DEFINE x == next([y EXCEPT !.flagWrong = FALSE])
  <2>2. y \in SessionType /\ (y.open => r.client = "closed")
    BY <1>4, StopsSound
  <2>3. y.client = r.client /\ y.toDb = r.toDb /\ y.got = r.got
    <3>1. y = [r EXCEPT !.open = y.open, !.flagExit = y.flagExit, !.stopFailed = y.stopFailed]
      BY <1>4, StopsSound
    <3> QED BY <1>4, <3>1 DEF SessionType
  <2>4. x \in SessionType
    BY <2>2 DEF SessionType, Await, Ops
  <2>5. /\ x.client = y.client /\ x.op = "waitCommand" /\ ~x.flagWrong /\ x.toDb = y.toDb
        /\ x.got = y.got /\ x.open = y.open
    BY <2>2 DEF SessionType, Await
  <2>6. "fail" \in r.got
    BY <1>3, <1>5, <1>7
  <2> HIDE DEF x
  <2>7. Becomes(c, x)
    BY <2>1 DEF x
  <2> QED BY <2>2, <2>3, <2>4, <2>5, <2>6, <2>7, <1>5, <1>6
<1>8. CASE ~r.flagWrong
  <2> DEFINE x == next(r)
  <2>1. Becomes(c, x)
    BY <1>8 DEF ResAutentification
  <2>2. x \in SessionType
    BY <1>4 DEF SessionType, Await, Ops
  <2>3. /\ x.client = r.client /\ x.op = "waitCommand" /\ x.flagWrong = r.flagWrong
        /\ x.toDb = r.toDb /\ x.got = r.got /\ x.flagExit = r.flagExit
    BY <1>4 DEF SessionType, Await
  <2>4. r.flagExit = s.flagExit
    BY <1>1, <1>3, SentSound
  <2>5. "ok" \in r.got
    BY <1>3, <1>5, <1>8
  <2> HIDE DEF x
  <2> QED BY <1>8, <2>1, <2>2, <2>3, <2>4, <2>5, <1>5, <1>6
<1> QED BY <1>7, <1>8

LEMMA SendCommandKeeps ==
    ASSUME IInv, NEW c \in Conns, SendCommand(c)
    PROVE  IInv'
<1> DEFINE s == sess[c]
           r == Sent(s)
           e == [r EXCEPT !.flagWrong = FALSE]
<1>1. s \in SessionType /\ Sound(s)
  BY DEF IInv, TypeOK
<1>2. s.op = "sendCommand"
  BY DEF SendCommand, Ready
<1>3. /\ s.buf \in {"table", "bye"} /\ "ok" \in s.got
      /\ s.toDb = "none" /\ s.client \in {"waiting", "closed"}
  BY <1>1, <1>2 DEF Sound
<1>4. r \in SessionType
  BY <1>1, <1>3, SentSound
<1>5. /\ r.toDb = "none" /\ r.client \in {"ready", "closed"}
      /\ r.got = s.got \cup {s.buf} /\ r.flagExit = s.flagExit /\ r.flagWrong = s.flagWrong
  BY <1>1, <1>3, SentSound
<1>6. ASSUME NEW x \in SessionType, sess' = [sess EXCEPT ![c] = x],
             x.client = r.client, x.toDb = r.toDb, x.got = r.got, ~x.flagWrong,
             \/ x.op = "none" /\ (x.flagExit \/ x.stopFailed)
             \/ x.op = "waitCommand" /\ x.flagExit = r.flagExit
      PROVE  IInv'
  <2>1. Sound(x)
    BY <1>1, <1>2, <1>3, <1>5, <1>6 DEF Sound
  <2>2. Listed(x)
    BY <1>5, <1>6 DEF Listed
  <2> QED BY <2>1, <2>2, <1>6, SessionKeeps DEF SendCommand, IInv, TypeOK
<1>7. CASE r.flagWrong
  <2>1. PICK x : /\ \E y \in Stops(e) : x = Await(y, "none")
                 /\ sess' = [sess EXCEPT ![c] = x]
    BY <1>7 DEF SendCommand
  <2>2. PICK y \in Stops(e) : x = Await(y, "none")
    BY <2>1
  <2>3. e \in SessionType
    BY <1>4, Zenon DEF SessionType
  <2>4. e.client = r.client /\ e.toDb = r.toDb /\ e.got = r.got /\ ~e.flagWrong
    BY <1>4 DEF SessionType
  <2> HIDE DEF e
  <2>5. y \in SessionType /\ (y.flagExit \/ y.stopFailed)
    BY <2>3, StopsSound
  <2>6. y.client = e.client /\ y.toDb = e.toDb /\ y.got = e.got /\ y.flagWrong = e.flagWrong
    <3>1. y = [e EXCEPT !.open = y.open, !.flagExit = y.flagExit, !.stopFailed = y.stopFailed]
      BY <2>3, StopsSound
    <3> QED BY <2>3, <3>1 DEF SessionType
  <2>7. x \in SessionType
    BY <2>2, <2>5 DEF SessionType, Await, Ops
  <2>8. /\ x.client = y.client /\ x.toDb = y.toDb /\ x.got = y.got /\ x.flagWrong = y.flagWrong
        /\ x.op = "none" /\ x.flagExit = y.flagExit /\ x.stopFailed = y.stopFailed
    BY <2>2, <2>5, Zenon DEF SessionType, Await
  <2> QED BY <1>6, <2>1, <2>4, <2>5, <2>6, <2>7, <2>8
<1>8. CASE ~r.flagWrong
  <2> DEFINE x == Await(r, "waitCommand")
  <2>1. sess' = [sess EXCEPT ![c] = x]
    BY <1>8 DEF SendCommand
  <2>2. x \in SessionType
    BY <1>4 DEF SessionType, Await, Ops
  <2>3. /\ x.client = r.client /\ x.toDb = r.toDb /\ x.got = r.got
        /\ x.flagWrong = r.flagWrong /\ x.op = "waitCommand" /\ x.flagExit = r.flagExit
    BY <1>4, Zenon DEF SessionType, Await
  <2> HIDE DEF x
  <2> QED BY <1>6, <1>8, <2>1, <2>2, <2>3
<1> QED BY <1>7, <1>8

LEMMA RetryKeeps ==
    ASSUME IInv, NEW c \in Conns, Retry(c)
    PROVE  IInv'
<1>1. CASE ReceiveAgain(c) \/ SendAgain(c)
  BY <1>1, OthersKeep DEF ReceiveAgain, SendAgain, vars, IInv, TypeOK
<1>2. CASE SendPart(c)
  BY <1>2, OthersKeep DEF SendPart, IInv, TypeOK
<1>3. CASE SendSkews(c)
  BY <1>3, OthersKeep DEF SendSkews, IInv, TypeOK
<1> QED BY <1>1, <1>2, <1>3 DEF Retry

LEMMA NextKeeps == IInv /\ [Next]_vars => IInv'
<1> SUFFICES ASSUME IInv, [Next]_vars PROVE IInv'
  OBVIOUS
<1>1. CASE ResetTimer
  BY <1>1, ResetTimerKeeps
<1>2. ASSUME NEW c \in Conns, Client(c) PROVE IInv'
  BY <1>2, ConnectsKeeps, ClientSendsKeeps, ClientClosesKeeps DEF Client
<1>3. ASSUME NEW c \in Conns, Handler(c) PROVE IInv'
  BY <1>3, ConnectAnalizeKeeps, ResAutentificationKeeps, WaitCommandKeeps, SendCommandKeeps
     DEF Handler
<1>4. CASE UNCHANGED vars
  BY <1>4, OthersKeep DEF vars, IInv, TypeOK
<1> QED BY <1>1, <1>2, <1>3, <1>4, AcceptKeeps, RetryKeeps DEF Next

(* Whatever the clients send and whenever they close, a session of the     *)
(* data base server sends tables only to a client that it accepted, is     *)
(* never left in __sessions without an operation unless it has ended or    *)
(* its stop() threw, and goes on after it ended only if its client was     *)
(* refused.                                                                *)
THEOREM SessionsAlwaysSound == Spec => []SessionsSound
<1>1. Init => IInv
  BY InitGood
<1>2. IInv /\ [Next]_vars => IInv'
  BY NextKeeps
<1>3. IInv => SessionsSound
  BY InvImplies
<1> QED BY <1>1, <1>2, <1>3, PTL DEF Spec
=============================================================================
