----------------------------- MODULE HTTPSServer -----------------------------
(***************************************************************************)
(* A voice request on its way through the main server:                     *)
(* MainServer/Modules/HTTPSServer/HTTPSServer.cpp, with the sessions of    *)
(* the two worker servers (WorkerServer.cpp) as it uses them.              *)
(*                                                                         *)
(* The Listener makes a Session for every HTTPS connection and erases the  *)
(* sessions that are not live.  A session reads one request, finds the     *)
(* Marusia worker and the lift worker of the station in the tables, and    *)
(* starts a command on the Marusia worker's session, with a callback bound *)
(* to a plain `this`.  The worker's answer is either the phrase to say or  *)
(* a lift command, which the callback starts on the lift worker's session. *)
(*                                                                         *)
(* The link below a worker session (ping, overlapping sends, coalesced     *)
(* reads) is the subject of WorkerServer; here a session is live or not    *)
(* and answers its commands in order.                                      *)
(***************************************************************************)
EXTENDS Naturals, Sequences, SequencesExt

CONSTANTS
    Https,          \* the HTTPS connections of one behaviour
    Stations,       \* application ids that requests can carry
    Registered,     \* those in the table MarussiaStation
    StationWorkers, \* station |-> its WorkerId and SecondWorkerId
    StationBlock,   \* station |-> its LiftBlockId
    BlockWorkers,   \* row of LiftBlocks |-> its WorkerLuId and SecondWorkerLuId
    MarusiaLinks,   \* connections that Marusia workers make
    LiftLinks,      \* connections that lift workers make
    WorkerOf,       \* connection |-> id of the worker that makes it
    Answers,        \* what Marusia workers answer: subset of {"static", "move"}
    NoSession,      \* no callback, no request
    MaxReconnect    \* __RECONNECT_MAX

Links == MarusiaLinks \cup LiftLinks

ASSUME TablesAssumption ==
    /\ Registered \subseteq Stations
    /\ NoSession \notin Https \cup Stations
    /\ DOMAIN StationWorkers = Registered
    /\ DOMAIN StationBlock = Registered
    /\ MarusiaLinks \cap LiftLinks = {}
    /\ DOMAIN WorkerOf = Links
    /\ Answers \subseteq {"static", "move"}
    /\ MaxReconnect \in Nat

VARIABLES
    http,       \* the HTTPS sessions
    sessions,   \* Listener::__sessions
    accepting,  \* an async_accept of the Listener is pending
    link,       \* the worker sessions
    marusia,    \* __sessions_marusia, the Marusia server's vector
    mqtt,       \* __sessions_mqtt, the lift server's vector
    status      \* of the process: "up", "hung" in a loop, or "down"

vars == <<http, sessions, accepting, link, marusia, mqtt, status>>

-----------------------------------------------------------------------------
(* phase names the pending operation of a session; in "waiting" and "gone" *)
(* there is none.                                                          *)
HttpType ==
    [phase     : {"none", "handshake", "reading", "waiting", "writing", "closing", "gone"},
     live      : BOOLEAN,                    \* __is_live
     tries     : 0..MaxReconnect,            \* __reconnect_count
     station   : Stations \cup {NoSession},  \* application_id of the request
     body      : BOOLEAN,                    \* __body_request is there
     keep      : BOOLEAN,                    \* keep_alive of the response
     posLu     : Nat,                        \* __pos_worker_lu
     responses : Nat,                        \* responses sent
     answerTo  : Https \cup {NoSession}]     \* whose command the answer is for

NewHttp == [phase |-> "none", live |-> FALSE, tries |-> 0, station |-> NoSession,
            body |-> FALSE, keep |-> FALSE, posLu |-> 0, responses |-> 0,
            answerTo |-> NoSession]

(* A worker session: its life, the HTTPS session its _callback is bound to *)
(* and the commands sent and not answered, by the request they carry.      *)
LinkType == [state : {"new", "live", "dead"}, callback : Https \cup {NoSession},
             queue : Seq(Https)]

NewLink == [state |-> "new", callback |-> NoSession, queue |-> <<>>]

(* Every HTTPS session, worker session and vector keeps its type.          *)
TypeOK ==
    /\ http \in [Https -> HttpType]
    /\ sessions \in Seq(Https)
    /\ accepting \in BOOLEAN
    /\ link \in [Links -> LinkType]
    /\ marusia \in Seq(MarusiaLinks)
    /\ mqtt \in Seq(LiftLinks)
    /\ status \in {"up", "hung", "down"}

Init ==
    /\ http = [h \in Https |-> NewHttp]
    /\ sessions = <<>>
    /\ accepting = TRUE
    /\ link = [x \in Links |-> NewLink]
    /\ marusia = <<>>
    /\ mqtt = <<>>
    /\ status = "up"

InList(h) == h \in ToSet(sessions)

(* The vector and the handlers of pending operations own a session.        *)
Destroyed(h) == ~InList(h) /\ http[h].phase \in {"none", "waiting", "gone"}

(* A plain step of session h.                                              *)
Becomes(h, r) ==
    /\ http' = [http EXCEPT ![h] = r]
    /\ UNCHANGED <<sessions, accepting, link, marusia, mqtt, status>>

-----------------------------------------------------------------------------
(* Listener                                                                *)

OnAccept(h) ==
    /\ status = "up" /\ accepting
    /\ http[h].phase = "none"
    /\ http' = [http EXCEPT ![h].phase = "handshake"]
    /\ sessions' = Append(sessions, h)
    /\ UNCHANGED <<accepting, link, marusia, mqtt, status>>

(* After one error the Listener accepts no connection any more.            *)
OnAcceptError ==
    /\ status = "up" /\ accepting
    /\ accepting' = FALSE
    /\ UNCHANGED <<http, sessions, link, marusia, mqtt, status>>

FirstDead(seq, alive(_)) == SelectInSeq(seq, LAMBDA x : ~alive(x))

KillHttp ==
    LET i == FirstDead(sessions, LAMBDA h : http[h].live)
    IN  /\ status = "up"
        /\ i # 0
        /\ sessions' = RemoveAt(sessions, i)
        /\ UNCHANGED <<http, accepting, link, marusia, mqtt, status>>

-----------------------------------------------------------------------------
(* Session up to the request                                               *)

(* __onHandshake.  A failed handshake is tried again after the certificate *)
(* was read anew, MaxReconnect times.                                      *)
HandshakeDone(h) ==
    /\ status = "up" /\ http[h].phase = "handshake"
    /\ Becomes(h, [http[h] EXCEPT !.live = TRUE, !.phase = "reading"])

HandshakeRetry(h) ==
    /\ status = "up" /\ http[h].phase = "handshake"
    /\ http[h].tries < MaxReconnect
    /\ Becomes(h, [http[h] EXCEPT !.tries = @ + 1])

(* The certificate cannot be read, or the tries are used up.               *)
HandshakeFails(h) ==
    /\ status = "up" /\ http[h].phase = "handshake"
    /\ Becomes(h, [http[h] EXCEPT !.live = FALSE, !.phase = "gone"])

(* __onRead with an error or a timeout, and with end_of_stream.            *)
ReadFails(h) ==
    /\ status = "up" /\ http[h].phase = "reading"
    /\ \E p \in {"gone", "closing"} : Becomes(h, [http[h] EXCEPT !.live = FALSE, !.phase = p])

(* A response to what needs no worker: a wrong method or a body that is    *)
(* not JSON (__badRequest, which ends the session's life first), OPTIONS.  *)
ReadSimple(h, bad) ==
    /\ status = "up" /\ http[h].phase = "reading"
    /\ Becomes(h, [http[h] EXCEPT !.phase = "writing", !.live = ~bad, !.keep = ~bad,
                                  !.responses = @ + 1])

-----------------------------------------------------------------------------
(* __constructResponse: needs the body of the request and forgets it.      *)
\* Mutant of Responded: the body is kept.
RespondedKeepsBody(r, origin, keep) ==
    [r EXCEPT !.phase = "writing", !.keep = keep,
              !.responses = @ + 1, !.answerTo = origin]

Responded(r, origin, keep) ==
    [r EXCEPT !.phase = "writing", !.body = FALSE, !.keep = keep,
              !.responses = @ + 1, !.answerTo = origin]

(* startCommand of a worker session: nothing happens on one not live.      *)
Started(links, x, c, origin) ==
    IF links[x].state = "live"
    THEN [links EXCEPT ![x].callback = c, ![x].queue = Append(@, origin)]
    ELSE links

(* The first session of the vector that belongs to one of the workers ids, *)
(* live or not; 0 when there is none.                                      *)
Position(vec, ids) == SelectInSeq(vec, LAMBDA x : WorkerOf[x] \in ids)

\* Mutant of AnalizeRequest: an unregistered station is served like the first registered one.
AnalizeRequestAnyStation(h, st) ==
    LET s == IF st \in Registered THEN st ELSE CHOOSE x \in Registered : TRUE
        m == Position(marusia, StationWorkers[s])
        l == Position(mqtt, BlockWorkers[StationBlock[s]])
    IN  /\ status = "up" /\ http[h].phase = "reading"
        /\ m # 0 /\ l # 0
        /\ http' = [http EXCEPT ![h] = [@ EXCEPT !.station = st, !.body = TRUE,
                                                 !.phase = "waiting", !.posLu = l]]
        /\ link' = Started(link, marusia[m], h, h)
        /\ UNCHANGED <<sessions, accepting, marusia, mqtt, status>>

\* Mutant of AnalizeRequest: the session counts as finished once the command is started.
AnalizeRequestNotLive(h, st) ==
    LET m == Position(marusia, StationWorkers[st])
        l == Position(mqtt, BlockWorkers[StationBlock[st]])
    IN  /\ status = "up" /\ http[h].phase = "reading"
        /\ st \in Registered
        /\ m # 0 /\ l # 0
        /\ http' = [http EXCEPT ![h] = [@ EXCEPT !.station = st, !.body = TRUE, !.live = FALSE,
                                                 !.phase = "waiting", !.posLu = l]]
        /\ link' = Started(link, marusia[m], h, h)
        /\ UNCHANGED <<sessions, accepting, marusia, mqtt, status>>

(* __analizeRequest of a POST for station st.  A request that cannot be    *)
(* served (no Marusia session at all, station or lift block not in the     *)
(* tables, no session of the workers) is answered at once.                 *)
Served(st) ==
    /\ marusia # <<>>
    /\ st \in Registered
    /\ Position(marusia, StationWorkers[st]) # 0
    /\ StationBlock[st] \in DOMAIN BlockWorkers
    /\ Position(mqtt, BlockWorkers[StationBlock[st]]) # 0

AnalizeRequest(h, st) ==
    LET r == [http[h] EXCEPT !.station = st, !.body = TRUE]
    IN  /\ status = "up" /\ http[h].phase = "reading"
        /\ \/ /\ ~Served(st)
              /\ \E keep \in BOOLEAN : Becomes(h, Responded(r, NoSession, keep))
           \/ /\ Served(st)
              /\ http' = [http EXCEPT ![h] = [r EXCEPT
                    !.phase = "waiting",
                    !.posLu = Position(mqtt, BlockWorkers[StationBlock[st]])]]
              /\ link' = Started(link, marusia[Position(marusia, StationWorkers[st])], h, h)
              /\ UNCHANGED <<sessions, accepting, marusia, mqtt, status>>

(* A POST whose JSON lacks the fields of a station's request: the response *)
(* cannot be constructed either, and the exception leaves the handler.     *)
AnalizeRequestNoSession(h) ==
    /\ status = "up" /\ http[h].phase = "reading"
    /\ status' = "down"
    /\ UNCHANGED <<http, sessions, accepting, link, marusia, mqtt>>

-----------------------------------------------------------------------------
(* The callbacks.  Without the body __constructResponse throws: what the   *)
(* callback of a Marusia session throws is caught and the message dropped. *)
(* A call on a destroyed session is the end of the process.                *)
Respond(c, origin) ==
    IF http[c].body
    THEN \E keep \in BOOLEAN : http' = [http EXCEPT ![c] = Responded(@, origin, keep)]
    ELSE UNCHANGED http

LiftReachable(c) == http[c].posLu \in DOMAIN mqtt

(* __callbackWorkerMarussia for the answer a to the first command of link  *)
(* x.  k answers arrived together; SessionMarusia looks at the first only. *)
MarusiaAnswer(x, k, a) ==
    LET c == link[x].callback
        origin == Head(link[x].queue)
        rest == [link EXCEPT ![x].queue = SubSeq(@, k + 1, Len(@))]
    IN  /\ status = "up"
        /\ link[x].state = "live" /\ k <= Len(link[x].queue)
        /\ \/ /\ Destroyed(c)
              /\ status' = "down" /\ link' = rest /\ UNCHANGED http
           \/ /\ ~Destroyed(c) /\ a = "static"
              /\ Respond(c, origin)
              /\ link' = rest /\ UNCHANGED status
           \/ /\ ~Destroyed(c) /\ a = "move" /\ ~LiftReachable(c)
              /\ Respond(c, NoSession)
              /\ link' = rest /\ UNCHANGED status
           \/ /\ ~Destroyed(c) /\ a = "move" /\ LiftReachable(c)
              /\ link' = Started(rest, mqtt[http[c].posLu], c, origin)
              /\ UNCHANGED <<http, status>>
        /\ UNCHANGED <<sessions, accepting, marusia, mqtt>>

(* __callbackWorkerMQTT.  After an exception SessionMQTT looks at the same *)
(* message again, for ever, in the only thread.                            *)
LiftAnswer(y) ==
    LET c == link[y].callback
        origin == Head(link[y].queue)
        rest == [link EXCEPT ![y].queue = Tail(@)]
    IN  /\ status = "up"
        /\ link[y].state = "live" /\ link[y].queue # <<>>
        /\ \/ /\ Destroyed(c)
              /\ status' = "down" /\ link' = rest /\ UNCHANGED http
           \/ /\ ~Destroyed(c) /\ http[c].body
              /\ Respond(c, origin)
              /\ link' = rest /\ UNCHANGED status
           \/ /\ ~Destroyed(c) /\ ~http[c].body
              /\ status' = "hung" /\ UNCHANGED <<http, link>>
        /\ UNCHANGED <<sessions, accepting, marusia, mqtt>>

-----------------------------------------------------------------------------
(* __onWrite, __doClose, __onShutdown                                      *)
OnWrite(h) ==
    /\ status = "up" /\ http[h].phase = "writing"
    /\ \E error \in BOOLEAN :
          Becomes(h, [http[h] EXCEPT !.live = FALSE,
                        !.phase = IF ~error /\ ~http[h].keep THEN "closing" ELSE "gone"])

OnShutdown(h) ==
    /\ status = "up" /\ http[h].phase = "closing"
    /\ Becomes(h, [http[h] EXCEPT !.live = FALSE, !.phase = "gone"])

-----------------------------------------------------------------------------
(* The worker servers: a worker is authorized, its session stops being     *)
(* live, and __killSession erases the first such session of a vector.      *)
Join(x) ==
    /\ status = "up" /\ link[x].state = "new"
    /\ link' = [link EXCEPT ![x].state = "live"]
    /\ \/ x \in MarusiaLinks /\ marusia' = Append(marusia, x) /\ UNCHANGED mqtt
       \/ x \in LiftLinks /\ mqtt' = Append(mqtt, x) /\ UNCHANGED marusia
    /\ UNCHANGED <<http, sessions, accepting, status>>

Lose(x) ==
    /\ status = "up" /\ link[x].state = "live"
    /\ link' = [link EXCEPT ![x].state = "dead"]
    /\ UNCHANGED <<http, sessions, accepting, marusia, mqtt, status>>

IsLive(x) == link[x].state = "live"

KillMarusia ==
    /\ status = "up" /\ FirstDead(marusia, IsLive) # 0
    /\ marusia' = RemoveAt(marusia, FirstDead(marusia, IsLive))
    /\ UNCHANGED <<http, sessions, accepting, link, mqtt, status>>

KillMqtt ==
    /\ status = "up" /\ FirstDead(mqtt, IsLive) # 0
    /\ mqtt' = RemoveAt(mqtt, FirstDead(mqtt, IsLive))
    /\ UNCHANGED <<http, sessions, accepting, link, marusia, status>>

-----------------------------------------------------------------------------
Client(h) ==
    \/ HandshakeDone(h) \/ HandshakeRetry(h) \/ HandshakeFails(h)
    \/ ReadFails(h) \/ \E bad \in BOOLEAN : ReadSimple(h, bad)
    \/ \E st \in Stations : AnalizeRequest(h, st)
    \/ AnalizeRequestNoSession(h)

Answer(x) ==
    \/ x \in MarusiaLinks /\ \E k \in 1..2, a \in Answers : MarusiaAnswer(x, k, a)
    \/ x \in LiftLinks /\ LiftAnswer(x)

Next ==
    \/ OnAcceptError \/ KillHttp \/ KillMarusia \/ KillMqtt
    \/ \E h \in Https : OnAccept(h) \/ Client(h) \/ OnWrite(h) \/ OnShutdown(h)
    \/ \E x \in Links : Join(x) \/ Lose(x) \/ Answer(x)

Spec == Init /\ [][Next]_vars

(* The listener's timer is armed again by its own handler, an operation on *)
(* a stream ends or times out after 30 s, and workers answer.              *)
Fairness ==
    /\ WF_vars(KillHttp)
    /\ \A h \in Https : WF_vars(Client(h)) /\ WF_vars(OnWrite(h)) /\ WF_vars(OnShutdown(h))
    /\ \A x \in Links : WF_vars(Answer(x))

FairSpec == Spec /\ Fairness

-----------------------------------------------------------------------------
(* Properties                                                              *)

(* A request is answered at most once, whatever answers of other requests  *)
(* reach its session's callbacks.                                          *)
OneResponse == \A h \in Https : http[h].responses <= 1

(* "If your device is not connected to the data base you will not be able  *)
(* to use the skill" (the text of line 381, in Russian): a lift is moved   *)
(* only for a request of a registered station.                             *)
OnlyRegisteredMove ==
    \A y \in LiftLinks : \A i \in DOMAIN link[y].queue :
        http[link[y].queue[i]].station \in Registered

(* __killSession never erases a session between its handshake and its      *)
(* response: that alone keeps a waiting session from being destroyed under *)
(* the callback that a worker session holds.                               *)
WaitingKept ==
    [][\A h \in Https : http[h].phase \in {"reading", "waiting"} /\ InList(h) => InList(h)']_vars

(* __killSession can erase every session that has no operation left: on    *)
(* all the ways a connection ends, and with a callback that writes to a    *)
(* session already ended, none is left behind as live.                     *)
GoneIsMarked ==
    \A h \in Https : http[h].phase = "gone" /\ InList(h) => ~http[h].live

(* Sessions keep their types, none responds twice, and every one that is   *)
(* over can be erased, however the callbacks of two requests get mixed up. *)
RequestsSound == TypeOK /\ OneResponse /\ GoneIsMarked

(* "Send the response": a request that was read is answered, at least if   *)
(* no worker is lost, the workers answer every command and the process     *)
(* does not end or hang.                                                   *)
EveryRequestAnswered ==
    \A h \in Https :
        http[h].phase = "waiting" ~> \/ http[h].responses > 0
                                     \/ \E x \in Links : link[x].state = "dead"
                                     \/ status # "up"
=============================================================================
