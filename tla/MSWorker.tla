------------------------------ MODULE MSWorker ------------------------------
(***************************************************************************)
(* The lift worker's link to the main server:                              *)
(* MQTT_Worker/Modules/MSWorker/MSWorker.cpp.                              *)
(*                                                                         *)
(* The worker connects, sends its id and then answers pings and commands.  *)
(* A command for a known lift block is given to MQTTWorker, which          *)
(* publishes it and answers within the same call.  Every error closes the  *)
(* socket and connects anew.                                               *)
(***************************************************************************)
EXTENDS Naturals, Sequences, SequencesExt

CONSTANTS
    Lifts,      \* the lift blocks commands are for
    Requests,   \* the station requests commands belong to
    NoLift, NoRequest,
    MaxChunk,   \* bound: messages that one receive returns together
    MaxSent,    \* bound: pings the server sends
    MaxFaults   \* bound: connections the server refuses, closes or forgets

ASSUME ConstantsAssumption ==
    /\ NoLift \notin Lifts /\ NoRequest \notin Requests
    /\ MaxChunk \in Nat \ {0}
    /\ {MaxSent, MaxFaults} \subseteq Nat

VARIABLES
    s,          \* __socket
    buf,        \* __buf_send
    json,       \* __buf_json_recive
    busy,       \* the loop of __commandAnalize is running
    skewed,     \* the function-static temp_send_byte is not 0
    known,      \* the keys of __lu_id_descriptor
    asked,      \* requests for which the server has sent a command
    pings, faults,
    answered,   \* requests for which the server has read an answer
    refused,    \* history: the server did not accept the worker's id
    together    \* history: a receive returned two messages

server == <<asked, pings, faults, answered>>

history == <<refused, together>>

vars == <<s, buf, json, busy, skewed, known, server, history>>

-----------------------------------------------------------------------------
Msg == [t : {"none", "connect", "connectOk", "connectFail", "ping", "pong",
             "move", "done", "failed", "unknown", "junk"},
        q : Requests \cup {NoRequest}, l : Lifts \cup {NoLift}]

Plain(t) == [t |-> t, q |-> NoRequest, l |-> NoLift]

Reply(t, q) == [t |-> t, q |-> q, l |-> NoLift]

NoMsg == Plain("none")

Handlers == {"requestAuthentication", "sendCommand", "reciveCommand"}

INSTANCE WorkerSocket

-----------------------------------------------------------------------------
(* What the handlers do to the socket.                                     *)

Start(x) == AsyncConnect(x, "requestAuthentication")

Stop(x) == Close(x)

Receive(x) == AsyncReceive(x, "reciveCommand")

Send(x, m) == AsyncSend(x, "sendCommand", m)

Init ==
    /\ s = Start(NewSocket)
    /\ buf = NoMsg
    /\ json = <<>>
    /\ busy = FALSE /\ skewed = FALSE /\ together = FALSE /\ refused = FALSE
    /\ known \in SUBSET Lifts
    /\ asked = {} /\ answered = {}
    /\ pings = 0 /\ faults = 0

Popped == [s EXCEPT !.ready = Tail(@)]

Runs(h, ok) ==
    /\ ~busy /\ s.ready # <<>>
    /\ Head(s.ready).h = h /\ Head(s.ready).ok = ok

\* Mutant of HandlerError: the socket is not closed before it is connected.
HandlerErrorNoStop ==
    /\ \E h \in Handlers : Runs(h, FALSE)
    /\ s' = Start(Popped)
    /\ UNCHANGED <<buf, json, busy, skewed, known, server, history>>

(* __requestAuthentication, __sendCommand and __reciveCommand with an      *)
(* error.  The count of bytes sent and the message remain as they are.     *)
HandlerError ==
    /\ \E h \in Handlers : Runs(h, FALSE)
    /\ s' = Start(Stop(Popped))
    /\ UNCHANGED <<buf, json, busy, skewed, known, server, history>>

RequestAuthentication ==
    /\ Runs("requestAuthentication", TRUE)
    /\ buf' = Plain("connect")
    /\ s' = Send(Popped, buf')
    /\ UNCHANGED <<json, busy, skewed, known, server, history>>

(* __sendCommand when all is sent: a receive follows every send.           *)
SendCommand ==
    /\ Runs("sendCommand", TRUE)
    /\ ~skewed /\ Head(s.ready).m = buf
    /\ buf' = NoMsg
    /\ s' = Receive(Popped)
    /\ UNCHANGED <<json, busy, skewed, known, server, history>>

(* __sendCheck finds another message in __buf_send, or a count that is     *)
(* left in temp_send_byte: what it sends lies outside the message, of a    *)
(* length that may wrap around.  The server may receive junk.              *)
SendSkews ==
    /\ Runs("sendCommand", TRUE)
    /\ skewed \/ Head(s.ready).m # buf
    /\ skewed' = TRUE
    /\ \/ s' = [Popped EXCEPT !.ready = Append(@, Failed(Head(s.ready)))]
       \/ s' = Send(Popped, Plain("junk"))
    /\ UNCHANGED <<buf, json, busy, known, server, history>>

(* __reciveCommand: the messages are queued and __commandAnalize begins.   *)
ReciveCommand ==
    /\ Runs("reciveCommand", TRUE)
    /\ s' = Popped
    /\ json' = json \o Head(s.ready).got
    /\ busy' = TRUE
    /\ together' = (together \/ Len(Head(s.ready).got) > 1)
    /\ UNCHANGED <<buf, skewed, known, server, refused>>

-----------------------------------------------------------------------------
(* One pass of the loop of __commandAnalize.                               *)

Analizes(t) == busy /\ json # <<>> /\ Head(json).t = t

Analized(x) ==
    /\ s' = x
    /\ json' = Tail(json)
    /\ UNCHANGED <<busy, skewed, known, server, together>>

ResponsePing ==
    /\ Analizes("ping")
    /\ buf' = Plain("pong")
    /\ Analized(Send(s, buf')) /\ UNCHANGED refused

\* Mutant of ConnectAnalize: no receive follows the reply.
ConnectAnalizeDeaf ==
    /\ \/ Analizes("connectOk") /\ Analized(s) /\ UNCHANGED refused
       \/ Analizes("connectFail") /\ Analized(Stop(s)) /\ refused' = TRUE
    /\ UNCHANGED buf

(* __connectAnalize; a worker that is refused closes and tries no more.    *)
ConnectAnalize ==
    /\ \/ Analizes("connectOk") /\ Analized(Receive(s)) /\ UNCHANGED refused
       \/ Analizes("connectFail") /\ Analized(Stop(s)) /\ refused' = TRUE
    /\ UNCHANGED buf

\* Mutant of MoveLift: only a success is answered.
MoveLiftSilent(found) ==
    LET m == Head(json)
    IN  /\ Analizes("move") /\ m.l \in known
        /\ buf' = IF found THEN Reply("done", m.q) ELSE buf
        /\ Analized(IF found THEN Send(s, buf') ELSE s)
        /\ UNCHANGED refused

\* Mutant of MoveLift: what the broker's publish returned is not looked at.
MoveLiftDone(found) ==
    LET m == Head(json)
    IN  /\ Analizes("move") /\ m.l \in known
        /\ buf' = Reply("done", m.q)
        /\ Analized(Send(s, buf'))
        /\ UNCHANGED refused

(* __moveLift for a lift block in the table: MQTTWorker::moveLift calls    *)
(* responseMove with what the broker's publish returned.                   *)
MoveLift(found) ==
    LET m == Head(json)
    IN  /\ Analizes("move") /\ m.l \in known
        /\ buf' = Reply(IF found THEN "done" ELSE "failed", m.q)
        /\ Analized(Send(s, buf'))
        /\ UNCHANGED refused

(* __moveLift for another lift block answers and leaves the message in the *)
(* queue: the loop never ends, and the thread runs no other handler.  The  *)
(* passes after the first, which only repeat the answer, are left out.     *)
MoveUnknown ==
    LET m == Head(json)
    IN  /\ Analizes("move") /\ m.l \notin known
        /\ buf # Reply("unknown", m.q)
        /\ buf' = Reply("unknown", m.q)
        /\ s' = Send(s, buf')
        /\ UNCHANGED <<json, busy, skewed, known, server, history>>

AnalizeEnds ==
    /\ busy /\ json = <<>>
    /\ busy' = FALSE
    /\ UNCHANGED <<s, buf, json, skewed, known, server, history>>

AnalizeOther == ResponsePing \/ ConnectAnalize \/ MoveUnknown \/ AnalizeEnds

Analize ==
    \/ AnalizeOther
    \/ \E found \in BOOLEAN : MoveLift(found)

Handle ==
    \/ HandlerError \/ RequestAuthentication \/ SendCommand \/ SendSkews
    \/ ReciveCommand

-----------------------------------------------------------------------------
IsSend(op) == op.h = "sendCommand"

(* The reactor.  While the loop runs no other handler does, but operations *)
(* complete in the kernel all the same.                                    *)

Wire(x) == s' = x /\ UNCHANGED <<buf, json, busy, skewed, known, server, history>>

Reactor ==
    \E i \in DOMAIN s.pend :
        \/ s.sock = "connecting" /\ s.pend[i].h = "requestAuthentication" /\ Wire(Connected(s, i))
        \/ s.sock = "connected" /\ IsSend(s.pend[i]) /\ Wire(SendDone(s, i))
        \/ /\ s.sock = "connected" /\ s.pend[i].h = "reciveCommand"
           /\ \E k \in 1..MaxChunk : k <= Len(s.toWorker) /\ Wire(ReceiveDone(s, i, k))
        \/ /\ s.sock = "connected" /\ s.pend[i].h = "reciveCommand"
           /\ s.peer = "closed" /\ s.toWorker = <<>> /\ Wire(OperationFails(s, i))
        \/ s.sock = "opened" /\ Wire(OperationFails(s, i))

(* A server that has ended resets the connection, or TCP gives up sending  *)
(* to one that has vanished: a send fails.                                 *)
SendFails ==
    \E i \in DOMAIN s.pend :
        /\ s.sock = "connected" /\ s.peer \in {"closed", "gone"} /\ IsSend(s.pend[i])
        /\ Wire(OperationFails(s, i))

-----------------------------------------------------------------------------
(* The main server, as WorkerServer.cpp uses the link.  It answers connect *)
(* and, if it does not know the id, closes; after that it sends pings and  *)
(* commands and reads what comes.                                          *)

ServerReads ==
    LET m == Head(s.toServer)
        x == [s EXCEPT !.toServer = Tail(@)]
    IN  /\ s.toServer # <<>> /\ s.peer \in {"open", "accepted"}
        /\ s' \in IF m.t = "connect"
                  THEN {[x EXCEPT !.toWorker = Append(@, Plain("connectOk")),
                                  !.peer = "accepted"],
                        [x EXCEPT !.toWorker = Append(@, Plain("connectFail")),
                                  !.peer = "closed"]}
                  ELSE {x}
        /\ answered' = answered \cup ({m.q} \ {NoRequest})
        /\ UNCHANGED <<buf, json, busy, skewed, known, asked, pings, faults, history>>

ServerSends(m) == s.peer = "accepted" /\ s' = [s EXCEPT !.toWorker = Append(@, m)]

ServerPings ==
    /\ pings < MaxSent /\ pings' = pings + 1
    /\ ServerSends(Plain("ping"))
    /\ UNCHANGED <<buf, json, busy, skewed, known, asked, faults, answered, history>>

ServerMoves(q, l) ==
    /\ q \notin asked /\ asked' = asked \cup {q}
    /\ ServerSends([t |-> "move", q |-> q, l |-> l])
    /\ UNCHANGED <<buf, json, busy, skewed, known, pings, faults, answered, history>>

(* The server closes the connection, vanishes with its host, or refuses.   *)
ServerFails ==
    /\ faults < MaxFaults /\ faults' = faults + 1
    /\ \/ /\ s.peer \in {"open", "accepted"}
          /\ \E end \in {"closed", "gone"} : s' = [s EXCEPT !.peer = end]
       \/ /\ s.sock = "connecting"
          /\ \E i \in DOMAIN s.pend :
                s.pend[i].h = "requestAuthentication" /\ s' = ConnectRefused(s, i)
    /\ UNCHANGED <<buf, json, busy, skewed, known, asked, pings, answered, history>>

Environment == SendFails \/ ServerReads \/ ServerPings \/ ServerFails

Next ==
    \/ Handle \/ Analize \/ Reactor \/ Environment
    \/ \E q \in Requests, l \in Lifts : ServerMoves(q, l)

Spec == Init /\ [][Next]_vars

(* A queued handler runs, an operation the kernel has done completes, and  *)
(* the server reads what it is sent.  Nothing is assumed of its commands,  *)
(* pings and failures; the failures are finitely many.                     *)
FairSpec ==
    /\ Spec
    /\ WF_vars(Handle) /\ WF_vars(Analize) /\ WF_vars(Reactor)
    /\ WF_vars(ServerReads)

-----------------------------------------------------------------------------
(* The link keeps its type: the socket, its buffers and its flags.         *)
TypeOK ==
    /\ s \in SocketType
    /\ buf \in Msg /\ json \in Seq(Msg)
    /\ {busy, skewed, refused, together} \subseteq BOOLEAN
    /\ known \subseteq Lifts
    /\ asked \subseteq Requests /\ answered \subseteq Requests
    /\ pings \in 0..MaxSent /\ faults \in 0..MaxFaults

(* The loop of __commandAnalize has met a command for a lift block that is *)
(* not in the table.                                                       *)
Spinning == \E i \in DOMAIN json : json[i].t = "move" /\ json[i].l \notin known

(* What keeps the worker going: operations, handlers to run and messages   *)
(* to analize.                                                             *)
Strands == Len(s.pend) + Len(s.ready) + Len(json)

(* The worker never goes deaf: through errors, reconnects, messages that   *)
(* arrive together and sends that overlap there is always an operation     *)
(* whose handler goes on, unless the server refused the id or the loop     *)
(* spins.  No timer would revive the link.                                 *)
NeverDeaf == refused \/ Spinning \/ Strands > 0

(* As long as messages arrive one by one there is one operation at a time: *)
(* a handler never overtakes another one on __buf_send, __buf_recive and   *)
(* temp_send_byte, and an error is never followed by two reconnects.       *)
OneStrand == together \/ Spinning \/ Strands <= 1

(* The link keeps its types, never goes deaf, and handles one thing at a   *)
(* time as long as messages arrive one by one.                             *)
LinkSound == TypeOK /\ NeverDeaf /\ OneStrand

(* A worker whose connection was refused, reset or closed gets connected   *)
(* again, unless two strands close each other's connects.  It waits for    *)
(* ever for a server that has vanished: no timer notices.                  *)
Reconnects ==
    s.peer # "accepted" ~>
        s.peer \in {"accepted", "gone"} \/ refused \/ together \/ Spinning

Arrived(q) ==
    \E i \in DOMAIN s.toWorker :
        s.toWorker[i].t = "move" /\ s.toWorker[i].q = q /\ s.toWorker[i].l \in known

(* The server gets an answer for every command that arrives for a lift     *)
(* block of the table, whatever the broker's publish returned, unless the  *)
(* link breaks before.                                                     *)
CommandAnswered ==
    \A q \in Requests :
        Arrived(q) ~> q \in answered \/ s.peer # "accepted" \/ together \/ Spinning
=============================================================================
