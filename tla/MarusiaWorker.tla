--------------------------- MODULE MarusiaWorker ---------------------------
(***************************************************************************)
(* The Marusia worker's link to the main server:                           *)
(* Worker/Modules/Worker/Worker.hpp.                                       *)
(*                                                                         *)
(* Like MSWorker it connects, sends its id, and answers pings and the      *)
(* requests of stations; what a request's words mean is module             *)
(* Recognition.  Unlike MSWorker it throws away what comes with the reply  *)
(* to connect, whatever it says, and what comes after a message that was   *)
(* received in pieces; and a send that fails is tried again for ever, on   *)
(* the same socket.                                                        *)
(***************************************************************************)
EXTENDS Recognition

Tables == {"MarussiaStation", "House", "StaticPhrases"}

CONSTANTS
    Loads,      \* the sets of tables that the exchanges of __db_client leave
    Requests, NoRequest,
    Heard, NoPhrase,    \* what the requests say
    MaxChunk,   \* bound: messages that one receive returns together
    MaxSent,    \* bound: pings the server sends
    MaxFaults,  \* bound: connections the server refuses, closes or forgets
    MaxSplits   \* bound: messages that arrive in two pieces

ASSUME ConstantsAssumption ==
    /\ Loads \subseteq SUBSET Tables /\ NoRequest \notin Requests
    /\ Heard \subseteq Said /\ NoPhrase \notin Heard
    /\ MaxChunk \in Nat \ {0}
    /\ {MaxSent, MaxFaults, MaxSplits} \subseteq Nat

VARIABLES
    s,          \* __socket
    buf,        \* __buf_send
    parser,     \* __parser: between messages, within one, or in error
    json,       \* what __buf_json_recive holds between two receives
    tables,     \* the tables in __db_info
    endSend,    \* __flag_end_send
    skewed,     \* the function-static temp_send of __reciveAnswer is not 0
    asked, answered,    \* requests the server sent, and got answers for
    pings, faults, splits,
    resending,  \* history: a send has failed
    together,   \* history: __sendResponse answered two messages at once
    mixed       \* history: requests that came in pieces or with others

server == <<asked, answered, pings, faults>>

network == <<splits, mixed>>

vars == <<s, buf, parser, json, tables, endSend, skewed, server, network, resending, together>>

-----------------------------------------------------------------------------
Msg == [t : {"none", "connect", "reply", "ping", "pong", "request", "answer", "junk"},
        q : Requests \cup {NoRequest},
        p : Heard \cup {NoPhrase},
        piece : {"whole", "first", "rest"}]

Plain(t) == [t |-> t, q |-> NoRequest, p |-> NoPhrase, piece |-> "whole"]

NoMsg == Plain("none")

Handlers == {"sendConnect", "reciveConnect", "reciveCommand", "sendResponse", "reciveAnswer"}

INSTANCE WorkerSocket

ConnectToMS(x) == AsyncConnect(x, "sendConnect")

Stop(x) == Close(x)

(* start: the load of the tables and the link begin together.              *)
Init ==
    /\ s = ConnectToMS(NewSocket)
    /\ buf = NoMsg /\ parser = "clean" /\ json = <<>> /\ tables = {}
    /\ endSend = FALSE /\ skewed = FALSE /\ resending = FALSE /\ together = FALSE
    /\ asked = {} /\ answered = {}
    /\ pings = 0 /\ faults = 0 /\ splits = 0 /\ mixed = {}

-----------------------------------------------------------------------------
Popped == [s EXCEPT !.ready = Tail(@)]

Done == Head(s.ready)

Runs(h, ok) == s.ready # <<>> /\ Done.h = h /\ Done.ok = ok

received == <<parser, json>>

others == <<tables, server, network>>

\* Mutant of Reconnect: a receive that fails is armed again on the same socket.
ReconnectNot ==
    /\ Runs("sendConnect", FALSE) \/ Runs("reciveCommand", FALSE) \/ Runs("sendResponse", FALSE)
    /\ s' = AsyncReceive(Popped, "sendResponse")
    /\ UNCHANGED <<buf, received, endSend, skewed, others, resending, together>>

(* __sendConnect, __reciveCommand and __sendResponse with an error.  The   *)
(* parser is left as it is.                                                *)
Reconnect ==
    /\ Runs("sendConnect", FALSE) \/ Runs("reciveCommand", FALSE) \/ Runs("sendResponse", FALSE)
    /\ s' = ConnectToMS(Stop(Popped))
    /\ UNCHANGED <<buf, received, endSend, skewed, others, resending, together>>

SendConnect ==
    /\ Runs("sendConnect", TRUE)
    /\ buf' = Plain("connect")
    /\ s' = AsyncSend(Popped, "reciveConnect", buf')
    /\ UNCHANGED <<received, endSend, skewed, others, resending, together>>

(* __reciveConnect and __reciveAnswer with an error: the same again.       *)
SendAgain ==
    /\ Runs("reciveConnect", FALSE) \/ Runs("reciveAnswer", FALSE)
    /\ resending' = TRUE
    /\ s' = AsyncSend(Popped, Done.h, buf)
    /\ UNCHANGED <<buf, received, endSend, skewed, others, together>>

ReciveConnect ==
    /\ Runs("reciveConnect", TRUE)
    /\ buf' = NoMsg
    /\ s' = AsyncReceive(Popped, "reciveCommand")
    /\ UNCHANGED <<received, endSend, skewed, others, resending, together>>

(* The parser is fed with what was received.  It fails for good when a     *)
(* message has lost its rest with the connection it came on.               *)
Broken(got) == parser = "spoilt" \/ (parser = "mid") # (Head(got).piece = "rest")

Cut(got) == Last(got).piece = "first"

Full(got) == ~Broken(got) /\ ~Cut(got)

Whole(m) == [m EXCEPT !.piece = "whole"]

(* The messages that are complete: the last is, or it is cut.              *)
Parsed(got) == [i \in 1..(Len(got) - IF Cut(got) THEN 1 ELSE 0) |-> Whole(got[i])]

(* __reciveCommand and __sendResponse when the last message is not full,   *)
(* or the parser fails: what follows goes to __reciveCommand.  The parser  *)
(* reads up to a zero byte, which a buffer that is full or is used for the *)
(* first time need not have: what it then finds there may spoil it.        *)
JsonNotFull ==
    /\ Runs("reciveCommand", TRUE) \/ Runs("sendResponse", TRUE)
    /\ ~Full(Done.got)
    /\ IF Broken(Done.got) THEN parser' = "spoilt" /\ UNCHANGED json
       ELSE parser' \in {"mid", "spoilt"} /\ json' = json \o Parsed(Done.got)
    /\ s' = AsyncReceive(Popped, "reciveCommand")
    /\ UNCHANGED <<buf, endSend, skewed, others, resending, together>>

(* The messages are complete, and the queue is empty afterwards.           *)
JsonFull == Full(Done.got) /\ parser' = "clean" /\ json' = <<>>

\* Mutant of ReciveCommand: the next receive is one of __reciveCommand again.
ReciveCommandAgain ==
    /\ Runs("reciveCommand", TRUE) /\ JsonFull
    /\ s' = AsyncReceive(Popped, "reciveCommand")
    /\ UNCHANGED <<buf, endSend, skewed, others, resending, together>>

(* __reciveCommand: all that was received is parsed and dropped.           *)
ReciveCommand ==
    /\ Runs("reciveCommand", TRUE) /\ JsonFull
    /\ s' = AsyncReceive(Popped, "sendResponse")
    /\ UNCHANGED <<buf, endSend, skewed, others, resending, together>>

Needs(p) == {"MarussiaStation", IF FlagMqtt(p) THEN "House" ELSE "StaticPhrases"}

Throws == {p \in Heard : AnalizeRequest(p).t = "throws"}

(* __analizeRequest does not throw: it has the tables, and at() the word.  *)
Understood(p) == Needs(p) \subseteq tables /\ p \notin Throws

(* The table of stations is there and the station is not in it.            *)
Stranger(p) == "MarussiaStation" \in tables /\ p.station = NoHouse

(* __analizeRequest and what surrounds it in __sendResponse, for one       *)
(* message m, of the socket and the message in __buf_send.  A station that *)
(* is not in the tables closes the socket and the analysis goes on.  An    *)
(* exception arms a receive.  A second reply to connect sends what is in   *)
(* the buffer.                                                             *)
Respond(x, m) ==
    LET y == IF m.p # NoPhrase /\ Stranger(m.p) THEN Stop(x[1]) ELSE x[1]
        a == CASE m.t = "ping" -> Plain("pong")
               [] m.t = "request" -> [Plain("answer") EXCEPT !.q = m.q]
               [] OTHER -> x[2]
    IN  IF m.t = "request" /\ ~Understood(m.p)
        THEN <<AsyncReceive(y, "sendResponse"), x[2]>>
        ELSE <<AsyncSend(y, "reciveAnswer", a), a>>

(* The same for all the messages of a receive, one after the other.        *)
Responded(got) ==
    LET x[k \in 0..Len(got)] ==
            IF k = 0 THEN <<Popped, buf>> ELSE Respond(x[k - 1], got[k])
    IN  x[Len(got)]

Answers(m) == m.t = "request" => Understood(m.p)

\* Mutant of SendResponse: after an exception nothing is armed.
SendResponseSilent ==
    LET all == json \o Parsed(Done.got)
        got == SelectSeq(all, Answers)
        x   == Responded(got)
    IN  /\ Runs("sendResponse", TRUE) /\ JsonFull
        /\ s' = x[1] /\ buf' = x[2]
        /\ endSend' = (endSend \/ Answers(Last(all)))
        /\ together' = (together \/ Len(got) > 1)
        /\ UNCHANGED <<skewed, others, resending>>

(* __sendResponse: __flag_end_send is set after the last message, unless   *)
(* that one throws.                                                        *)
SendResponse ==
    LET got == json \o Parsed(Done.got)
        x   == Responded(got)
    IN  /\ Runs("sendResponse", TRUE) /\ JsonFull
        /\ s' = x[1] /\ buf' = x[2]
        /\ endSend' = (endSend \/ Answers(Last(got)))
        /\ together' = (together \/ Len(got) > 1)
        /\ UNCHANGED <<skewed, others, resending>>

(* __reciveAnswer when all is sent.  Without the flag nothing follows: it  *)
(* was the completion of another send that armed the receive.              *)
ReciveAnswer ==
    /\ Runs("reciveAnswer", TRUE)
    /\ ~skewed /\ Done.m = buf
    /\ buf' = NoMsg
    /\ endSend' = FALSE
    /\ s' = IF endSend THEN AsyncReceive(Popped, "sendResponse") ELSE Popped
    /\ UNCHANGED <<received, skewed, others, resending, together>>

(* The send of another message has replaced __buf_send, or a count is left *)
(* in temp_send: the rest that is sent lies outside the buffer.            *)
SendSkews ==
    /\ Runs("reciveAnswer", TRUE)
    /\ skewed \/ Done.m # buf
    /\ skewed' = TRUE
    /\ \/ s' = [Popped EXCEPT !.ready = Append(@, Failed(Done))]
       \/ s' = AsyncSend(Popped, "reciveAnswer", Plain("junk"))
    /\ UNCHANGED <<buf, received, endSend, others, resending, together>>

Handle ==
    \/ Reconnect \/ SendConnect \/ SendAgain \/ ReciveConnect \/ ReciveCommand
    \/ JsonNotFull \/ SendResponse \/ ReciveAnswer \/ SendSkews

(* __callback: the client's exchange, module ClientDB, has ended, with all *)
(* the tables or with some.  It keeps those of earlier exchanges.          *)
SetDbInfo(T) ==
    /\ tables \subseteq T /\ T # tables /\ tables' = T
    /\ UNCHANGED <<s, buf, received, endSend, skewed, server, network, resending, together>>

-----------------------------------------------------------------------------
(* The reactor.                                                            *)

worker == <<buf, received, tables, endSend, skewed, resending, together>>

Wire(x) == s' = x /\ UNCHANGED <<worker, server, network>>

Alone(got) == Len(got) = 1 /\ Head(got).piece = "whole"

(* A receive ends with what is the last of the completions of x.           *)
Arrives(x) ==
    LET got == Last(x.ready).got
    IN  /\ s' = x
        /\ mixed' = IF Alone(got) THEN mixed
                    ELSE mixed \cup ({got[j].q : j \in DOMAIN got} \ {NoRequest})
        /\ UNCHANGED <<worker, server>>

Splits(i, k) ==
    LET m == s.toWorker[k + 1]
    IN  /\ k < Len(s.toWorker) /\ m.piece = "whole"
        /\ splits < MaxSplits /\ splits' = splits + 1
        /\ Arrives(ReceiveSplit(s, i, k, [m EXCEPT !.piece = "first"], [m EXCEPT !.piece = "rest"]))

IsSend(op) == op.h \in {"reciveConnect", "reciveAnswer"}

Receives(op) == op.h \in {"reciveCommand", "sendResponse"}

Reactor ==
    \E i \in DOMAIN s.pend :
        \/ s.sock = "connecting" /\ s.pend[i].h = "sendConnect" /\ Wire(Connected(s, i))
        \/ s.sock = "connected" /\ IsSend(s.pend[i]) /\ Wire(SendDone(s, i))
        \/ /\ s.sock = "connected" /\ Receives(s.pend[i])
           /\ \E k \in 0..MaxChunk :
                 \/ k \in 1..Len(s.toWorker) /\ Arrives(ReceiveDone(s, i, k)) /\ UNCHANGED splits
                 \/ Splits(i, k)
        \/ /\ s.sock = "connected" /\ Receives(s.pend[i])
           /\ s.peer = "closed" /\ s.toWorker = <<>> /\ Wire(OperationFails(s, i))
        \/ s.sock = "opened" /\ Wire(OperationFails(s, i))

(* A server that has ended resets the connection, or TCP gives up sending  *)
(* to one that has vanished: a send fails.                                 *)
SendFails ==
    \E i \in DOMAIN s.pend :
        /\ s.sock = "connected" /\ s.peer \in {"closed", "gone"} /\ IsSend(s.pend[i])
        /\ Wire(OperationFails(s, i))

(* The main server, as WorkerServer.cpp uses the link.  It closes when it  *)
(* does not know the id, after the same kind of reply.                     *)
ServerReads ==
    LET m == Head(s.toServer)
        x == [s EXCEPT !.toServer = Tail(@)]
    IN  /\ s.toServer # <<>> /\ s.peer \in {"open", "accepted"}
        /\ s' = IF m.t = "connect"
                THEN [x EXCEPT !.toWorker = Append(@, Plain("reply")), !.peer = "accepted"]
                ELSE x
        /\ answered' = answered \cup ({m.q} \ {NoRequest})
        /\ UNCHANGED <<worker, network, asked, pings, faults>>

ServerSends(m) == s.peer = "accepted" /\ s' = [s EXCEPT !.toWorker = Append(@, m)]

ServerPings ==
    /\ pings < MaxSent /\ pings' = pings + 1
    /\ ServerSends(Plain("ping"))
    /\ UNCHANGED <<worker, network, asked, answered, faults>>

ServerAsks(q, p) ==
    /\ q \notin asked /\ asked' = asked \cup {q}
    /\ ServerSends([Plain("request") EXCEPT !.q = q, !.p = p])
    /\ UNCHANGED <<worker, network, answered, pings, faults>>

(* The server closes the connection, vanishes with its host, or refuses.   *)
(* What is on its way then arrives or is lost.                             *)
ServerFails ==
    /\ faults < MaxFaults /\ faults' = faults + 1
    /\ \/ /\ s.peer \in {"open", "accepted"}
          /\ \E end \in {"closed", "gone"}, left \in {s.toWorker, <<>>} :
                s' = [s EXCEPT !.peer = end, !.toWorker = left]
       \/ /\ s.sock = "connecting"
          /\ \E i \in DOMAIN s.pend : s.pend[i].h = "sendConnect" /\ s' = ConnectRefused(s, i)
    /\ UNCHANGED <<worker, network, asked, answered, pings>>

Environment ==
    \/ SendFails \/ ServerReads \/ ServerPings \/ ServerFails
    \/ \E q \in Requests, p \in Heard : ServerAsks(q, p)

Next == Handle \/ Reactor \/ Environment \/ \E T \in Loads : SetDbInfo(T)

Spec == Init /\ [][Next]_vars

(* As in MSWorker: handlers, the reactor and the server's reading are      *)
(* fair; failures and split messages are finitely many.  Nothing is        *)
(* assumed of the load.                                                    *)
FairSpec == Spec /\ WF_vars(Handle) /\ WF_vars(Reactor) /\ WF_vars(ServerReads)

-----------------------------------------------------------------------------
(* The link keeps its type: the socket, its buffer and its flags.          *)
TypeOK ==
    /\ s \in SocketType /\ buf \in Msg /\ json \in Seq(Msg)
    /\ parser \in {"clean", "mid", "spoilt"} /\ tables \subseteq Tables
    /\ {endSend, skewed, resending, together} \subseteq BOOLEAN
    /\ asked \subseteq Requests /\ answered \subseteq Requests /\ mixed \subseteq Requests
    /\ pings \in 0..MaxSent /\ faults \in 0..MaxFaults /\ splits \in 0..MaxSplits

(* As long as __sendResponse never answers two messages at once the worker *)
(* has one operation at a time, through errors, exceptions, unknown        *)
(* stations, messages in pieces and retries: it is neither deaf nor does   *)
(* one answer overwrite another in __buf_send.                             *)
OneStrand == together \/ Len(s.pend) + Len(s.ready) = 1

(* The link keeps its types and has one operation at a time, as above.     *)
LinkSound == TypeOK /\ OneStrand

(* A worker whose connection was refused or closed gets connected again,   *)
(* unless a send has failed, which it then tries for ever.  It waits for   *)
(* ever for a server that has vanished: no timer notices.                  *)
Reconnects == s.peer # "accepted" ~> s.peer \in {"accepted", "gone"} \/ resending \/ together

Arrived(q) ==
    \E i \in DOMAIN s.toWorker :
        LET m == s.toWorker[i]
        IN  m.q = q /\ m.p.station # NoHouse /\ Understood(m.p)

(* A request that is understood when it arrives is answered, unless the    *)
(* link breaks or it comes in pieces or with another message, when it may  *)
(* be thrown away.  A request that throws, before the tables are loaded or *)
(* after, does not stand in its way, and neither does an earlier message   *)
(* that came in pieces, as long as its rest came too and nothing spoilt    *)
(* the parser: the worker never recovers from that.                        *)
ClearIsAnswered ==
    \A q \in Requests :
        Arrived(q) ~>
            q \in answered \cup mixed \/ s.peer # "accepted" \/ resending \/ together
            \/ parser = "spoilt"

(* What the search computes depends on the tables of the class only, which *)
(* never change, so it is examined in the first state.                     *)
AtStart == s = ConnectToMS(NewSocket) /\ tables = {} /\ asked = {} /\ pings = 0 /\ faults = 0

(* For every request that a station can make, the lift is sent only to a   *)
(* floor that one word of it names: the one meant when the phrase is       *)
(* clear, the one the order of the roots picks when it is not, and never   *)
(* one that takes two words.                                               *)
FloorIsOfOneWord ==
    AtStart => FloorWasSaid /\ ClearIsRecognized /\ LastRootWins /\ TwoWordsNeverMeant
=============================================================================
