---------------------------- MODULE WorkerServer ----------------------------
(***************************************************************************)
(* The main server's side of the links to its workers:                     *)
(* MainServer/Modules/WorkerServer/WorkerServer.cpp.                       *)
(*                                                                         *)
(* A Server accepts TCP connections and keeps one Session per connection   *)
(* in a vector.  A session authorizes the worker that connects, pings it   *)
(* every 10 s, gives it up when a ping is not answered within 20 s, and    *)
(* carries the commands that HTTPS requests start on it.  A periodic       *)
(* handler erases the sessions that are not live.                          *)
(*                                                                         *)
(* An asynchronous operation is two steps: it completes (the reactor, a    *)
(* timer), which queues its handler, and the handler runs.  Handlers run   *)
(* one at a time (io_context with one thread), in any order their          *)
(* completions allow.                                                      *)
(***************************************************************************)
EXTENDS Naturals, FiniteSets, Sequences, SequencesExt

CONSTANTS
    Workers,    \* worker processes, named by the id they authorize with
    Known,      \* the ids in the table _sp_db_worker_ids
    Requests,   \* the HTTPS requests that start a command
    NoWorker,   \* NO_ID, the id of a session before authorization
    NoRequest,  \* __emptyCallback, the callback before the first command
    MaxConn,    \* bound: connections made in one behaviour
    MaxChunk,   \* bound: messages that one receive returns together
    Kind        \* worker_type: "mqtt" or "marusia"

ASSUME ConstantsAssumption ==
    /\ Known \subseteq Workers
    /\ NoWorker \notin Workers
    /\ NoRequest \notin Requests
    /\ MaxConn \in Nat
    /\ MaxChunk \in Nat \ {0}
    /\ Kind \in {"mqtt", "marusia"}

VARIABLES
    sess,       \* the sessions and their connections, by connection number
    vec,        \* __sessions, the server's vector of sessions
    busy,       \* the session whose _commandAnalize loop is running, or 0
    skewed,     \* the function-static temp_send_byte is not 0
    started,    \* requests that have called startCommand
    answered    \* requests whose callback has sent the HTTPS response

vars == <<sess, vec, busy, skewed, started, answered>>

Sessions == 1..MaxConn

-----------------------------------------------------------------------------
(* Messages.  q names the request a command or an answer belongs to.       *)

Msg == [t : {"none", "ping", "cmd", "connectOk", "connectFail", "junk", "err",
             "connect", "pong", "answer"},
        q : Requests \cup {NoRequest}]

Plain(t) == [t |-> t, q |-> NoRequest]

Queue == Seq(Msg)

(* Handlers queued for a timer: it expired, or the wait was cancelled.     *)
Waits == SUBSET {"ok", "aborted"}

(* A session and both directions of its connection.                        *)
SessionType ==
    [live        : BOOLEAN,                       \* _is_live
     id          : Workers \cup {NoWorker},       \* _id
     nextRecive  : BOOLEAN,                       \* _next_recive
     pingSuccess : BOOLEAN,                       \* _ping_success
     callback    : Requests \cup {NoRequest},     \* _callback
     buf         : Msg,                           \* _buf_send
     json        : Queue,                         \* _buf_json_recive
     accepted    : BOOLEAN,                       \* the session was constructed
     open        : BOOLEAN,                       \* _socket.is_open()
     recv        : Nat,                           \* receives armed
     got         : Queue,                         \* a completed receive
     recvError   : BOOLEAN,                       \* receives that failed
     sends       : Queue,                         \* completed sends
     pingT       : BOOLEAN,                       \* _ping_timer armed
     pingQ       : Waits,                         \* _ping handlers queued
     deadT       : BOOLEAN,                       \* _dead_ping_timer armed
     deadQ       : Waits,                         \* _deadPing handlers queued
     owner       : Workers \cup {NoWorker},       \* who connected
     peer        : {"none", "open", "silent", "closed"},
     toWorker    : Queue,
     toServer    : Queue]

(* Session::Session: the state a session is constructed in.                *)
NewSession ==
    [live |-> FALSE, id |-> NoWorker, nextRecive |-> FALSE,
     pingSuccess |-> FALSE, callback |-> NoRequest, buf |-> Plain("none"),
     json |-> <<>>, accepted |-> FALSE, open |-> FALSE, recv |-> 0, got |-> <<>>,
     recvError |-> FALSE, sends |-> <<>>, pingT |-> FALSE, pingQ |-> {},
     deadT |-> FALSE, deadQ |-> {}, owner |-> NoWorker, peer |-> "none",
     toWorker |-> <<>>, toServer |-> <<>>]

-----------------------------------------------------------------------------
(* What the handlers do to a session r, as functions of r.                 *)

(* Cancelling a timer queues its waiting handler with operation_aborted;   *)
(* a handler already queued by an expiry is not touched.                   *)
Aborted(armed, queue) == IF armed THEN queue \cup {"aborted"} ELSE queue

ArmPing(r) == [r EXCEPT !.pingT = TRUE, !.pingQ = Aborted(r.pingT, @)]

CancelDead(r) == [r EXCEPT !.deadT = FALSE, !.deadQ = Aborted(r.deadT, @)]

Stop(r) ==
    [r EXCEPT !.live = FALSE,
              !.pingT = FALSE, !.pingQ = Aborted(r.pingT, @),
              !.deadT = FALSE, !.deadQ = Aborted(r.deadT, @),
              !.open = FALSE]

(* async_send of _buf_send = m.  A short send to an open socket is done at *)
(* once and its completion queued; on a closed socket the completion is an *)
(* error.  What is sent to a worker that has closed is lost.               *)
AsyncSend(r, m) ==
    [r EXCEPT !.buf = m,
              !.sends = Append(@, IF r.open THEN m ELSE Plain("err")),
              !.toWorker = IF r.open /\ r.peer = "open" THEN Append(@, m) ELSE @]

Pop(r) == [r EXCEPT !.json = Tail(@)]

\* Mutant of Autorization: the ping timer is not armed.
AutorizationNoPing(r) ==
    IF r.owner \in Known
    THEN AsyncSend([Pop(r) EXCEPT !.id = r.owner, !.live = TRUE], Plain("connectOk"))
    ELSE AsyncSend([Pop(r) EXCEPT !.id = r.owner], Plain("connectFail"))

\* Mutant of Autorization: a known worker gets no reply.
AutorizationNoReply(r) ==
    IF r.owner \in Known
    THEN ArmPing([Pop(r) EXCEPT !.id = r.owner, !.live = TRUE])
    ELSE AsyncSend([Pop(r) EXCEPT !.id = r.owner], Plain("connectFail"))

(* _autorization: the id is kept whether it is known or not.               *)
Autorization(r) ==
    IF r.owner \in Known
    THEN AsyncSend(ArmPing([Pop(r) EXCEPT !.id = r.owner, !.live = TRUE]),
                   Plain("connectOk"))
    ELSE AsyncSend([Pop(r) EXCEPT !.id = r.owner], Plain("connectFail"))

(* _analizePing; the workers answer a ping with status success only.       *)
AnalizePing(r) ==
    ArmPing(CancelDead([Pop(r) EXCEPT !.pingSuccess = TRUE]))

\* Mutant of SendPing: the ping timer is armed again at once.
SendPingRearms(r) ==
    LET c == CancelDead([r EXCEPT !.nextRecive = TRUE, !.pingSuccess = FALSE])
    IN  ArmPing(AsyncSend([c EXCEPT !.deadT = TRUE], Plain("ping")))

(* _ping on a live session, and the part of startCommand that sends.       *)
SendPing(r) ==
    LET c == CancelDead([r EXCEPT !.nextRecive = TRUE, !.pingSuccess = FALSE])
    IN  AsyncSend([c EXCEPT !.deadT = TRUE], Plain("ping"))

\* Mutant of SendCmd: no receive will follow the command.
SendCmdNoReceive(r, q) ==
    AsyncSend([r EXCEPT !.callback = q], [t |-> "cmd", q |-> q])

SendCmd(r, q) ==
    AsyncSend([r EXCEPT !.callback = q, !.nextRecive = TRUE], [t |-> "cmd", q |-> q])

-----------------------------------------------------------------------------
Init ==
    /\ sess = [s \in Sessions |-> NewSession]
    /\ vec = <<>>
    /\ busy = 0
    /\ skewed = FALSE
    /\ started = {}
    /\ answered = {}

Set(s, r) == sess' = [sess EXCEPT ![s] = r]

Only(s, r) == Set(s, r) /\ UNCHANGED <<vec, busy, skewed, started, answered>>

-----------------------------------------------------------------------------
(* The workers: MSWorker.cpp and Worker.hpp as the server sees them.       *)

(* A worker has one connection at a time.  It sends connect as soon as it  *)
(* is connected, without waiting for anything.                             *)
NextConnection(s) ==
    /\ sess[s].peer = "none"
    /\ \A c \in Sessions : c < s => sess[c].peer # "none"

Connect(w, s) ==
    /\ NextConnection(s)
    /\ \A c \in Sessions : sess[c].owner = w => sess[c].peer = "closed"
    /\ Only(s, [NewSession EXCEPT !.owner = w, !.peer = "open", !.open = TRUE,
                                  !.toServer = <<Plain("connect")>>])

(* A worker handles its messages in order and answers pings and commands.  *)
(* A worker refused by the server closes; bytes that are not JSON leave    *)
(* its parser failed, and it answers nothing any more.                     *)
WorkerReads(s) ==
    LET r == sess[s]
        m == Head(r.toWorker)
        c == [r EXCEPT !.toWorker = Tail(@)]
    IN  /\ r.peer = "open" /\ r.toWorker # <<>>
        /\ \/ m.t = "ping" /\ Only(s, [c EXCEPT !.toServer = Append(@, Plain("pong"))])
           \/ m.t = "cmd" /\ Only(s, [c EXCEPT !.toServer = Append(@, [t |-> "answer", q |-> m.q])])
           \/ m.t = "connectOk" /\ Only(s, c)
           \/ m.t = "connectFail" /\ Only(s, [c EXCEPT !.peer = "closed"])
           \/ m.t = "junk" /\ Only(s, [c EXCEPT !.peer = "silent"])

(* The worker process stops answering, or its host vanishes from the       *)
(* network without a word.                                                 *)
WorkerSilent(s) ==
    /\ sess[s].peer = "open"
    /\ Only(s, [sess[s] EXCEPT !.peer = "silent"])

(* The worker's end of the connection closes: the process died or was      *)
(* restarted, or it saw the server close.                                  *)
WorkerCloses(s) ==
    /\ sess[s].peer \in {"open", "silent"}
    /\ Only(s, [sess[s] EXCEPT !.peer = "closed", !.toWorker = <<>>])

-----------------------------------------------------------------------------
InVec(s) == s \in ToSet(vec)

(* Server::__accept: a new session goes to the end of the vector and waits *)
(* for its first message.  After an accept error the handler goes on with  *)
(* a socket that is not connected.                                         *)
Accept(s) ==
    /\ busy = 0
    /\ sess[s].owner # NoWorker /\ ~sess[s].accepted
    /\ Set(s, [sess[s] EXCEPT !.accepted = TRUE, !.recv = 1])
    /\ vec' = Append(vec, s)
    /\ UNCHANGED <<busy, skewed, started, answered>>

AcceptError(s) ==
    /\ busy = 0
    /\ NextConnection(s)
    /\ Set(s, [NewSession EXCEPT !.accepted = TRUE, !.recv = 1, !.peer = "closed"])
    /\ vec' = Append(vec, s)
    /\ UNCHANGED <<busy, skewed, started, answered>>

(* Server::__killSession: stops and erases the first session that is not   *)
(* live; the timer is armed again in every case.                           *)
DeadPositions == {i \in DOMAIN vec : ~sess[vec[i]].live}

KillSession ==
    /\ busy = 0
    /\ IF DeadPositions = {}
       THEN UNCHANGED vars
       ELSE \E i \in DeadPositions :
              /\ \A j \in DeadPositions : i <= j
              /\ Set(vec[i], Stop(sess[vec[i]]))
              /\ vec' = RemoveAt(vec, i)
              /\ UNCHANGED <<busy, skewed, started, answered>>

-----------------------------------------------------------------------------
(* The reactor: completions of the asynchronous operations.                *)

(* One armed receive returns up to MaxChunk messages that have arrived.    *)
ReceiveData(s, k) ==
    LET r == sess[s]
    IN  /\ busy = 0
        /\ r.open /\ r.recv > 0 /\ r.got = <<>>
        /\ k <= Len(r.toServer)
        /\ Only(s, [r EXCEPT !.recv = @ - 1,
                             !.got = SubSeq(r.toServer, 1, k),
                             !.toServer = SubSeq(@, k + 1, Len(@))])

(* All armed receives fail when either end has closed.                     *)
ReceiveFails(s) ==
    LET r == sess[s]
    IN  /\ busy = 0
        /\ r.recv > 0
        /\ ~r.open \/ (r.peer = "closed" /\ r.toServer = <<>>)
        /\ Only(s, [r EXCEPT !.recv = 0, !.recvError = TRUE])

(* A timer of 10 s or 20 s outlasts every handler queued before it expires.*)
PingExpires(s) ==
    LET r == sess[s]
    IN  /\ busy = 0
        /\ r.pingT /\ r.sends = <<>> /\ r.pingQ = {} /\ r.deadQ = {}
        /\ Only(s, [r EXCEPT !.pingT = FALSE, !.pingQ = {"ok"}])

DeadExpires(s) ==
    LET r == sess[s]
    IN  /\ busy = 0
        /\ r.deadT /\ r.sends = <<>> /\ r.pingQ = {} /\ r.deadQ = {}
        /\ Only(s, [r EXCEPT !.deadT = FALSE, !.deadQ = {"ok"}])

-----------------------------------------------------------------------------
(* The handlers of a session.                                              *)

(* _reciveCommand with an error.                                           *)
ReciveError(s) ==
    /\ busy = 0
    /\ sess[s].recvError
    /\ Only(s, Stop([sess[s] EXCEPT !.recvError = FALSE]))

(* _reciveCommand with data: _reciveCheck queues the messages and the loop *)
(* of _commandAnalize begins.                                              *)
ReciveCommand(s) ==
    /\ busy = 0
    /\ sess[s].got # <<>>
    /\ Set(s, [sess[s] EXCEPT !.json = @ \o sess[s].got, !.got = <<>>])
    /\ busy' = s
    /\ UNCHANGED <<vec, skewed, started, answered>>

(* _callback, bound to https_server::Session: it sends the response and    *)
(* forgets the request's body, without which a second call throws.         *)
Throws(q) == q \in answered

\* Mutant of Analized: what was received together is dropped.
AnalizedDrops(s, r) ==
    /\ Set(s, [r EXCEPT !.json = <<>>])
    /\ busy' = 0

(* One pass of SessionMQTT::_commandAnalize.  An exception leaves the      *)
(* message in the queue.  The loop ends with the queue.                    *)
Analized(s, r) ==
    /\ Set(s, IF Kind = "marusia" THEN [r EXCEPT !.json = <<>>] ELSE r)
    /\ busy' = IF Kind = "marusia" \/ r.json = <<>> THEN 0 ELSE s

(* SessionMarusia::_commandAnalize looks at the first message only; what   *)
(* was received with it is dropped by _reciveCommand.                      *)
CommandAnalize(s) ==
    LET r == sess[s]
        t == Head(r.json).t
    IN  /\ busy = s /\ r.json # <<>>
        /\ \/ t = "pong" /\ Analized(s, AnalizePing(r)) /\ UNCHANGED answered
           \/ t = "connect" /\ Analized(s, Autorization(r)) /\ UNCHANGED answered
           \/ t = "answer" /\ Throws(r.callback) /\ Analized(s, r) /\ UNCHANGED answered
           \/ /\ t = "answer" /\ ~Throws(r.callback)
              /\ Analized(s, Pop(r))
              /\ answered' = answered \cup ({r.callback} \ {NoRequest})
        /\ UNCHANGED <<vec, skewed, started>>

(* _sendCommand.  temp_send_byte is shared by all sessions, and compared   *)
(* with the length of what _buf_send holds now: when another send began    *)
(* meanwhile, or a remainder was left, the rest that is sent lies outside  *)
(* the buffer.  The worker may receive junk; the send ends in an error.    *)
SendFails(s) ==
    LET r == sess[s]
    IN  /\ busy = 0
        /\ r.sends # <<>>
        /\ Head(r.sends).t = "err" \/ r.peer = "closed" \/ ~r.live
        /\ Only(s, Stop([r EXCEPT !.sends = Tail(@)]))

SendDone(s) ==
    LET r == sess[s]
    IN  /\ busy = 0
        /\ r.sends # <<>> /\ Head(r.sends).t # "err" /\ r.live
        /\ ~skewed /\ Head(r.sends).t = r.buf.t
        /\ Only(s, [r EXCEPT !.sends = Tail(@), !.buf = Plain("none"),
                             !.nextRecive = FALSE,
                             !.recv = IF r.nextRecive THEN @ + 1 ELSE @])

SendSkews(s, leak) ==
    LET r == sess[s]
    IN  /\ busy = 0
        /\ r.sends # <<>> /\ Head(r.sends).t # "err" /\ r.live
        /\ skewed \/ Head(r.sends) # r.buf
        /\ skewed' = TRUE
        /\ leak => r.open /\ r.peer = "open"
        /\ Set(s, [r EXCEPT !.sends = Append(Tail(@), Plain("err")),
                            !.toWorker = IF leak THEN Append(@, Plain("junk")) ELSE @])
        /\ UNCHANGED <<vec, busy, started, answered>>

(* _ping *)
Ping(s) ==
    LET r == [sess[s] EXCEPT !.pingQ = @ \ {"ok"}]
    IN  /\ busy = 0
        /\ "ok" \in sess[s].pingQ
        /\ Only(s, IF r.live THEN SendPing(r) ELSE r)

PingAborted(s) ==
    /\ busy = 0
    /\ "aborted" \in sess[s].pingQ
    /\ Only(s, Stop([sess[s] EXCEPT !.pingQ = @ \ {"aborted"}]))

\* Mutant of DeadPing: the session is not stopped.
DeadPingIgnored(s, e) ==
    /\ busy = 0
    /\ e \in sess[s].deadQ
    /\ Only(s, [sess[s] EXCEPT !.deadQ = @ \ {e}])

(* _deadPing, whether the timer expired or was cancelled.                  *)
DeadPing(s, e) ==
    LET r == [sess[s] EXCEPT !.deadQ = @ \ {e}]
    IN  /\ busy = 0
        /\ e \in sess[s].deadQ
        /\ Only(s, IF r.pingSuccess THEN r ELSE Stop(r))

(* startCommand, called by the handler of an HTTPS request that found the  *)
(* session by its id: nothing at all happens on a session not live.        *)
StartCommand(s, q) ==
    /\ busy = 0
    /\ InVec(s) /\ sess[s].id \in Known
    /\ q \notin started
    /\ started' = started \cup {q}
    /\ Set(s, IF sess[s].live THEN SendCmd(sess[s], q) ELSE sess[s])
    /\ UNCHANGED <<vec, busy, skewed, answered>>

-----------------------------------------------------------------------------
WorkerStep ==
    \E s \in Sessions :
        \/ \E w \in Workers : Connect(w, s)
        \/ WorkerReads(s) \/ WorkerSilent(s) \/ WorkerCloses(s)

Reactor(s) ==
    \/ Accept(s) \/ ReceiveFails(s)
    \/ \E k \in 1..MaxChunk : ReceiveData(s, k)
    \/ PingExpires(s) \/ DeadExpires(s)

Handler(s) ==
    \/ ReciveError(s) \/ ReciveCommand(s) \/ CommandAnalize(s)
    \/ SendFails(s) \/ SendDone(s) \/ \E leak \in BOOLEAN : SendSkews(s, leak)
    \/ Ping(s) \/ PingAborted(s)
    \/ \E e \in {"ok", "aborted"} : DeadPing(s, e)

Next ==
    \/ WorkerStep
    \/ KillSession
    \/ \E s \in Sessions :
          \/ Reactor(s) \/ Handler(s) \/ AcceptError(s)
          \/ \E q \in Requests : StartCommand(s, q)

Spec == Init /\ [][Next]_vars

(* A queued handler waits only for the handlers before it, an armed timer  *)
(* expires, and the reactor reports what has happened on a socket: each    *)
(* has its turn however often another session's handler runs in between.   *)
(* Nothing is assumed of the workers or of the HTTPS requests.             *)
Fairness ==
    /\ SF_vars(KillSession)
    /\ \A s \in Sessions : SF_vars(Reactor(s)) /\ SF_vars(Handler(s))

FairSpec == Spec /\ Fairness

-----------------------------------------------------------------------------
(* Properties                                                              *)

(* Every variable holds values of its type.                                *)
TypeOK ==
    /\ sess \in [Sessions -> SessionType]
    /\ vec \in Seq(Sessions)
    /\ busy \in Sessions \cup {0}
    /\ skewed \in BOOLEAN
    /\ started \subseteq Requests
    /\ answered \subseteq Requests

(* No live session is left unwatched: a ping is due, or the timer that     *)
(* gives the session up is running, or its handler is about to find the    *)
(* ping unanswered.  A live session without any of them would stay in the  *)
(* vector for ever when its worker is gone, and take the commands.         *)
Watched(r) ==
    r.live => \/ r.pingT \/ "ok" \in r.pingQ
              \/ r.deadT \/ ("ok" \in r.deadQ /\ ~r.pingSuccess)

Monitored == \A s \in Sessions : Watched(sess[s])

(* Arming a timer again, or cancelling it, aborts the wait that is         *)
(* pending, and _ping stops the session on any error, _deadPing whenever   *)
(* the last ping is unanswered.  That never hits a live session: one ping  *)
(* exchange is over before the next timer is armed.                        *)
NoSelfAbort ==
    \A s \in Sessions : sess[s].live =>
        /\ "aborted" \notin sess[s].pingQ
        /\ sess[s].deadQ # {} => sess[s].pingSuccess \/ "aborted" \notin sess[s].deadQ

(* A session can become live after it was stopped: the message that        *)
(* authorizes it was received before __killSession closed the socket.  The *)
(* send of the reply then fails, which stops it again.                     *)
Failing(r) ==
    r.live /\ ~r.open => \E i \in DOMAIN r.sends : r.sends[i].t = "err"

NoLiveClosed == \A s \in Sessions : Failing(sess[s])

(* The questions a worker has still to answer, by their place in its       *)
(* queue, and the messages that the server has still to read.              *)
Questions(r) == {i \in DOMAIN r.toWorker : r.toWorker[i].t \in {"ping", "cmd"}}

Outstanding(r) == Cardinality(Questions(r)) + Len(r.toServer)

(* As long as sends do not overlap, a receive is armed, or will be when    *)
(* the last send completes, for every answer on its way: no answer stays   *)
(* unread in the socket until the next ping.                               *)
AnswersAreRead ==
    \A s \in Sessions :
        LET r == sess[s]
        IN  r.live /\ r.open /\ ~skewed /\ r.sends \in {<<>>, <<r.buf>>}
              => Outstanding(r) <= r.recv + (IF r.nextRecive THEN 1 ELSE 0)

(* While a session waits for the answer to a ping, the ping or its answer  *)
(* is on its way or in the queue of received messages, unless the worker   *)
(* failed: SessionMQTT loses no answer when several arrive together.       *)
Occurs(t, seq) == \E i \in DOMAIN seq : seq[i].t = t

PingNotLost ==
    \A s \in Sessions :
        LET r == sess[s]
        IN  r.live /\ r.open /\ r.deadT /\ r.peer = "open" /\ ~skewed
              => \/ Occurs("ping", r.toWorker)
                 \/ Occurs("pong", r.toServer \o r.got \o r.json)

(* The loop of SessionMQTT::_commandAnalize looks for ever at an answer    *)
(* whose callback throws.                                                  *)
Hung ==
    \E s \in Sessions :
        /\ busy = s /\ sess[s].json # <<>>
        /\ Head(sess[s].json).t = "answer" /\ Throws(sess[s].callback)

(* A session whose worker has closed or fallen silent leaves the vector,   *)
(* whatever commands, pings and answers were under way, unless the thread  *)
(* hangs.                                                                  *)
DeadLinkRemoved ==
    \A s \in Sessions :
        InVec(s) /\ sess[s].peer \in {"closed", "silent"} ~> ~InVec(s) \/ Hung
=============================================================================
