---------------------------- MODULE WorkerSocket ----------------------------
(***************************************************************************)
(* The TCP socket through which a worker process talks to the main server, *)
(* as MSWorker.cpp and Worker.hpp use it: boost::asio, external to the     *)
(* repository.                                                             *)
(*                                                                         *)
(* An operation waits in pend until the reactor completes it; its handler, *)
(* named by h, then waits in ready.  Handlers run in the order of their    *)
(* completions, one at a time.                                             *)
(***************************************************************************)
EXTENDS Naturals, Sequences, SequencesExt

CONSTANTS
    Msg,        \* the messages on the link, and NoMsg for none
    NoMsg,
    Handlers    \* names of the handlers

Op == [h : Handlers, m : Msg]

Completion == [h : Handlers, ok : BOOLEAN, m : Msg, got : Seq(Msg)]

(* The server's end; gone is a server that has vanished without a word.    *)
Peers == {"none", "open", "accepted", "closed", "gone"}

SocketType ==
    [sock     : {"closed", "opened", "connecting", "connected"},
     pend     : Seq(Op),
     ready    : Seq(Completion),
     peer     : Peers,
     toServer : Seq(Msg),
     toWorker : Seq(Msg)]

NewSocket == [sock |-> "closed", pend |-> <<>>, ready |-> <<>>, peer |-> "none",
              toServer |-> <<>>, toWorker |-> <<>>]

Succeeded(op, got) == [h |-> op.h, ok |-> TRUE, m |-> op.m, got |-> got]

Failed(op) == [h |-> op.h, ok |-> FALSE, m |-> op.m, got |-> <<>>]

Operation(h, m) == [h |-> h, m |-> m]

-----------------------------------------------------------------------------
(* What the program calls, as functions of the socket s.                   *)

(* close() aborts what has not completed; is_open() is tested before.      *)
Close(s) ==
    IF s.sock = "closed" THEN s
    ELSE [s EXCEPT !.sock = "closed", !.pend = <<>>,
                   !.ready = @ \o [i \in DOMAIN s.pend |-> Failed(s.pend[i])],
                   !.peer = "none", !.toServer = <<>>, !.toWorker = <<>>]

(* async_connect opens a closed socket; it fails on one that is connecting *)
(* or connected.                                                           *)
AsyncConnect(s, h) ==
    IF s.sock \in {"closed", "opened"}
    THEN [s EXCEPT !.sock = "connecting", !.pend = Append(@, Operation(h, NoMsg))]
    ELSE [s EXCEPT !.ready = Append(@, Failed(Operation(h, NoMsg)))]

(* On a closed socket every operation fails at once.                       *)
Begin(s, op) ==
    IF s.sock = "closed"
    THEN [s EXCEPT !.ready = Append(@, Failed(op))]
    ELSE [s EXCEPT !.pend = Append(@, op)]

AsyncSend(s, h, m) == Begin(s, Operation(h, m))

AsyncReceive(s, h) == Begin(s, Operation(h, NoMsg))

-----------------------------------------------------------------------------
(* The reactor: operation number i of pend completes.                      *)

Complete(s, i, c) ==
    [s EXCEPT !.pend = RemoveAt(@, i), !.ready = Append(@, c)]

Connected(s, i) ==
    [Complete(s, i, Succeeded(s.pend[i], <<>>)) EXCEPT !.sock = "connected", !.peer = "open"]

ConnectRefused(s, i) ==
    [Complete(s, i, Failed(s.pend[i])) EXCEPT !.sock = "opened"]

(* What is sent to a server that has ended is lost, with or without an     *)
(* error; sending an empty string sends nothing.                           *)
SendDone(s, i) ==
    [Complete(s, i, Succeeded(s.pend[i], <<>>)) EXCEPT
        !.toServer = IF s.peer \in {"open", "accepted"} /\ s.pend[i].m # NoMsg
                     THEN Append(@, s.pend[i].m) ELSE @]

(* A receive returns the first k messages that have arrived.               *)
ReceiveDone(s, i, k) ==
    [Complete(s, i, Succeeded(s.pend[i], SubSeq(s.toWorker, 1, k))) EXCEPT
        !.toWorker = SubSeq(@, k + 1, Len(@))]

(* A receive returns the first k messages and the beginning of the next.   *)
ReceiveSplit(s, i, k, first, rest) ==
    [Complete(s, i, Succeeded(s.pend[i], Append(SubSeq(s.toWorker, 1, k), first))) EXCEPT
        !.toWorker = <<rest>> \o SubSeq(@, k + 2, Len(@))]

OperationFails(s, i) == Complete(s, i, Failed(s.pend[i]))
=============================================================================
