------------------------------- MODULE Bridge -------------------------------
(***************************************************************************)
(* Both ends of the asynchronous TCP bridge (tcp_bridge_async.rs), for a   *)
(* number of connections.  An end is one task that joins a send half and a *)
(* receive half; the application talks to them over two bounded channels.  *)
(* ClientTcpBridge and ServerSingleTcpBridge are the same code, so every   *)
(* action takes the side it runs on.  Messages are whole: PacketFraming    *)
(* says how they are cut.                                                  *)
(***************************************************************************)
EXTENDS Integers, Sequences

CONSTANTS
    MaxConns,  \* bound: how many connections a behaviour makes
    Cap,       \* capacity of a channel (mpsc::channel(32))
    SocketCap  \* how much fits in the sockets between the ends, one way

ASSUME ConnsAssumption == MaxConns \in Nat \ {0}
ASSUME CapAssumption == Cap \in Nat \ {0} /\ SocketCap \in Nat \ {0}

VARIABLE end  \* end[s][c]: what side s has of connection c

Conns == 1 .. MaxConns
Sides == {"client", "server"}
Peer(s) == IF s = "client" THEN "server" ELSE "client"

(* An end's task is none, connected, running, dropping or ended, and each  *)
(* of its halves runs, spins without yielding, or is done; the send half   *)
(* may also be in a write that waits for the peer to read.  The socket has *)
(* this to report: that it is open; "eof"; "resetting": the peer has       *)
(* closed, was written to, and its reset is on its way; "reset": it is     *)
(* here; "shut": it was reported, once; or that it is closed.              *)
(* held: the application has its ends of both channels; out and in: the    *)
(* channels, out with the message before it that is being written; wire:   *)
(* what this end wrote and its peer has not read, or not handed over yet;  *)
(* told: the one-shot channel from the receive half to the send half was   *)
(* used.                                                                   *)
NoEnd ==
    [task |-> "none", send |-> "run", recv |-> "run", told |-> FALSE, held |-> FALSE,
     sock |-> "none", out |-> <<>>, in |-> <<>>, wire |-> <<>>]

BridgeInit == end = [s \in Sides |-> [c \in Conns |-> NoEnd]]

(* A connected end has a socket and two channels. *)
NewEnd(task) == [NoEnd EXCEPT !.task = task, !.held = TRUE, !.sock = "open"]

(* Sender::is_closed: the send half, with its end of the channel, is gone. *)
SenderClosed(s, c) == end[s][c].task \notin {"connected", "running"}
(* try_recv or recv say that nothing comes any more. *)
ReceiverFinished(s, c) == end[s][c].in = <<>> /\ end[s][c].task = "ended"

(* blocking_send and send wait for room in the channel. *)
HasRoom(s, c) ==
    Len(end[s][c].out) < IF end[s][c].send = "write" THEN Cap + 1 ELSE Cap

(* The halves are joined in one task, so a half that never yields keeps    *)
(* the other one from running.                                             *)
\* Mutant: the send half waits until what was received has been taken.
SendRuns_AfterReceive(s, c) ==
    /\ end[s][c].task = "running"
    /\ end[s][c].send \in {"run", "write"}
    /\ end[s][c].recv # "spin"
    /\ end[s][c].in = <<>>

SendRuns(s, c) ==
    /\ end[s][c].task = "running"
    /\ end[s][c].send \in {"run", "write"}
    /\ end[s][c].recv # "spin"

PeerOpen(s, c) == end[s][c].sock = "open"
SocketFull(s, c) == PeerOpen(s, c) /\ Len(end[s][c].wire) >= SocketCap

(***************************************************************************)
(* The send half: wait for a message or for the close channel; write the   *)
(* message, and hear nothing of the close channel until it is written.     *)
(***************************************************************************)
SendWaits(s, c) ==
    /\ SendRuns(s, c)
    /\ end[s][c].send = "run"
    /\ end[s][c].out # <<>>
    /\ SocketFull(s, c)
    /\ end' = [end EXCEPT ![s][c].send = "write"]

SendMessage(s, c) ==
    /\ SendRuns(s, c)
    /\ end[s][c].out # <<>>
    /\ end[s][c].sock \notin {"reset", "shut"}
    /\ ~SocketFull(s, c)
    /\ end' = [end EXCEPT ![s][c].out = Tail(@),
                          ![s][c].send = "run",
                          ![s][c].wire = IF PeerOpen(s, c)
                                         THEN Append(@, Head(end[s][c].out)) ELSE @,
                          ![s][c].sock = IF @ = "eof" THEN "resetting" ELSE @]

SendFails(s, c) ==
    /\ SendRuns(s, c)
    /\ end[s][c].out # <<>>
    /\ end[s][c].sock \in {"reset", "shut"}
    /\ end' = [end EXCEPT ![s][c].out = Tail(@), ![s][c].send = "done", ![s][c].sock = "shut"]

SendEnds(s, c) ==
    /\ SendRuns(s, c)
    /\ end[s][c].send = "run"
    /\ end[s][c].told \/ (end[s][c].out = <<>> /\ ~end[s][c].held)
    /\ end' = [end EXCEPT ![s][c].send = "done"]

(***************************************************************************)
(* The receive half: wait until the socket is readable or the application  *)
(* has dropped its channel; then read until there is nothing to read.      *)
(***************************************************************************)
RecvRuns(s, c) == end[s][c].task = "running" /\ end[s][c].recv = "run"

ReadMessage(s, c) ==
    LET p == Peer(s) IN
    /\ RecvRuns(s, c)
    /\ end[p][c].wire # <<>>
    /\ end[s][c].held
    /\ Len(end[s][c].in) < Cap
    /\ end' = [end EXCEPT ![s][c].in = Append(@, Head(end[p][c].wire)),
                          ![p][c].wire = Tail(@)]

(* The application is gone, which the loop sees at once or when it hands   *)
(* over a message: leave the loop and tell the send half.                  *)
StopReading(s, c) ==
    LET p == Peer(s) IN
    /\ RecvRuns(s, c)
    /\ ~end[s][c].held
    /\ \E left \in {end[p][c].wire} \cup {Tail(w) : w \in {end[p][c].wire} \ {<<>>}} :
         end' = [end EXCEPT ![s][c].recv = "done", ![s][c].told = TRUE,
                            ![p][c].wire = left]

AtEndOfStream(s, c) ==
    end[Peer(s)][c].wire = <<>> /\ end[s][c].sock \in {"eof", "resetting", "shut"}

(* A read of no bytes is taken for data; the loop reads again, for ever. *)
ReadNothing(s, c) ==
    /\ RecvRuns(s, c)
    /\ AtEndOfStream(s, c)
    /\ end' = [end EXCEPT ![s][c].recv = "spin"]

(* A read error leaves process through ?: nobody is told. *)
ReadFails(s, c) ==
    /\ end[s][c].task = "running"
    /\ end[s][c].recv \in {"run", "spin"}
    /\ end[Peer(s)][c].wire = <<>>
    /\ end[s][c].sock = "reset"
    /\ end' = [end EXCEPT ![s][c].recv = "done", ![s][c].sock = "shut"]

(***************************************************************************)
(* The end of a task.  The bridge is dropped: first its send half, which   *)
(* closes the channel and ends the stream, then its receive half, which    *)
(* closes the socket.  A socket closed with unread data is reset.          *)
(***************************************************************************)
DropSend(s, c) ==
    /\ end[s][c].task = "running" /\ end[s][c].send = "done" /\ end[s][c].recv = "done"
    /\ end' = [end EXCEPT ![s][c].task = "dropping", ![s][c].out = <<>>,
                          ![Peer(s)][c].sock = IF @ = "open" THEN "eof" ELSE @]

(* The ends of a connection after the socket of side s is closed. *)
AfterClose(s, mine, theirs) ==
    LET unread == theirs.wire # <<>>
        sock == CASE theirs.sock = "closed" -> "closed"
                  [] theirs.sock # "closed" /\ unread -> "reset"
                  [] theirs.sock = "open" /\ ~unread -> "eof"
                  [] OTHER -> theirs.sock
    IN [p \in Sides |->
          IF p = s
          THEN [mine EXCEPT !.task = "ended", !.sock = "closed", !.out = <<>>,
                            !.wire = IF unread THEN <<>> ELSE @]
          ELSE [theirs EXCEPT !.sock = sock, !.wire = <<>>]]

DropReceive(s, c) ==
    /\ end[s][c].task = "dropping"
    /\ end' = [p \in Sides |->
                 [end[p] EXCEPT ![c] = AfterClose(s, end[s][c], end[Peer(s)][c])[p]]]

(* Side s gives up these connections without another write: it exits, or   *)
(* drops a listener.                                                       *)
AllClosed(s, cs) ==
    [p \in Sides |-> [c \in Conns |->
       IF c \in cs THEN AfterClose(s, end[s][c], end[Peer(s)][c])[p] ELSE end[p][c]]]

(* The process of side s ends, and its channels with it. *)
ProcessEnds(s) ==
    LET live == {c \in Conns : end[s][c].task \notin {"none", "ended"}}
    IN [AllClosed(s, live) EXCEPT ![s] =
          [c \in Conns |-> [@[c] EXCEPT !.held = FALSE, !.in = <<>>]]]

ResetArrives(s, c) ==
    /\ end[s][c].sock = "resetting"
    /\ end' = [end EXCEPT ![s][c].sock = "reset"]

SendHalf(s, c) ==
    SendWaits(s, c) \/ SendMessage(s, c) \/ SendFails(s, c) \/ SendEnds(s, c)
ReceiveHalf(s, c) ==
    ReadMessage(s, c) \/ StopReading(s, c) \/ ReadNothing(s, c) \/ ReadFails(s, c)
TaskEnds(s, c) == DropSend(s, c) \/ DropReceive(s, c)

BridgeStep(s, c) ==
    SendHalf(s, c) \/ ReceiveHalf(s, c) \/ TaskEnds(s, c) \/ ResetArrives(s, c)
=============================================================================
