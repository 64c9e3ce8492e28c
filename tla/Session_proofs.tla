---------------------------- MODULE Session_proofs ----------------------------
(***************************************************************************)
(* Theorems about Session, for any number of connections, capacity of the  *)
(* channels, sequence of sizes and of keys, and number of faults: at most  *)
(* one attempt to connect, a viewport before any key on every connection,  *)
(* and no frame older than the one before.                                 *)
(*                                                                         *)
(* The second is about four places a message can be in: the UI thread's    *)
(* hands, the client's channel, the connection and the server's channel.   *)
(* KeyWaits says of the first of these that holds anything, seen from the  *)
(* server, that it does not start with a key.  A connection that was       *)
(* closed may lose messages from the middle, so it only counts what can    *)
(* still arrive.                                                           *)
(*                                                                         *)
(* The third goes once around the connection in use: from the tree over    *)
(* the frames under way, the server's viewport and the messages under way  *)
(* to the window's viewport, moments only get later.                       *)
(***************************************************************************)
EXTENDS Session, SequenceTheorems, FiniteSetTheorems, TLAPS

ToServer == Keys \cup {Viewport(v) : v \in Viewports}
ToClient == [viewport : {None} \cup Viewports]

\* Messages to the server travel one way, frames the other.
SentBy(s) == IF s = "client" THEN ToServer ELSE ToClient

EndOf(s) ==
    [task : {"none", "connected", "running", "dropping", "ended"},
     send : {"run", "write", "done"}, recv : {"run", "spin", "done"},
     told : BOOLEAN, held : BOOLEAN,
     sock : {"none", "open", "eof", "resetting", "reset", "shut", "closed"},
     out : Seq(SentBy(s)), in : Seq(SentBy(Peer(s))), wire : Seq(SentBy(s))]

EndsOK ==
    /\ end = [s \in Sides |-> end[s]]
    /\ \A s \in Sides : end[s] \in [Conns -> EndOf(s)]

UiOK ==
    /\ attempts \in Nat
    /\ inner \in {NoInner, EmptyShell} \cup Conns
    /\ using \in {None} \cup Conns
    /\ current \in {None} \cup Viewports
    /\ outbox \in Seq(ToServer)
    /\ pc \in {"idle", "poll", "redraw", "draw", "exited"}
    /\ tree \in ToClient /\ shown \in ToClient
    /\ queued \in BOOLEAN /\ keys \in Nat

\* The UI thread has channels when it is about to use them.
ChannelsInHand ==
    /\ outbox # <<>> => using # None
    /\ pc = "redraw" => outbox = <<>>
    /\ pc \in {"poll", "draw"} => using # None

ServerOK ==
    /\ up \in BOOLEAN /\ listening \in BOOLEAN /\ faults \in Nat
    /\ state \in [Conns -> [status : {"none", "serving", "gone", "panicked"},
                            viewport : {None} \cup Viewports, sending : ToClient]]

\* What is on its way to the server on connection c.
In(c) == end["server"][c].in
Wire(c) == end["client"][c].wire
Out(c) == end["client"][c].out
Task(c) == end["client"][c].task

\* What the client writes on connection c can still arrive.
OpenEnd(cl) == cl.sock = "open" /\ cl.task \in {"connected", "running"}

\* A connection whose channels the UI thread has never had is empty.
Fresh(c) == Task(c) \in {"none", "connected"} \/ inner = c

NewIsEmpty(c) ==
    /\ Fresh(c) => In(c) = <<>> /\ Wire(c) = <<>> /\ Out(c) = <<>>
    /\ c \in {inner, using} => Task(c) \notin {"none", "connected"}
    /\ Task(c) = "none" => end["server"][c].task = "none"

\* The server reads from a connection while it serves it, and not before.
ServedIsHeld(c) ==
    /\ state[c].status = "none" => /\ state[c] = NoState
                                   /\ In(c) = <<>>
                                   /\ end["server"][c].task # "running"
    /\ state[c].status # "none" => end["server"][c].task \notin {"none", "connected"}
    /\ state[c].status = "serving" /\ end["server"][c].task = "running"
         => end["server"][c].held

NoKeyFirst(messages) == messages # <<>> => Head(messages) \notin Keys

\* What has arrived, or can, does not start with a key.
Waiting(cl, sv) ==
    /\ NoKeyFirst(sv.in)
    /\ sv.in = <<>> => NoKeyFirst(cl.wire)
    /\ sv.in = <<>> /\ cl.wire = <<>> /\ OpenEnd(cl) => NoKeyFirst(cl.out)

\* What the UI thread sends next is what the server gets next.
Drained(cl, sv) == sv.in = <<>> /\ cl.wire = <<>> /\ OpenEnd(cl) /\ cl.out = <<>>

SendsNoKey == NoKeyFirst(outbox) /\ (outbox = <<>> => current = None)

KeyWaits(c) ==
    state[c].status \in {"none", "serving"} /\ state[c].viewport = None =>
        /\ Waiting(end["client"][c], end["server"][c])
        /\ Drained(end["client"][c], end["server"][c]) /\ using = c => SendsNoKey

ConnInv(c) == NewIsEmpty(c) /\ ServedIsHeld(c) /\ KeyWaits(c)

Types == EndsOK /\ UiOK /\ ServerOK
SessionInv ==
    /\ Types
    /\ ChannelsInHand
    /\ OneConnection
    /\ \A c \in Conns : ConnInv(c)
    /\ ViewportFirst
-----------------------------------------------------------------------------
(* Sequences.                                                              *)

LEMMA Taken ==
    ASSUME NEW S, NEW s \in Seq(S), s # <<>>
    PROVE  /\ Head(s) \in S
           /\ Tail(s) \in Seq(S)
           /\ Len(Tail(s)) = Len(s) - 1
           /\ Len(s) \in Nat
BY HeadTailProperties, LenProperties

LEMMA Appended ==
    ASSUME NEW S, NEW s \in Seq(S), NEW x \in S
    PROVE  /\ Append(s, x) \in Seq(S)
           /\ Append(s, x) # <<>>
           /\ Len(Append(s, x)) = Len(s) + 1
           /\ Len(s) \in Nat
           /\ Head(Append(s, x)) = IF s = <<>> THEN x ELSE Head(s)
<1>1. Append(s, x) \in Seq(S) /\ Append(s, x) # <<>> /\ Len(Append(s, x)) = Len(s) + 1
  BY AppendProperties
<1>2. Len(s) \in Nat /\ (s = <<>> <=> Len(s) = 0)
  BY LenProperties, EmptySeq
<1>3. Head(Append(s, x)) = Append(s, x)[1] /\ Head(s) = s[1]
  BY DEF Head
<1>4. Append(s, x)[1] = IF s = <<>> THEN x ELSE s[1]
  BY <1>2, AppendProperties
<1> QED
  BY <1>1, <1>2, <1>3, <1>4


LEMMA Prefixed ==
    ASSUME NEW S, NEW x \in S, NEW s \in Seq(S)
    PROVE  /\ <<x>> \o s \in Seq(S)
           /\ <<x>> \o s # <<>>
           /\ Head(<<x>> \o s) = x
<1> DEFINE t == <<x>> \o s
<1>1. <<x>> \in Seq(S) /\ Len(<<x>>) = 1 /\ <<x>>[1] = x
  BY SeqDef
<1>2. Len(s) \in Nat
  BY LenProperties
<1>3. /\ t \in Seq(S) /\ Len(t) = Len(<<x>>) + Len(s)
      /\ \A i \in 1 .. Len(<<x>>) + Len(s) : t[i] = IF i <= Len(<<x>>) THEN <<x>>[i] ELSE s[i - Len(<<x>>)]
  BY <1>1, ConcatProperties
<1> HIDE DEF t
<1>4. t[1] = x /\ Len(t) # 0
  BY <1>1, <1>2, <1>3
<1>5. t # <<>>
  BY <1>4, EmptySeq
<1>6. Head(t) = t[1]
  BY DEF Head
<1> QED
  BY <1>3, <1>4, <1>5, <1>6 DEF t

LEMMA Single ==
    ASSUME NEW S, NEW x \in S
    PROVE  <<x>> \in Seq(S) /\ <<x>> # <<>> /\ Head(<<x>>) = x
<1>1. <<x>> \in Seq(S) /\ Len(<<x>>) = 1
  BY SeqDef
<1> QED
  BY <1>1, EmptySeq DEF Head

-----------------------------------------------------------------------------
(* The connections that are being made. *)
LEMMA ConnectingIsFinite == IsFiniteSet(Connecting)
<1>1. IsFiniteSet(Conns)
  BY ConnsAssumption, FS_Interval DEF Conns
<1> QED
  BY <1>1, FS_Subset DEF Connecting
-----------------------------------------------------------------------------
(* The two ends of one connection, cl and sv, and what they are next.      *)

Running == {"running", "dropping", "ended"}

\* Nothing is lost of a sequence, all of it, or the first.
Left(s, t) == t = s \/ t = <<>> \/ (s # <<>> /\ t = Tail(s))

\* What a step does with the messages from end a to end b, when the tasks of
\* the bridge move them or a process gives them up.
Flow(a, b, a2, b2) ==
    \/ /\ a.wire # <<>>
       /\ b2.in = Append(b.in, Head(a.wire)) /\ a2.wire = Tail(a.wire)
       /\ a2.out = a.out
    \/ /\ a.out # <<>>
       /\ a2.wire = Append(a.wire, Head(a.out)) /\ a2.out = Tail(a.out)
       /\ b2.in = b.in
    \/ Left(b.in, b2.in) /\ Left(a.wire, a2.wire) /\ Left(a.out, a2.out)

FlowsBothWays(cl, sv, cl2, sv2) == Flow(cl, sv, cl2, sv2) /\ Flow(sv, cl, sv2, cl2)

\* What a step does with the messages to the server.
Carries(cl, sv, cl2, sv2) ==
    \/ sv2.in = sv.in /\ cl2.wire = cl.wire /\ cl2.out = cl.out
    \/ /\ cl.wire # <<>>
       /\ sv2.in = Append(sv.in, Head(cl.wire)) /\ cl2.wire = Tail(cl.wire)
       /\ cl2.out = cl.out
    \/ /\ OpenEnd(cl) /\ cl.out # <<>>
       /\ cl2.wire = Append(cl.wire, Head(cl.out)) /\ cl2.out = Tail(cl.out)
       /\ sv2.in = sv.in
    \/ /\ ~OpenEnd(cl2)
       /\ sv2.in = sv.in
       /\ cl2.wire \in {cl.wire, <<>>}
       /\ cl.out = <<>> => cl2.out = <<>>
    \/ /\ sv.task = "running" /\ ~sv.held
       /\ sv2.in = sv.in /\ cl2.out = cl.out
       /\ cl.wire # <<>> /\ cl2.wire = Tail(cl.wire)

Moves(cl, sv, cl2, sv2) ==
    /\ Carries(cl, sv, cl2, sv2)
    /\ FlowsBothWays(cl, sv, cl2, sv2)
    /\ OpenEnd(cl2) => OpenEnd(cl)
    /\ cl2.task = cl.task \/ {cl.task, cl2.task} \subseteq Running
    /\ sv2.task = "running" => sv.task = "running" /\ sv2.held = sv.held
    /\ sv2.task \in {"none", "connected"} => sv2.task = sv.task
    /\ sv.task = "none" => sv2.task = "none"
    /\ sv2.in # sv.in => sv.task = "running"

Moved(c) ==
    Moves(end["client"][c], end["server"][c], end'["client"][c], end'["server"][c])

\* The same, seen from side s.
MovesFor(s, mine, theirs, mine2, theirs2) ==
    IF s = "client" THEN Moves(mine, theirs, mine2, theirs2)
                    ELSE Moves(theirs, mine, theirs2, mine2)

LEMMA Peers ==
    ASSUME NEW s \in Sides
    PROVE  /\ Peer(s) \in Sides /\ Peer(s) # s /\ Peer(Peer(s)) = s
           /\ s = "client" => Peer(s) = "server"
           /\ s = "server" => Peer(s) = "client"
           /\ \A t \in Sides : t \in {s, Peer(s)}
BY DEF Sides, Peer

LEMMA EndsOfOne ==
    ASSUME EndsOK, NEW s \in Sides, NEW c \in Conns
    PROVE  end[s][c] \in EndOf(s)
BY DEF EndsOK

(* The ends of connection c become mine and theirs. *)
Become(s, c, mine, theirs) ==
    /\ end' = [t \in Sides |-> end'[t]]
    /\ end'[s] = [end[s] EXCEPT ![c] = mine]
    /\ end'[Peer(s)] = [end[Peer(s)] EXCEPT ![c] = theirs]

LEMMA OneBecomes ==
    ASSUME EndsOK, NEW s \in Sides, NEW c \in Conns,
           NEW mine \in EndOf(s), NEW theirs \in EndOf(Peer(s)), Become(s, c, mine, theirs)
    PROVE  /\ EndsOK'
           /\ end'[s][c] = mine /\ end'[Peer(s)][c] = theirs
           /\ \A d \in Conns \ {c}, t \in Sides : end'[t][d] = end[t][d]
<1>1. /\ end[s] \in [Conns -> EndOf(s)]
      /\ end[Peer(s)] \in [Conns -> EndOf(Peer(s))]
  BY Peers DEF EndsOK
<1>2. /\ end'[s] \in [Conns -> EndOf(s)]
      /\ end'[s][c] = mine
      /\ \A d \in Conns \ {c} : end'[s][d] = end[s][d]
  BY <1>1 DEF Become
<1>3. /\ end'[Peer(s)] \in [Conns -> EndOf(Peer(s))]
      /\ end'[Peer(s)][c] = theirs
      /\ \A d \in Conns \ {c} : end'[Peer(s)][d] = end[Peer(s)][d]
  BY <1>1 DEF Become
<1>4. EndsOK'
  BY <1>2, <1>3, Peers DEF EndsOK, Become
<1> QED
  BY <1>2, <1>3, <1>4, Peers

LEMMA OneMoves ==
    ASSUME EndsOK, NEW s \in Sides, NEW c \in Conns,
           NEW mine \in EndOf(s), NEW theirs \in EndOf(Peer(s)), Become(s, c, mine, theirs),
           MovesFor(s, end[s][c], end[Peer(s)][c], mine, theirs)
    PROVE  EndsOK' /\ \A d \in Conns : Moved(d)
<1>1. /\ EndsOK'
      /\ end'[s][c] = mine /\ end'[Peer(s)][c] = theirs
      /\ \A d \in Conns \ {c}, t \in Sides : end'[t][d] = end[t][d]
  BY OneBecomes
<1>2. \A d \in Conns \ {c} : Moved(d)
  BY <1>1 DEF Moved, Moves, Carries, FlowsBothWays, Flow, Left, Sides
<1>3. Moved(c)
  BY <1>1, Peers DEF Moved, MovesFor, Sides
<1> QED
  BY <1>1, <1>2, <1>3

-----------------------------------------------------------------------------
(* The steps of the bridge.                                                *)

LEMMA SendWaitsMoves ==
    ASSUME EndsOK, NEW s \in Sides, NEW c \in Conns, SendWaits(s, c)
    PROVE  EndsOK' /\ \A d \in Conns : Moved(d)
<1> DEFINE e == end[s][c]
           theirs == end[Peer(s)][c]
           mine == [e EXCEPT !.send = "write"]
<1>1. e \in EndOf(s) /\ theirs \in EndOf(Peer(s))
  BY EndsOfOne, Peers
<1>2. e.task = "running"
  BY DEF SendWaits, SendRuns
<1>3. mine \in EndOf(s)
  BY <1>1 DEF EndOf
<1>4. Become(s, c, mine, theirs)
  BY Peers DEF SendWaits, EndsOK, Become
<1>5. MovesFor(s, e, theirs, mine, theirs)
  BY <1>1, <1>2, Peers DEF MovesFor, Moves, Carries, FlowsBothWays, Flow, Left, OpenEnd, Running, EndOf
<1> QED
  BY <1>1, <1>3, <1>4, <1>5, OneMoves

LEMMA SendMessageMoves ==
    ASSUME EndsOK, NEW s \in Sides, NEW c \in Conns, SendMessage(s, c)
    PROVE  EndsOK' /\ \A d \in Conns : Moved(d)
<1> DEFINE e == end[s][c]
           theirs == end[Peer(s)][c]
           mine == [e EXCEPT !.out = Tail(@), !.send = "run",
                             !.wire = IF e.sock = "open" THEN Append(@, Head(e.out)) ELSE @,
                             !.sock = IF @ = "eof" THEN "resetting" ELSE @]
<1>1. e \in EndOf(s) /\ theirs \in EndOf(Peer(s))
  BY EndsOfOne, Peers
<1>2. e.task = "running" /\ e.out # <<>>
  BY DEF SendMessage, SendRuns
<1>3. mine \in EndOf(s)
  <2>1. Head(e.out) \in SentBy(s) /\ Tail(e.out) \in Seq(SentBy(s))
    BY <1>1, <1>2, Taken DEF EndOf
  <2>2. Append(e.wire, Head(e.out)) \in Seq(SentBy(s))
    BY <1>1, <2>1, Appended DEF EndOf
  <2> QED
    BY <1>1, <2>1, <2>2 DEF EndOf
<1>4. Become(s, c, mine, theirs)
  BY Peers, ZenonT(60) DEF SendMessage, PeerOpen, EndsOK, Become
<1>5. MovesFor(s, e, theirs, mine, theirs)
  BY <1>1, <1>2, Peers DEF MovesFor, Moves, Carries, FlowsBothWays, Flow, Left, OpenEnd, Running, EndOf
<1> QED
  BY <1>1, <1>3, <1>4, <1>5, OneMoves

LEMMA SendFailsMoves ==
    ASSUME EndsOK, NEW s \in Sides, NEW c \in Conns, SendFails(s, c)
    PROVE  EndsOK' /\ \A d \in Conns : Moved(d)
<1> DEFINE e == end[s][c]
           theirs == end[Peer(s)][c]
           mine == [e EXCEPT !.out = Tail(@), !.send = "done", !.sock = "shut"]
<1>1. e \in EndOf(s) /\ theirs \in EndOf(Peer(s))
  BY EndsOfOne, Peers
<1>2. e.task = "running" /\ e.out # <<>>
  BY DEF SendFails, SendRuns
<1>3. mine \in EndOf(s)
  BY <1>1, <1>2, Taken DEF EndOf
<1>4. Become(s, c, mine, theirs)
  BY Peers DEF SendFails, EndsOK, Become
<1>5. MovesFor(s, e, theirs, mine, theirs)
  BY <1>1, <1>2, Peers DEF MovesFor, Moves, Carries, FlowsBothWays, Flow, Left, OpenEnd, Running, EndOf
<1> QED
  BY <1>1, <1>3, <1>4, <1>5, OneMoves

LEMMA SendEndsMoves ==
    ASSUME EndsOK, NEW s \in Sides, NEW c \in Conns, SendEnds(s, c)
    PROVE  EndsOK' /\ \A d \in Conns : Moved(d)
<1> DEFINE e == end[s][c]
           theirs == end[Peer(s)][c]
           mine == [e EXCEPT !.send = "done"]
<1>1. e \in EndOf(s) /\ theirs \in EndOf(Peer(s))
  BY EndsOfOne, Peers
<1>2. e.task = "running"
  BY DEF SendEnds, SendRuns
<1>3. mine \in EndOf(s)
  BY <1>1 DEF EndOf
<1>4. Become(s, c, mine, theirs)
  BY Peers DEF SendEnds, EndsOK, Become
<1>5. MovesFor(s, e, theirs, mine, theirs)
  BY <1>1, <1>2, Peers DEF MovesFor, Moves, Carries, FlowsBothWays, Flow, Left, OpenEnd, Running, EndOf
<1> QED
  BY <1>1, <1>3, <1>4, <1>5, OneMoves

LEMMA ReadNothingMoves ==
    ASSUME EndsOK, NEW s \in Sides, NEW c \in Conns, ReadNothing(s, c)
    PROVE  EndsOK' /\ \A d \in Conns : Moved(d)
<1> DEFINE e == end[s][c]
           theirs == end[Peer(s)][c]
           mine == [e EXCEPT !.recv = "spin"]
<1>1. e \in EndOf(s) /\ theirs \in EndOf(Peer(s))
  BY EndsOfOne, Peers
<1>2. e.task = "running"
  BY DEF ReadNothing, RecvRuns
<1>3. mine \in EndOf(s)
  BY <1>1 DEF EndOf
<1>4. Become(s, c, mine, theirs)
  BY Peers DEF ReadNothing, EndsOK, Become
<1>5. MovesFor(s, e, theirs, mine, theirs)
  BY <1>1, <1>2, Peers DEF MovesFor, Moves, Carries, FlowsBothWays, Flow, Left, OpenEnd, Running, EndOf
<1> QED
  BY <1>1, <1>3, <1>4, <1>5, OneMoves

LEMMA ReadFailsMoves ==
    ASSUME EndsOK, NEW s \in Sides, NEW c \in Conns, ReadFails(s, c)
    PROVE  EndsOK' /\ \A d \in Conns : Moved(d)
<1> DEFINE e == end[s][c]
           theirs == end[Peer(s)][c]
           mine == [e EXCEPT !.recv = "done", !.sock = "shut"]
<1>1. e \in EndOf(s) /\ theirs \in EndOf(Peer(s))
  BY EndsOfOne, Peers
<1>2. e.task = "running"
  BY DEF ReadFails
<1>3. mine \in EndOf(s)
  BY <1>1 DEF EndOf
<1>4. Become(s, c, mine, theirs)
  BY Peers DEF ReadFails, EndsOK, Become
<1>5. MovesFor(s, e, theirs, mine, theirs)
  BY <1>1, <1>2, Peers DEF MovesFor, Moves, Carries, FlowsBothWays, Flow, Left, OpenEnd, Running, EndOf
<1> QED
  BY <1>1, <1>3, <1>4, <1>5, OneMoves

LEMMA ResetArrivesMoves ==
    ASSUME EndsOK, NEW s \in Sides, NEW c \in Conns, ResetArrives(s, c)
    PROVE  EndsOK' /\ \A d \in Conns : Moved(d)
<1> DEFINE e == end[s][c]
           theirs == end[Peer(s)][c]
           mine == [e EXCEPT !.sock = "reset"]
<1>1. e \in EndOf(s) /\ theirs \in EndOf(Peer(s))
  BY EndsOfOne, Peers
<1>2. e.sock = "resetting"
  BY DEF ResetArrives
<1>3. mine \in EndOf(s)
  BY <1>1 DEF EndOf
<1>4. Become(s, c, mine, theirs)
  BY Peers DEF ResetArrives, EndsOK, Become
<1>5. MovesFor(s, e, theirs, mine, theirs)
  BY <1>1, <1>2, Peers DEF MovesFor, Moves, Carries, FlowsBothWays, Flow, Left, OpenEnd, Running, EndOf
<1> QED
  BY <1>1, <1>3, <1>4, <1>5, OneMoves

LEMMA ReadMessageMoves ==
    ASSUME EndsOK, NEW s \in Sides, NEW c \in Conns, ReadMessage(s, c)
    PROVE  EndsOK' /\ \A d \in Conns : Moved(d)
<1> DEFINE e == end[s][c]
           p == end[Peer(s)][c]
           mine == [e EXCEPT !.in = Append(@, Head(p.wire))]
           theirs == [p EXCEPT !.wire = Tail(@)]
<1>1. e \in EndOf(s) /\ p \in EndOf(Peer(s))
  BY EndsOfOne, Peers
<1>2. e.task = "running" /\ p.wire # <<>>
  BY DEF ReadMessage, RecvRuns
<1>3. mine \in EndOf(s) /\ theirs \in EndOf(Peer(s))
  <2>1. Head(p.wire) \in SentBy(Peer(s)) /\ Tail(p.wire) \in Seq(SentBy(Peer(s)))
    BY <1>1, <1>2, Taken DEF EndOf
  <2>2. Append(e.in, Head(p.wire)) \in Seq(SentBy(Peer(s)))
    BY <1>1, <2>1, Appended DEF EndOf
  <2> QED
    BY <1>1, <2>1, <2>2 DEF EndOf
<1>4. Become(s, c, mine, theirs)
  BY <1>2, Peers DEF ReadMessage, EndsOK, Become
<1>5. MovesFor(s, e, p, mine, theirs)
  BY <1>1, <1>2, Peers, ZenonT(60) DEF MovesFor, Moves, Carries, FlowsBothWays, Flow, Left, OpenEnd, Running, EndOf
<1> QED
  BY <1>1, <1>3, <1>4, <1>5, OneMoves

LEMMA DropSendMoves ==
    ASSUME EndsOK, NEW s \in Sides, NEW c \in Conns, DropSend(s, c)
    PROVE  EndsOK' /\ \A d \in Conns : Moved(d)
<1> DEFINE e == end[s][c]
           p == end[Peer(s)][c]
           mine == [e EXCEPT !.task = "dropping", !.out = <<>>]
           theirs == [p EXCEPT !.sock = IF @ = "open" THEN "eof" ELSE @]
<1>1. e \in EndOf(s) /\ p \in EndOf(Peer(s))
  BY EndsOfOne, Peers
<1>2. e.task = "running"
  BY DEF DropSend
<1>3. mine \in EndOf(s) /\ theirs \in EndOf(Peer(s))
  BY <1>1, EmptySeq, ZenonT(60) DEF EndOf
<1>4. Become(s, c, mine, theirs)
  BY Peers DEF DropSend, EndsOK, Become
<1>5. MovesFor(s, e, p, mine, theirs)
  BY <1>1, <1>2, Peers DEF MovesFor, Moves, Carries, FlowsBothWays, Flow, Left, OpenEnd, Running, EndOf
<1> QED
  BY <1>1, <1>3, <1>4, <1>5, OneMoves

LEMMA StopReadingMoves ==
    ASSUME EndsOK, NEW s \in Sides, NEW c \in Conns, StopReading(s, c)
    PROVE  EndsOK' /\ \A d \in Conns : Moved(d)
<1> DEFINE e == end[s][c]
           p == end[Peer(s)][c]
           mine == [e EXCEPT !.recv = "done", !.told = TRUE]
           theirs(left) == [p EXCEPT !.wire = left]
<1>1. e \in EndOf(s) /\ p \in EndOf(Peer(s))
  BY EndsOfOne, Peers
<1>2. e.task = "running" /\ ~e.held
  BY DEF StopReading, RecvRuns
<1>3. PICK left \in {p.wire} \cup {Tail(w) : w \in {p.wire} \ {<<>>}} :
        end' = [end EXCEPT ![s][c].recv = "done", ![s][c].told = TRUE,
                           ![Peer(s)][c].wire = left]
  BY DEF StopReading
<1>4. left = p.wire \/ (p.wire # <<>> /\ left = Tail(p.wire))
  <2>1. CASE left \in {p.wire}
    BY <2>1
  <2>2. CASE left \in {Tail(w) : w \in {p.wire} \ {<<>>}}
    <3>1. PICK w \in {p.wire} \ {<<>>} : left = Tail(w)
      BY <2>2, Zenon
    <3> QED
      BY <3>1
  <2> QED
    BY <2>1, <2>2, Zenon
<1>5. mine \in EndOf(s) /\ theirs(left) \in EndOf(Peer(s))
  <2>1. p.wire \in Seq(SentBy(Peer(s)))
    BY <1>1 DEF EndOf
  <2>2. p.wire # <<>> => Tail(p.wire) \in Seq(SentBy(Peer(s)))
    BY <2>1, Taken
  <2>3. left \in Seq(SentBy(Peer(s)))
    BY <1>4, <2>1, <2>2
  <2> QED
    BY <1>1, <2>3 DEF EndOf
<1>6. Become(s, c, mine, theirs(left))
  BY <1>3, Peers DEF EndsOK, Become
<1>7. MovesFor(s, e, p, mine, theirs(left))
  BY <1>1, <1>2, <1>4, Peers DEF MovesFor, Moves, Carries, FlowsBothWays, Flow, Left, OpenEnd, Running, EndOf
<1> QED
  BY <1>1, <1>5, <1>6, <1>7, OneMoves

(* A socket is closed. *)
LEMMA AfterCloseIs ==
    ASSUME NEW s \in Sides, NEW e \in EndOf(s), NEW p \in EndOf(Peer(s))
    PROVE  LET mine == AfterClose(s, e, p)[s]
               theirs == AfterClose(s, e, p)[Peer(s)]
           IN /\ mine \in EndOf(s) /\ theirs \in EndOf(Peer(s))
              /\ mine.task = "ended" /\ mine.out = <<>> /\ mine.in = e.in
              /\ mine.wire \in {e.wire, <<>>} /\ mine.held = e.held
              /\ theirs.task = p.task /\ theirs.out = p.out /\ theirs.in = p.in
              /\ theirs.wire = <<>> /\ theirs.held = p.held
              /\ theirs.sock # "open"
<1> DEFINE unread == p.wire # <<>>
           sock == CASE p.sock = "closed" -> "closed"
                     [] p.sock # "closed" /\ unread -> "reset"
                     [] p.sock = "open" /\ ~unread -> "eof"
                     [] OTHER -> p.sock
           mine == [e EXCEPT !.task = "ended", !.sock = "closed", !.out = <<>>,
                             !.wire = IF unread THEN <<>> ELSE @]
           theirs == [p EXCEPT !.sock = sock, !.wire = <<>>]
<1>1. AfterClose(s, e, p)[s] = mine /\ AfterClose(s, e, p)[Peer(s)] = theirs
  BY Peers DEF AfterClose
<1>2. /\ sock \in {"none", "open", "eof", "resetting", "reset", "shut", "closed"}
      /\ sock # "open"
  BY DEF EndOf
<1> HIDE DEF sock
<1>3. mine \in EndOf(s) /\ theirs \in EndOf(Peer(s))
  BY <1>2, EmptySeq, ZenonT(60) DEF EndOf
<1>4. /\ mine.task = "ended" /\ mine.out = <<>> /\ mine.in = e.in
      /\ mine.wire \in {e.wire, <<>>} /\ mine.held = e.held
      /\ theirs.task = p.task /\ theirs.out = p.out /\ theirs.in = p.in
      /\ theirs.wire = <<>> /\ theirs.held = p.held
      /\ theirs.sock # "open"
  BY <1>2 DEF EndOf
<1> QED
  BY <1>1, <1>3, <1>4

LEMMA DropReceiveMoves ==
    ASSUME EndsOK, NEW s \in Sides, NEW c \in Conns, DropReceive(s, c)
    PROVE  EndsOK' /\ \A d \in Conns : Moved(d)
<1> DEFINE e == end[s][c]
           p == end[Peer(s)][c]
           mine == AfterClose(s, e, p)[s]
           theirs == AfterClose(s, e, p)[Peer(s)]
<1>1. e \in EndOf(s) /\ p \in EndOf(Peer(s))
  BY EndsOfOne, Peers
<1>2. e.task = "dropping"
  BY DEF DropReceive
<1>3. /\ mine \in EndOf(s) /\ theirs \in EndOf(Peer(s))
      /\ mine.task = "ended" /\ mine.out = <<>> /\ mine.in = e.in
      /\ mine.wire \in {e.wire, <<>>} /\ mine.held = e.held
      /\ theirs.task = p.task /\ theirs.out = p.out /\ theirs.in = p.in
      /\ theirs.wire = <<>> /\ theirs.held = p.held
      /\ theirs.sock # "open"
  BY <1>1, AfterCloseIs
<1>4. Become(s, c, mine, theirs)
  BY Peers DEF DropReceive, Become
<1> HIDE DEF mine, theirs
<1>5. MovesFor(s, e, p, mine, theirs)
  BY <1>1, <1>2, <1>3, Peers DEF MovesFor, Moves, Carries, FlowsBothWays, Flow, Left, OpenEnd, Running, EndOf
<1> QED
  BY <1>1, <1>3, <1>4, <1>5, OneMoves

LEMMA BridgeStepMoves ==
    ASSUME EndsOK, NEW s \in Sides, NEW c \in Conns, BridgeStep(s, c)
    PROVE  EndsOK' /\ \A d \in Conns : Moved(d)
BY SendWaitsMoves, SendMessageMoves, SendFailsMoves, SendEndsMoves, ReadMessageMoves, StopReadingMoves,
   ReadNothingMoves, ReadFailsMoves, DropSendMoves, DropReceiveMoves, ResetArrivesMoves
   DEF BridgeStep, SendHalf, ReceiveHalf, TaskEnds

-----------------------------------------------------------------------------
(* What such a move keeps.                                                 *)

LEMMA MovesWait ==
    ASSUME NEW cl \in EndOf("client"), NEW sv \in EndOf("server"),
           NEW cl2 \in EndOf("client"), NEW sv2 \in EndOf("server"),
           Moves(cl, sv, cl2, sv2),
           sv.task = "running" => sv.held,
           Waiting(cl, sv)
    PROVE  /\ Waiting(cl2, sv2)
           /\ Drained(cl2, sv2) => Drained(cl, sv)
<1>1. /\ cl.wire \in Seq(ToServer) /\ cl.out \in Seq(ToServer) /\ sv.in \in Seq(ToServer)
  BY DEF EndOf, SentBy, Peer
<1>2. CASE sv2.in = sv.in /\ cl2.wire = cl.wire /\ cl2.out = cl.out
  BY <1>2 DEF Waiting, Drained, Moves
<1>3. CASE /\ cl.wire # <<>>
           /\ sv2.in = Append(sv.in, Head(cl.wire)) /\ cl2.wire = Tail(cl.wire)
           /\ cl2.out = cl.out
  <2>1. Head(cl.wire) \in ToServer
    BY <1>1, <1>3, Taken
  <2>2. sv2.in # <<>> /\ Head(sv2.in) = IF sv.in = <<>> THEN Head(cl.wire) ELSE Head(sv.in)
    BY <1>1, <1>3, <2>1, Appended
  <2> QED
    BY <1>3, <2>2 DEF Waiting, Drained, NoKeyFirst
<1>4. CASE /\ OpenEnd(cl) /\ cl.out # <<>>
           /\ cl2.wire = Append(cl.wire, Head(cl.out)) /\ cl2.out = Tail(cl.out)
           /\ sv2.in = sv.in
  <2>1. Head(cl.out) \in ToServer
    BY <1>1, <1>4, Taken
  <2>2. cl2.wire # <<>> /\ Head(cl2.wire) = IF cl.wire = <<>> THEN Head(cl.out) ELSE Head(cl.wire)
    BY <1>1, <1>4, <2>1, Appended
  <2> QED
    BY <1>4, <2>2 DEF Waiting, Drained, NoKeyFirst
<1>5. CASE /\ ~OpenEnd(cl2)
           /\ sv2.in = sv.in
           /\ cl2.wire \in {cl.wire, <<>>}
  BY <1>5 DEF Waiting, Drained, NoKeyFirst
<1> QED
  BY <1>2, <1>3, <1>4, <1>5 DEF Moves, Carries

LEMMA MovesNothing ==
    ASSUME NEW cl, NEW sv, NEW cl2, NEW sv2, Moves(cl, sv, cl2, sv2),
           sv.in = <<>>, cl.wire = <<>>, cl.out = <<>>
    PROVE  sv2.in = <<>> /\ cl2.wire = <<>> /\ cl2.out = <<>>
BY DEF Moves, Carries

(* A connection moves, and the UI thread takes no channels but those in inner. *)
LEMMA MovedKeeps ==
    ASSUME EndsOK, EndsOK', NEW c \in Conns, ConnInv(c), Moved(c),
           inner' = c => inner = c,
           c \in {inner', using'} => c \in {inner, using},
           (using = c => SendsNoKey) => (using' = c => SendsNoKey'),
           state'[c].status = "none" <=> state[c].status = "none",
           state'[c].status = "none" => state'[c] = state[c],
           state'[c].status = "serving" => state[c].status = "serving"
              /\ (state'[c].viewport = None => state[c].viewport = None)
    PROVE  /\ ConnInv(c)'
           /\ c \in Connecting' <=> c \in Connecting
<1>1. /\ end["client"][c] \in EndOf("client")
      /\ end["server"][c] \in EndOf("server")
      /\ end'["client"][c] \in EndOf("client")
      /\ end'["server"][c] \in EndOf("server")
      /\ Moves(end["client"][c], end["server"][c], end'["client"][c], end'["server"][c])
  BY DEF EndsOK, Sides, Moved
<1>2. /\ Task(c)' = Task(c) \/ {Task(c), Task(c)'} \subseteq Running
      /\ end'["server"][c].task = "running" =>
           /\ end["server"][c].task = "running"
           /\ end'["server"][c].held = end["server"][c].held
      /\ end'["server"][c].task \in {"none", "connected"} =>
           end'["server"][c].task = end["server"][c].task
      /\ end["server"][c].task = "none" => end'["server"][c].task = "none"
  BY <1>1 DEF Moves, Task
<1>3. c \in Connecting' <=> c \in Connecting
  BY <1>2 DEF Connecting, Task, Running
<1>4. NewIsEmpty(c)'
  <2>1. Fresh(c)' => Fresh(c)
    BY <1>2 DEF Fresh, Running
  <2>2. Fresh(c) => In(c)' = <<>> /\ Wire(c)' = <<>> /\ Out(c)' = <<>>
    BY <1>1, MovesNothing DEF ConnInv, NewIsEmpty, In, Wire, Out
  <2>3. c \in {inner', using'} => Task(c)' \notin {"none", "connected"}
    BY <1>2 DEF ConnInv, NewIsEmpty, Running
  <2>4. Task(c)' = "none" => end'["server"][c].task = "none"
    BY <1>2 DEF ConnInv, NewIsEmpty, Running
  <2> QED
    BY <2>1, <2>2, <2>3, <2>4 DEF NewIsEmpty
<1>5. ServedIsHeld(c)'
  <2>1. state[c].status = "none" => In(c)' = <<>>
    BY <1>1 DEF ConnInv, ServedIsHeld, In, Moves
  <2> QED
    BY <1>2, <2>1 DEF ConnInv, ServedIsHeld
<1>6. KeyWaits(c)'
  <2> SUFFICES ASSUME state'[c].status \in {"none", "serving"}, state'[c].viewport = None
               PROVE  /\ Waiting(end'["client"][c], end'["server"][c])
                      /\ Drained(end'["client"][c], end'["server"][c]) /\ using' = c => SendsNoKey'
    BY DEF KeyWaits
  <2>1. /\ Waiting(end["client"][c], end["server"][c])
        /\ Drained(end["client"][c], end["server"][c]) /\ using = c => SendsNoKey
    BY DEF ConnInv, KeyWaits
  <2>2. end["server"][c].task = "running" => end["server"][c].held
    BY DEF ConnInv, ServedIsHeld
  <2>3. /\ Waiting(end'["client"][c], end'["server"][c])
        /\ Drained(end'["client"][c], end'["server"][c])
             => Drained(end["client"][c], end["server"][c])
    BY <1>1, <2>1, <2>2, MovesWait
  <2> QED
    BY <2>1, <2>3
<1> QED
  BY <1>3, <1>4, <1>5, <1>6 DEF ConnInv

LEMMA MovesKeep ==
    ASSUME EndsOK, EndsOK', \A d \in Conns : ConnInv(d), \A d \in Conns : Moved(d),
           UNCHANGED state,
           \A d \in Conns : inner' = d => inner = d,
           \A d \in Conns : d \in {inner', using'} => d \in {inner, using},
           \A d \in Conns : (using = d => SendsNoKey) => (using' = d => SendsNoKey')
    PROVE  (\A d \in Conns : ConnInv(d)') /\ Connecting' = Connecting
<1>1. \A d \in Conns : ConnInv(d)' /\ (d \in Connecting' <=> d \in Connecting)
  BY MovedKeeps
<1> QED
  BY <1>1 DEF Connecting

-----------------------------------------------------------------------------
(* ensure_connected.                                                       *)

LEMMA ViewportIsNoKey ==
    ASSUME NEW v \in Viewports
    PROVE  Viewport(v) \in ToServer /\ Viewport(v) \notin Keys
<1>1. Viewport(v) \in ToServer
  BY DEF ToServer
<1>2. ASSUME Viewport(v) \in Keys PROVE FALSE
  <2>1. DOMAIN Viewport(v) = {"virtual_keycode", "pressed"}
    BY <1>2 DEF Keys
  <2>2. DOMAIN Viewport(v) = {"viewport"}
    BY DEF Viewport
  <2> QED
    BY <2>1, <2>2
<1> QED
  BY <1>1, <1>2

LEMMA SameMoves ==
    ASSUME EndsOK, UNCHANGED end
    PROVE  EndsOK' /\ \A d \in Conns : Moved(d)
BY DEF EndsOK, Moved, Moves, Carries, FlowsBothWays, Flow, Left

LEMMA DroppedMoves ==
    ASSUME EndsOK, using \in {None} \cup Conns, end' = ChannelsDropped
    PROVE  EndsOK' /\ \A d \in Conns : Moved(d)
<1>1. CASE using = None
  BY <1>1, SameMoves DEF ChannelsDropped
<1>2. CASE using \in Conns
  <2> DEFINE e == end["client"][using]
             p == end[Peer("client")][using]
             mine == [e EXCEPT !.held = FALSE]
  <2>1. /\ "client" \in Sides /\ Peer("client") \in Sides /\ Peer("client") # "client"
        /\ e \in EndOf("client") /\ p \in EndOf(Peer("client"))
    BY <1>2, EndsOfOne DEF Sides, Peer
  <2>2. mine \in EndOf("client")
    BY <2>1 DEF EndOf
  <2>3. using # None
    BY <1>2 DEF Conns, None
  <2>4. Become("client", using, mine, p)
    BY <1>2, <2>3, <2>1 DEF ChannelsDropped, EndsOK, Become
  <2>5. MovesFor("client", e, p, mine, p)
    BY <2>1 DEF MovesFor, Moves, Carries, FlowsBothWays, Flow, Left, OpenEnd, Running, EndOf
  <2> QED
    BY <1>2, <2>1, <2>2, <2>4, <2>5, OneMoves
<1> QED
  BY <1>1, <1>2

(* Someone is connecting, or nobody is, as before. *)
LEMMA OneConnectionStays ==
    ASSUME OneConnection, Connecting' = Connecting, UNCHANGED <<attempts, inner>>,
           using' # None => using # None
    PROVE  OneConnection'
BY DEF OneConnection

Sendable(messages) ==
    /\ NoKeyFirst(messages) \/ current # None
    /\ messages = <<>> => current' = current

LEMMA EnsureKeeps ==
    ASSUME SessionInv, outbox = <<>>, NEW messages \in Seq(ToServer),
           Sendable(messages), EnsureAndSend(messages), UNCHANGED server
    PROVE  /\ EndsOK' /\ OneConnection' /\ (\A c \in Conns : ConnInv(c)')
           /\ ViewportFirst'
           /\ attempts' \in Nat
           /\ inner' \in {NoInner, EmptyShell} \cup Conns
           /\ using' \in {None} \cup Conns
           /\ outbox' \in Seq(ToServer)
           /\ outbox' # <<>> => using' # None
<1>1. /\ EndsOK /\ attempts \in Nat
      /\ inner \in {NoInner, EmptyShell} \cup Conns
      /\ using \in {None} \cup Conns
      /\ current \in {None} \cup Viewports
      /\ UNCHANGED state
  BY DEF SessionInv, Types, UiOK, server
<1>2. ViewportFirst'
  BY <1>1 DEF SessionInv, ViewportFirst
<1>3. CASE NotConnected /\ UNCHANGED outbox
  <2>1. /\ end' = ChannelsDropped /\ using' = None
        /\ (inner = EmptyShell /\ inner' = NoInner /\ attempts' = attempts + 1)
             \/ (inner = NoInner /\ UNCHANGED <<attempts, inner>>)
    BY <1>3 DEF NotConnected, Reconnect, StillConnecting
  <2>2. EndsOK' /\ \A d \in Conns : Moved(d)
    BY <1>1, <2>1, DroppedMoves
  <2>3. /\ \A c \in Conns : inner' = c => inner = c
        /\ \A c \in Conns : c \in {inner', using'} => c \in {inner, using}
        /\ \A c \in Conns : (using = c => SendsNoKey) => (using' = c => SendsNoKey')
    BY <2>1 DEF Conns, None, NoInner, EmptyShell
  <2>4. (\A c \in Conns : ConnInv(c)') /\ Connecting' = Connecting
    BY <1>1, <2>2, <2>3, MovesKeep DEF SessionInv
  <2>5. OneConnection'
    <3>1. attempts + Cardinality(Connecting) = IF inner = NoInner THEN 1 ELSE 0
      BY DEF SessionInv, OneConnection
    <3>2. CASE inner = EmptyShell /\ inner' = NoInner /\ attempts' = attempts + 1
      <4>1. attempts + Cardinality(Connecting) = 0
        BY <3>1, <3>2 DEF NoInner, EmptyShell
      <4>2. Cardinality(Connecting) \in Int
        BY <4>1, <1>1, ConnectingIsFinite, FS_CardinalityType
      <4>3. attempts' + Cardinality(Connecting') = 1
        BY <1>1, <2>4, <3>2, <4>1, <4>2
      <4> QED
        BY <2>1, <3>2, <4>3 DEF OneConnection
    <3>3. CASE inner = NoInner /\ UNCHANGED <<attempts, inner>>
      BY <2>1, <2>4, <3>1, <3>3 DEF OneConnection
    <3> QED
      BY <2>1, <3>2, <3>3
  <2> QED
    BY <1>1, <1>2, <1>3, <2>1, <2>2, <2>4, <2>5 DEF NoInner, EmptyShell
<1>4. ASSUME NEW post \in {<<>>} \cup {<<Viewport(v)>> : v \in Viewports},
             StillConnected(post) \/ TakeChannels(post), outbox' = post \o messages
      PROVE  /\ EndsOK' /\ OneConnection' /\ (\A c \in Conns : ConnInv(c)')
             /\ attempts' \in Nat
             /\ inner' \in {NoInner, EmptyShell} \cup Conns
             /\ using' \in Conns
             /\ outbox' \in Seq(ToServer)
  <2>1. CASE StillConnected(post)
    <3>1. /\ UNCHANGED <<end, attempts, inner, using>> /\ using \in Conns
          /\ post = <<>>
      BY <1>1, <2>1 DEF StillConnected, Connected
    <3>2. outbox' = messages
      BY <1>4, <3>1, ConcatEmptySeq
    <3>3. EndsOK' /\ \A d \in Conns : Moved(d)
      BY <1>1, <3>1, SameMoves
    <3>4. SendsNoKey => SendsNoKey'
      BY <3>2 DEF SendsNoKey, Sendable
    <3>5. (\A c \in Conns : ConnInv(c)') /\ Connecting' = Connecting
      BY <1>1, <3>1, <3>3, <3>4, MovesKeep DEF SessionInv
    <3>6. OneConnection'
      BY <3>1, <3>5, OneConnectionStays DEF SessionInv
    <3> QED
      BY <1>1, <3>1, <3>2, <3>3, <3>5, <3>6
  <2>2. CASE TakeChannels(post)
    <3>1. /\ inner \in Conns /\ end' = ChannelsDropped /\ using' = inner
          /\ inner' = EmptyShell /\ UNCHANGED attempts
          /\ post = IF current = None THEN <<>> ELSE <<Viewport(current)>>
      BY <2>2 DEF TakeChannels
    <3>2. EndsOK' /\ \A d \in Conns : Moved(d)
      BY <1>1, <3>1, DroppedMoves
    <3>3. outbox' \in Seq(ToServer) /\ SendsNoKey'
      <4>1. CASE current = None
        <5>1. outbox' = messages
          BY <1>4, <3>1, <4>1, ConcatEmptySeq
        <5> QED
          BY <4>1, <5>1 DEF SendsNoKey, Sendable
      <4>2. CASE current # None
        <5>1. Viewport(current) \in ToServer /\ Viewport(current) \notin Keys
          BY <1>1, <4>2, ViewportIsNoKey
        <5>2. outbox' = <<Viewport(current)>> \o messages
          BY <1>4, <3>1, <4>2
        <5>3. outbox' \in Seq(ToServer) /\ outbox' # <<>> /\ Head(outbox') = Viewport(current)
          BY <5>1, <5>2, Prefixed
        <5> QED
          BY <5>1, <5>3 DEF SendsNoKey, NoKeyFirst
      <4> QED
        BY <4>1, <4>2
    <3>4. /\ \A c \in Conns : inner' = c => inner = c
          /\ \A c \in Conns : c \in {inner', using'} => c \in {inner, using}
          /\ \A c \in Conns : (using = c => SendsNoKey) => (using' = c => SendsNoKey')
      BY <3>1, <3>3 DEF Conns, EmptyShell
    <3>5. (\A c \in Conns : ConnInv(c)') /\ Connecting' = Connecting
      BY <1>1, <3>2, <3>4, MovesKeep DEF SessionInv
    <3>6. OneConnection'
      BY <3>1, <3>5 DEF SessionInv, OneConnection, Conns, NoInner, EmptyShell
    <3> QED
      BY <1>1, <3>1, <3>2, <3>3, <3>5, <3>6
  <2> QED
    BY <1>4, <2>1, <2>2
<1> QED
  BY <1>2, <1>3, <1>4 DEF EnsureAndSend, Conns, None

-----------------------------------------------------------------------------
(* The client's steps.                                                     *)

(* Nothing is new but the ends, as they move. *)
LEMMA BridgeKeeps ==
    ASSUME SessionInv, NEW s \in Sides, NEW c \in Conns, BridgeStep(s, c),
           UNCHANGED <<client, server, faults>>
    PROVE  SessionInv'
<1>1. EndsOK' /\ \A d \in Conns : Moved(d)
  BY BridgeStepMoves DEF SessionInv, Types
<1>2. (\A d \in Conns : ConnInv(d)') /\ Connecting' = Connecting
  BY <1>1, MovesKeep DEF SessionInv, Types, client, server, SendsNoKey
<1>3. OneConnection'
  BY <1>2, OneConnectionStays DEF SessionInv, client
<1>4. UiOK' /\ ServerOK' /\ ChannelsInHand' /\ ViewportFirst'
  BY DEF SessionInv, Types, UiOK, ServerOK, ChannelsInHand, ViewportFirst, client, server
<1> QED
  BY <1>1, <1>2, <1>3, <1>4 DEF SessionInv, Types

LEMMA UiKeeps ==
    ASSUME SessionInv, outbox = <<>>, NEW messages \in Seq(ToServer),
           Sendable(messages), EnsureAndSend(messages), UNCHANGED <<server, faults>>,
           current' \in {None} \cup Viewports, tree' = tree,
           shown' \in {shown, Blank}, queued' \in BOOLEAN, keys' \in Nat,
           pc' \in {"idle", IF using' = None THEN "redraw" ELSE "poll",
                            IF using' = None THEN "idle" ELSE "draw"}
    PROVE  SessionInv'
<1>1. /\ EndsOK' /\ OneConnection' /\ (\A c \in Conns : ConnInv(c)')
      /\ ViewportFirst'
      /\ attempts' \in Nat
      /\ inner' \in {NoInner, EmptyShell} \cup Conns
      /\ using' \in {None} \cup Conns
      /\ outbox' \in Seq(ToServer)
      /\ outbox' # <<>> => using' # None
  BY EnsureKeeps
<1>2. Blank \in ToClient
  BY DEF Blank, ToClient
<1>3. UiOK'
  BY <1>1, <1>2 DEF SessionInv, Types, UiOK
<1>4. ServerOK'
  BY DEF SessionInv, Types, ServerOK, server
<1>5. ChannelsInHand'
  BY <1>1 DEF ChannelsInHand
<1> QED
  BY <1>1, <1>3, <1>4, <1>5 DEF SessionInv, Types

LEMMA NoMessages ==
    ASSUME UNCHANGED current
    PROVE  <<>> \in Seq(ToServer) /\ Sendable(<<>>)
BY EmptySeq DEF Sendable, NoKeyFirst

LEMMA WindowResizedKeeps ==
    ASSUME SessionInv, WindowResized
    PROVE  SessionInv'
<1> DEFINE messages == <<Viewport(current + 1)>>
<1>1. /\ outbox = <<>> /\ pc = "idle" /\ current < Len(Size) /\ current' = current + 1
      /\ EnsureAndSend(messages) /\ UNCHANGED <<pc, tree, shown, queued, keys, server, faults>>
  BY DEF WindowResized, UiFree
<1>2. current \in {None} \cup Viewports /\ Len(Size) \in Nat
  BY ViewportAssumption, LenProperties DEF SessionInv, Types, UiOK
<1>3. current + 1 \in Viewports
  BY <1>1, <1>2 DEF Viewports, None
<1>4. Viewport(current + 1) \in ToServer /\ Viewport(current + 1) \notin Keys
  BY <1>3, ViewportIsNoKey
<1>5. messages \in Seq(ToServer) /\ messages # <<>> /\ Head(messages) = Viewport(current + 1)
  BY <1>4, Single
<1> HIDE DEF messages
<1>6. Sendable(messages)
  BY <1>4, <1>5 DEF Sendable, NoKeyFirst
<1> QED
  BY <1>1, <1>3, <1>5, <1>6, UiKeeps DEF SessionInv, Types, UiOK

LEMMA TypedKeyIsKey ==
    ASSUME SessionInv, keys < Len(Typed)
    PROVE  Key(Typed[keys + 1]) \in Keys
<1> DEFINE event == Typed[keys + 1]
           Events == [code : WindowKeyCode \cup {"Unknown"}, pressed : BOOLEAN]
<1>1. keys \in Nat /\ Len(Typed) \in Nat
  BY TypedAssumption, LenProperties DEF SessionInv, Types, UiOK
<1>2. keys + 1 \in 1 .. Len(Typed) /\ Typed \in Seq(Events)
  BY <1>1, TypedAssumption
<1> HIDE DEF Events
<1>3. event \in Events
  BY <1>2, ElementOfSeq
<1> HIDE DEF event
<1>4. convert_virtual_keycodes(event.code) \in VirtualKeycode
  BY <1>3 DEF Events, convert_virtual_keycodes, VirtualKeycode, WindowKeyCode
<1>5. Key(event) \in Keys
  BY <1>3, <1>4 DEF Events, Key, Keys
<1> QED
  BY <1>5 DEF event

LEMMA KeyboardInputKeeps ==
    ASSUME SessionInv, KeyboardInput
    PROVE  SessionInv'
<1> DEFINE event == Typed[keys + 1]
           messages == <<Key(event)>>
<1>1. /\ outbox = <<>> /\ pc = "idle" /\ current # None /\ keys < Len(Typed) /\ keys' = keys + 1
      /\ EnsureAndSend(messages) /\ UNCHANGED <<current, pc, tree, shown, queued, server, faults>>
  BY DEF KeyboardInput, UiFree
<1>2. keys' \in Nat
  BY <1>1 DEF SessionInv, Types, UiOK
<1>3. Key(event) \in ToServer
  BY <1>1, TypedKeyIsKey DEF ToServer
<1> HIDE DEF event
<1>4. messages \in Seq(ToServer) /\ messages # <<>>
  BY <1>3, Single
<1> HIDE DEF messages
<1>5. Sendable(messages)
  BY <1>1, <1>4 DEF Sendable
<1> QED
  BY <1>1, <1>2, <1>4, <1>5, UiKeeps DEF SessionInv, Types, UiOK

LEMMA RedrawRequestedKeeps ==
    ASSUME SessionInv, RedrawRequested
    PROVE  SessionInv'
<1>1. /\ outbox = <<>> /\ pc = "idle" /\ queued' = TRUE
      /\ EnsureAndSend(<<>>) /\ UNCHANGED <<current, pc, tree, shown, keys, server, faults>>
  BY DEF RedrawRequested, UiFree
<1>2. <<>> \in Seq(ToServer) /\ Sendable(<<>>)
  BY <1>1, NoMessages
<1> QED
  BY <1>1, <1>2, UiKeeps DEF SessionInv, Types, UiOK

LEMMA PollEventsKeeps ==
    ASSUME SessionInv, PollEvents
    PROVE  SessionInv'
<1>1. /\ outbox = <<>> /\ pc' = IF using' = None THEN "redraw" ELSE "poll"
      /\ EnsureAndSend(<<>>) /\ UNCHANGED <<current, tree, shown, queued, keys, server, faults>>
  BY DEF PollEvents, UiFree
<1>2. <<>> \in Seq(ToServer) /\ Sendable(<<>>)
  BY <1>1, NoMessages
<1> QED
  BY <1>1, <1>2, UiKeeps DEF SessionInv, Types, UiOK

LEMMA ShouldDrawKeeps ==
    ASSUME SessionInv, ShouldDraw
    PROVE  SessionInv'
<1>1. /\ outbox = <<>> /\ pc' = IF using' = None THEN "idle" ELSE "draw"
      /\ queued' = FALSE /\ shown' \in {shown, Blank}
      /\ EnsureAndSend(<<>>) /\ UNCHANGED <<current, tree, keys, server, faults>>
  BY DEF ShouldDraw, SessionInv, ChannelsInHand
<1>2. <<>> \in Seq(ToServer) /\ Sendable(<<>>)
  BY <1>1, NoMessages
<1> QED
  BY <1>1, <1>2, UiKeeps DEF SessionInv, Types, UiOK

LEMMA NothingQueuedKeeps ==
    ASSUME SessionInv, NothingQueued
    PROVE  SessionInv'
<1>1. pc' = "idle" /\ UNCHANGED <<end, attempts, inner, using, current, outbox, tree, shown, queued, keys, server, faults>>
  BY DEF NothingQueued
<1>2. EndsOK' /\ \A d \in Conns : Moved(d)
  BY <1>1, SameMoves DEF SessionInv, Types
<1>3. (\A d \in Conns : ConnInv(d)') /\ Connecting' = Connecting
  BY <1>1, <1>2, MovesKeep DEF SessionInv, Types, server, SendsNoKey
<1>4. OneConnection'
  BY <1>1, <1>3, OneConnectionStays DEF SessionInv
<1>5. UiOK' /\ ServerOK' /\ ChannelsInHand' /\ ViewportFirst'
  BY <1>1 DEF SessionInv, Types, UiOK, ServerOK, ChannelsInHand, ViewportFirst, server
<1> QED
  BY <1>2, <1>3, <1>4, <1>5 DEF SessionInv, Types

(* peek_and_process_events, in Poll and in DrawFrame. *)
LEMMA PeekMoves ==
    ASSUME EndsOK, using \in Conns, PeekAndProcess
    PROVE  /\ EndsOK' /\ \A d \in Conns : Moved(d)
           /\ end'["client"][using].in = <<>>
           /\ end'["client"][using].wire = end["client"][using].wire
           /\ end'["client"][using].out = end["client"][using].out
           /\ end'["server"][using] = end["server"][using]
<1> DEFINE e == end["client"][using]
           p == end["server"][using]
           mine == [e EXCEPT !.in = <<>>, !.held = e.task # "ended"]
<1>1. "client" \in Sides /\ "server" \in Sides /\ Peer("client") = "server"
  BY DEF Sides, Peer
<1>2. e \in EndOf("client") /\ p \in EndOf("server")
  BY <1>1, EndsOfOne
<1>3. mine \in EndOf("client") /\ mine.in = <<>> /\ mine.wire = e.wire /\ mine.out = e.out
  BY <1>2, EmptySeq DEF EndOf
<1>4. Become("client", using, mine, p)
  BY <1>1, <1>2 DEF PeekAndProcess, EndsOK, Become
<1>5. MovesFor("client", e, p, mine, p)
  BY <1>2 DEF MovesFor, Moves, Carries, FlowsBothWays, Flow, Left, OpenEnd, Running, EndOf
<1> HIDE DEF mine
<1>6. EndsOK' /\ \A d \in Conns : Moved(d)
  BY <1>1, <1>2, <1>3, <1>4, <1>5, OneMoves
<1>7. end'["client"][using] = mine /\ end'["server"][using] = p
  BY <1>1, <1>2, <1>3, <1>4, OneBecomes
<1> QED
  BY <1>3, <1>6, <1>7

LEMMA PeekKeeps ==
    ASSUME SessionInv, PeekAndProcess, outbox = <<>>, using # None,
           pc' \in {"redraw", "idle"}, shown' \in {shown, tree'},
           UNCHANGED <<attempts, inner, current, outbox, keys, server, faults>>
    PROVE  SessionInv'
<1> DEFINE e == end["client"][using]
<1>1. EndsOK /\ using \in Conns /\ e \in EndOf("client")
  BY EndsOfOne DEF SessionInv, Types, UiOK, Sides
<1>2. EndsOK' /\ \A d \in Conns : Moved(d)
  BY <1>1, PeekMoves
<1>3. using' \in {using, None}
  BY DEF PeekAndProcess
<1>4. (\A d \in Conns : ConnInv(d)') /\ Connecting' = Connecting
  BY <1>1, <1>2, <1>3, MovesKeep DEF SessionInv, Types, server, SendsNoKey, Conns, None
<1>5. OneConnection'
  BY <1>3, <1>4, OneConnectionStays DEF SessionInv
<1>6. tree' \in ToClient
  <2>1. e.in # <<>> => e.in[Len(e.in)] \in ToClient
    BY <1>1, ElementOfSeq, EmptySeq, LenProperties DEF EndOf, SentBy, Peer
  <2>2. Blank \in ToClient /\ tree \in ToClient
    BY DEF Blank, ToClient, SessionInv, Types, UiOK
  <2> QED
    BY <2>1, <2>2 DEF PeekAndProcess
<1>7. queued' \in BOOLEAN
  BY Zenon DEF PeekAndProcess, SessionInv, Types, UiOK
<1>8. UiOK' /\ ServerOK' /\ ChannelsInHand' /\ ViewportFirst'
  BY <1>1, <1>3, <1>6, <1>7
     DEF SessionInv, Types, UiOK, ServerOK, ChannelsInHand, ViewportFirst, server
<1> QED
  BY <1>2, <1>4, <1>5, <1>8 DEF SessionInv, Types

LEMMA PollKeeps ==
    ASSUME SessionInv, Poll \/ DrawFrame
    PROVE  SessionInv'
BY PeekKeeps DEF Poll, DrawFrame, UiFree, SessionInv, ChannelsInHand

(* blocking_send. *)
LEMMA UiSendKeeps ==
    ASSUME SessionInv, UiSend
    PROVE  SessionInv'
<1> DEFINE e == end["client"][using]
           p == end[Peer("client")][using]
           mine == [e EXCEPT !.out = Append(@, Head(outbox))]
<1>1. /\ EndsOK /\ using \in Conns /\ outbox \in Seq(ToServer) /\ outbox # <<>>
      /\ outbox' = Tail(outbox)
      /\ UNCHANGED <<attempts, inner, using, current, pc, tree, shown, queued, keys, server, faults>>
      /\ UNCHANGED state
  BY DEF UiSend, SessionInv, Types, UiOK, ChannelsInHand, server
<1>2. Head(outbox) \in ToServer /\ Tail(outbox) \in Seq(ToServer)
  BY <1>1, Taken
<1>3. e.task \notin {"none", "connected"} /\ inner # using
  BY <1>1 DEF SessionInv, ConnInv, NewIsEmpty, Task, OneConnection, EmptyShell, None, Conns
<1>4. \A d \in Conns \ {using} : (using = d => SendsNoKey) => (using' = d => SendsNoKey')
  BY <1>1
<1>5. CASE SenderClosed("client", using) /\ UNCHANGED end
  <2>1. EndsOK' /\ \A d \in Conns : Moved(d)
    BY <1>1, <1>5, SameMoves
  <2>2. \A d \in Conns \ {using} : ConnInv(d)'
    BY <1>1, <1>4, <2>1, MovedKeeps DEF SessionInv
  <2>3. ConnInv(using)'
    <3>1. ConnInv(using) /\ ~OpenEnd(e)
      BY <1>1, <1>5 DEF SessionInv, SenderClosed, OpenEnd
    <3> QED
      BY <1>1, <1>5, <3>1 DEF ConnInv, NewIsEmpty, ServedIsHeld, KeyWaits, Drained,
         Fresh, In, Wire, Out, Task
  <2> QED
    BY <1>1, <1>2, <1>5, <2>1, <2>2, <2>3
       DEF SessionInv, Types, UiOK, ServerOK, ChannelsInHand, OneConnection, Connecting,
           ViewportFirst, server
<1>6. CASE /\ ~SenderClosed("client", using)
           /\ end' = [end EXCEPT !["client"][using].out = Append(@, Head(outbox))]
  <2>1. /\ "client" \in Sides /\ Peer("client") \in Sides /\ Peer("client") # "client"
        /\ e \in EndOf("client") /\ p \in EndOf(Peer("client"))
    BY <1>1, EndsOfOne DEF Sides, Peer
  <2>2. /\ e.out \in Seq(ToServer)
        /\ Append(e.out, Head(outbox)) \in Seq(ToServer)
        /\ Append(e.out, Head(outbox)) # <<>>
        /\ Head(Append(e.out, Head(outbox))) = IF e.out = <<>> THEN Head(outbox) ELSE Head(e.out)
    <3>1. e.out \in Seq(ToServer)
      BY <2>1 DEF EndOf, SentBy
    <3> QED
      BY <1>2, <3>1, Appended
  <2>3. mine \in EndOf("client")
    BY <2>1, <2>2 DEF EndOf, SentBy
  <2>4. Become("client", using, mine, p)
    BY <1>1, <1>6, <2>1 DEF Become, EndsOK
  <2>5. /\ EndsOK'
        /\ end'["client"][using] = mine /\ end'["server"][using] = p
        /\ \A d \in Conns \ {using}, t \in Sides : end'[t][d] = end[t][d]
    BY <1>1, <2>1, <2>3, <2>4, OneBecomes DEF Peer
  <2>6. \A d \in Conns \ {using} : Moved(d)
    BY <2>5 DEF Moved, Moves, Carries, FlowsBothWays, Flow, Left, Sides
  <2>7. \A d \in Conns \ {using} : ConnInv(d)' /\ (d \in Connecting' <=> d \in Connecting)
    BY <1>1, <1>4, <2>5, <2>6, MovedKeeps DEF SessionInv
  <2>8. /\ mine.task = e.task /\ mine.wire = e.wire /\ mine.sock = e.sock
        /\ mine.out = Append(e.out, Head(outbox))
    BY <2>1 DEF EndOf
  <2>9. ConnInv(using)'
    <3>1. ConnInv(using)
      BY <1>1 DEF SessionInv
    <3>2. NewIsEmpty(using)'
      BY <1>1, <1>3, <2>5, <2>8 DEF NewIsEmpty, Fresh, Task
    <3>3. ServedIsHeld(using)'
      BY <1>1, <2>5, <3>1 DEF ConnInv, ServedIsHeld, In, Peer
    <3>4. KeyWaits(using)'
      <4> SUFFICES ASSUME state[using].status \in {"none", "serving"}, state[using].viewport = None
                   PROVE  Waiting(mine, p) /\ ~Drained(mine, p)
        BY <1>1, <2>5 DEF KeyWaits
      <4>1. Waiting(e, p) /\ (Drained(e, p) => SendsNoKey)
        BY <3>1 DEF ConnInv, KeyWaits, Peer
      <4>2. Waiting(mine, p)
        BY <1>1, <2>2, <2>8, <4>1 DEF Waiting, Drained, OpenEnd, NoKeyFirst, SendsNoKey
      <4> QED
        BY <2>2, <2>8, <4>2 DEF Drained
    <3> QED
      BY <3>2, <3>3, <3>4 DEF ConnInv
  <2>10. Connecting' = Connecting
    BY <1>3, <2>5, <2>7, <2>8 DEF Connecting
  <2>11. OneConnection'
    BY <1>1, <2>10, OneConnectionStays DEF SessionInv
  <2> QED
    BY <1>1, <1>2, <2>5, <2>7, <2>9, <2>11
       DEF SessionInv, Types, UiOK, ServerOK, ChannelsInHand, ViewportFirst, server
<1> QED
  BY <1>5, <1>6 DEF UiSend

LEMMA ConnectSucceedsKeeps ==
    ASSUME SessionInv, ConnectSucceeds
    PROVE  SessionInv'
<1>1. PICK c \in Unused :
        end' = [s \in Sides |->
                  [end[s] EXCEPT ![c] = [NewEnd("connected") EXCEPT !.held = s = "client"]]]
  BY DEF ConnectSucceeds
<1>2. /\ attempts > 0 /\ attempts' = attempts - 1 /\ attempts \in Nat
      /\ UNCHANGED <<inner, using, current, outbox, pc, tree, shown, queued, keys, server, faults>>
      /\ UNCHANGED state
      /\ EndsOK /\ c \in Conns /\ Task(c) = "none"
  BY DEF ConnectSucceeds, SessionInv, Types, UiOK, Unused, Task, server
<1> DEFINE new(s) == [NewEnd("connected") EXCEPT !.held = s = "client"]
<1>3. /\ "client" \in Sides /\ "server" \in Sides /\ Peer("client") = "server"
  BY DEF Sides, Peer
<1>4. \A s \in Sides : /\ new(s).task = "connected" /\ new(s).in = <<>>
                       /\ new(s).out = <<>> /\ new(s).wire = <<>>
  BY DEF NewEnd, NoEnd
<1>5. \A s \in Sides : new(s) \in EndOf(s)
  BY EmptySeq DEF NewEnd, NoEnd, EndOf
<1>6. Become("client", c, new("client"), new(Peer("client")))
  BY <1>1, <1>2, <1>3 DEF Become
<1> HIDE DEF new
<1>7. /\ EndsOK'
      /\ end'["client"][c] = new("client") /\ end'["server"][c] = new("server")
      /\ \A d \in Conns \ {c}, t \in Sides : end'[t][d] = end[t][d]
  BY <1>2, <1>3, <1>5, <1>6, OneBecomes
<1>8. \A d \in Conns \ {c} : Moved(d)
  BY <1>7 DEF Moved, Moves, Carries, FlowsBothWays, Flow, Left, Sides
<1>9. (SendsNoKey <=> SendsNoKey')
  BY <1>2 DEF SendsNoKey
<1>10. \A d \in Conns \ {c} : ConnInv(d)' /\ (d \in Connecting' <=> d \in Connecting)
  BY <1>2, <1>7, <1>8, <1>9, MovedKeeps DEF SessionInv
<1>11. c \notin {inner, using}
  BY <1>2 DEF SessionInv, ConnInv, NewIsEmpty
<1>12. ConnInv(c)'
  <2>1. NewIsEmpty(c)'
    BY <1>2, <1>3, <1>4, <1>7, <1>11 DEF NewIsEmpty, In, Wire, Out, Task
  <2>2. ServedIsHeld(c)'
    BY <1>2, <1>3, <1>4, <1>7 DEF SessionInv, ConnInv, NewIsEmpty, ServedIsHeld, In
  <2>3. KeyWaits(c)'
    BY <1>2, <1>3, <1>4, <1>7, <1>11 DEF KeyWaits, Waiting, NoKeyFirst
  <2> QED
    BY <2>1, <2>2, <2>3 DEF ConnInv
<1>13. OneConnection'
  <2>1. Connecting' = Connecting \cup {c} /\ c \notin Connecting
    BY <1>2, <1>3, <1>4, <1>7, <1>10 DEF Connecting, Task
  <2>2. Cardinality(Connecting') = Cardinality(Connecting) + 1 /\ Cardinality(Connecting) \in Nat
    BY <2>1, ConnectingIsFinite, FS_AddElement, FS_CardinalityType
  <2> QED
    BY <1>2, <2>2 DEF SessionInv, OneConnection
<1> QED
  BY <1>2, <1>7, <1>10, <1>12, <1>13
     DEF SessionInv, Types, UiOK, ServerOK, ChannelsInHand, ViewportFirst, server

LEMMA StoreChannelsKeeps ==
    ASSUME SessionInv, NEW c \in Conns, StoreChannels(c)
    PROVE  SessionInv'
<1> DEFINE e == end["client"][c]
           p == end[Peer("client")][c]
           mine == [e EXCEPT !.task = "running"]
<1>1. /\ e.task = "connected" /\ inner' = c /\ EndsOK
      /\ end' = [end EXCEPT !["client"][c].task = "running"]
      /\ UNCHANGED <<attempts, using, current, outbox, pc, tree, shown, queued, keys, server, faults>>
      /\ UNCHANGED state
  BY DEF StoreChannels, SessionInv, Types, server
<1>2. /\ "client" \in Sides /\ Peer("client") \in Sides /\ Peer("client") # "client"
      /\ e \in EndOf("client") /\ p \in EndOf(Peer("client"))
  BY <1>1, EndsOfOne DEF Sides, Peer
<1>3. mine \in EndOf("client")
  BY <1>2 DEF EndOf
<1>4. Become("client", c, mine, p)
  BY <1>1, <1>2 DEF Become, EndsOK
<1>5. /\ EndsOK'
      /\ end'["client"][c] = mine /\ end'["server"][c] = p
      /\ \A d \in Conns \ {c}, t \in Sides : end'[t][d] = end[t][d]
  BY <1>1, <1>2, <1>3, <1>4, OneBecomes DEF Peer
<1>6. /\ mine.task = "running" /\ mine.sock = e.sock
      /\ mine.wire = e.wire /\ mine.out = e.out
  BY <1>2 DEF EndOf
<1>7. (SendsNoKey <=> SendsNoKey')
  BY <1>1 DEF SendsNoKey
<1>8. \A d \in Conns \ {c} : Moved(d)
  BY <1>5 DEF Moved, Moves, Carries, FlowsBothWays, Flow, Left, Sides
\* Another connection that was in inner would be one too many.
<1>9. c \in Connecting /\ Cardinality(Connecting) \in Nat \ {0}
  <2>1. c \in Connecting
    BY <1>1 DEF Connecting
  <2> QED
    BY <2>1, ConnectingIsFinite, FS_EmptySet, FS_CardinalityType
<1>10. inner = NoInner /\ using = None /\ attempts = 0 /\ Cardinality(Connecting) = 1
  BY <1>9 DEF SessionInv, Types, UiOK, OneConnection, NoInner, EmptyShell
<1>11. \A d \in Conns \ {c} : ConnInv(d)' /\ (d \in Connecting' <=> d \in Connecting)
  BY <1>1, <1>5, <1>7, <1>8, MovedKeeps DEF SessionInv
<1>12. ConnInv(c)'
  <2>1. ConnInv(c) /\ Fresh(c)
    BY <1>1 DEF SessionInv, Fresh, Task
  <2>2. NewIsEmpty(c)'
    BY <1>1, <1>5, <1>6, <2>1 DEF ConnInv, NewIsEmpty, In, Wire, Out, Task, Peer
  <2>3. ServedIsHeld(c)'
    BY <1>1, <1>5, <2>1 DEF ConnInv, ServedIsHeld, In, Peer
  <2>4. KeyWaits(c)'
    BY <1>1, <1>5, <1>6, <1>10, <2>1 DEF ConnInv, KeyWaits, Waiting, NewIsEmpty, NoKeyFirst,
       In, Wire, Out, Peer, None, Conns
  <2> QED
    BY <2>2, <2>3, <2>4 DEF ConnInv
<1>13. OneConnection'
  <2>1. Connecting' = Connecting \ {c}
    BY <1>5, <1>6, <1>11 DEF Connecting
  <2>2. Cardinality(Connecting') = 0
    BY <1>9, <1>10, <2>1, ConnectingIsFinite, FS_RemoveElement
  <2> QED
    BY <1>1, <1>10, <2>2 DEF OneConnection, NoInner, Conns
<1> QED
  BY <1>1, <1>5, <1>11, <1>12, <1>13
     DEF SessionInv, Types, UiOK, ServerOK, ChannelsInHand, ViewportFirst, server

-----------------------------------------------------------------------------
(* The end of a process, seen from side s.                                 *)

Ending(s, c) ==
    IF end[s][c].task \notin {"none", "ended"}
    THEN AfterClose(s, end[s][c], end[Peer(s)][c])
    ELSE [t \in Sides |-> end[t][c]]

LEMMA ProcessEndsIs ==
    ASSUME EndsOK, NEW s \in Sides, end' = ProcessEnds(s)
    PROVE  /\ EndsOK'
           /\ \A c \in Conns :
                /\ end'[s][c] = [Ending(s, c)[s] EXCEPT !.held = FALSE, !.in = <<>>]
                /\ end'[Peer(s)][c] = Ending(s, c)[Peer(s)]
<1> DEFINE live == {c \in Conns : end[s][c].task \notin {"none", "ended"}}
           closed == AllClosed(s, live)
           last(c) == [Ending(s, c)[s] EXCEPT !.held = FALSE, !.in = <<>>]
<1>1. \A t \in Sides, c \in Conns : closed[t][c] = Ending(s, c)[t]
  BY DEF AllClosed, Ending
<1>2. closed = [t \in Sides |-> [c \in Conns |-> closed[t][c]]]
  BY SMTT(40) DEF AllClosed
<1>3. end' = [closed EXCEPT ![s] = [c \in Conns |-> [closed[s][c] EXCEPT !.held = FALSE, !.in = <<>>]]]
  BY DEF ProcessEnds
<1> HIDE DEF closed
<1>4. /\ end' = [t \in Sides |-> end'[t]]
      /\ end'[s] = [c \in Conns |-> last(c)]
      /\ end'[Peer(s)] = [c \in Conns |-> Ending(s, c)[Peer(s)]]
  <2>1. end' = [t \in Sides |-> end'[t]]
    BY <1>2, <1>3
  <2>2. end'[s] = [c \in Conns |-> [closed[s][c] EXCEPT !.held = FALSE, !.in = <<>>]]
    BY <1>2, <1>3
  <2>3. end'[s] = [c \in Conns |-> last(c)]
    BY <1>1, <2>2
  <2>4. end'[Peer(s)] = [c \in Conns |-> closed[Peer(s)][c]]
    BY <1>2, <1>3, Peers, ZenonT(60)
  <2>5. end'[Peer(s)] = [c \in Conns |-> Ending(s, c)[Peer(s)]]
    BY <1>1, <2>4, Peers
  <2> QED
    BY <2>1, <2>3, <2>5
<1>5. ASSUME NEW c \in Conns
      PROVE  Ending(s, c)[s] \in EndOf(s) /\ Ending(s, c)[Peer(s)] \in EndOf(Peer(s))
  BY EndsOfOne, AfterCloseIs, Peers DEF Ending
<1>6. ASSUME NEW c \in Conns PROVE last(c) \in EndOf(s)
  BY <1>5, EmptySeq, ZenonT(60) DEF EndOf
<1> HIDE DEF last
<1>7. end'[s] \in [Conns -> EndOf(s)] /\ end'[Peer(s)] \in [Conns -> EndOf(Peer(s))]
  BY <1>4, <1>5, <1>6
<1>8. EndsOK'
  BY <1>4, <1>7, Peers DEF EndsOK
<1> QED
  BY <1>4, <1>8 DEF last


\* The process of side s has ended: mine is what is left of its end, and theirs of
\* the other one.
EndedFrom(mine, theirs, mine2, theirs2) ==
    /\ mine2.task \in {"none", "ended"} /\ ~mine2.held /\ mine2.in = <<>>
    /\ mine2.wire \in {mine.wire, <<>>} /\ mine2.out \in {mine.out, <<>>}
    /\ mine2.task = "none" <=> mine.task = "none"
    /\ theirs2.task = theirs.task /\ theirs2.held = theirs.held
    /\ theirs2.out = theirs.out /\ theirs2.in = theirs.in
    /\ \/ theirs2.wire = theirs.wire /\ theirs2.sock = theirs.sock
       \/ theirs2.wire = <<>> /\ theirs2.sock # "open"

LEMMA ProcessEnded ==
    ASSUME EndsOK, NEW s \in Sides, end' = ProcessEnds(s), NEW c \in Conns
    PROVE  EndedFrom(end[s][c], end[Peer(s)][c], end'[s][c], end'[Peer(s)][c])
<1> DEFINE e == end[s][c]
           p == end[Peer(s)][c]
           left == Ending(s, c)
<1>1. e \in EndOf(s) /\ p \in EndOf(Peer(s)) /\ Peer(s) \in Sides
  BY EndsOfOne, Peers
<1>2. /\ end'[s][c] = [left[s] EXCEPT !.held = FALSE, !.in = <<>>]
      /\ end'[Peer(s)][c] = left[Peer(s)]
  BY ProcessEndsIs
<1>3. CASE e.task \notin {"none", "ended"}
  <2>1. left = AfterClose(s, e, p)
    BY <1>3 DEF Ending
  <2>2. /\ left[s] \in EndOf(s) /\ left[Peer(s)] \in EndOf(Peer(s))
        /\ left[s].task = "ended" /\ left[s].out = <<>>
        /\ left[s].wire \in {e.wire, <<>>}
        /\ left[Peer(s)].task = p.task /\ left[Peer(s)].out = p.out /\ left[Peer(s)].in = p.in
        /\ left[Peer(s)].wire = <<>> /\ left[Peer(s)].held = p.held
        /\ left[Peer(s)].sock # "open"
    BY <1>1, <2>1, AfterCloseIs
  <2> HIDE DEF left
  <2> QED
    BY <1>2, <1>3, <2>2 DEF EndedFrom, EndOf
<1>4. CASE e.task \in {"none", "ended"}
  <2>1. left[s] = e /\ left[Peer(s)] = p
    BY <1>1, <1>4 DEF Ending
  <2> HIDE DEF left
  <2> QED
    BY <1>1, <1>2, <1>4, <2>1 DEF EndedFrom, EndOf
<1> QED
  BY <1>3, <1>4

LEMMA ClientExitsKeeps ==
    ASSUME SessionInv, ClientExits
    PROVE  SessionInv'
<1>1. /\ end' = ProcessEnds("client")
      /\ attempts' = 0 /\ inner' = EmptyShell /\ using' = None
      /\ outbox' = <<>> /\ pc' = "exited" /\ tree' = Blank /\ shown' = Blank
      /\ UNCHANGED <<current, queued, keys, server>> /\ UNCHANGED state
      /\ EndsOK /\ "client" \in Sides /\ Peer("client") = "server"
  BY DEF ClientExits, SessionInv, Types, Sides, Peer, server
<1>2. EndsOK'
  BY <1>1, ProcessEndsIs
<1>3. ASSUME NEW c \in Conns
      PROVE  ConnInv(c)' /\ c \notin Connecting'
  <2>1. EndedFrom(end["client"][c], end["server"][c], end'["client"][c], end'["server"][c])
    BY <1>1, ProcessEnded
  <2>2. ConnInv(c)
    BY DEF SessionInv
  <2>3. NewIsEmpty(c)'
    BY <1>1, <2>1, <2>2
       DEF EndedFrom, ConnInv, NewIsEmpty, Fresh, In, Wire, Out, Task, EmptyShell, None, Conns
  <2>4. ServedIsHeld(c)'
    BY <1>1, <2>1, <2>2 DEF EndedFrom, ConnInv, ServedIsHeld, In
  <2>5. KeyWaits(c)'
    BY <1>1, <2>1, <2>2
       DEF EndedFrom, ConnInv, KeyWaits, Waiting, NoKeyFirst, OpenEnd, None, Conns
  <2>6. c \notin Connecting'
    BY <2>1 DEF EndedFrom, Connecting
  <2> QED
    BY <2>3, <2>4, <2>5, <2>6 DEF ConnInv
<1>4. Connecting' = {}
  BY <1>3 DEF Connecting
<1>5. OneConnection'
  BY <1>1, <1>4, FS_EmptySet DEF OneConnection, EmptyShell, NoInner
<1>6. faults' \in Nat
  BY DEF ClientExits, SessionInv, Types, ServerOK
<1>7. UiOK' /\ ServerOK' /\ ChannelsInHand' /\ ViewportFirst'
  BY <1>1, <1>6, EmptySeq
     DEF SessionInv, Types, UiOK, ServerOK, ChannelsInHand, ViewportFirst, server, Blank, ToClient
<1> QED
  BY <1>2, <1>3, <1>5, <1>7 DEF SessionInv, Types

-----------------------------------------------------------------------------
(* The server's steps.                                                     *)

LEMMA ServerKeeps ==
    ASSUME SessionInv, EndsOK', Connecting' = Connecting, UNCHANGED client,
           \A c \in Conns : ConnInv(c)',
           ServerOK', ViewportFirst'
    PROVE  SessionInv'
<1>1. OneConnection'
  BY OneConnectionStays DEF SessionInv, client
<1>2. UiOK' /\ ChannelsInHand'
  BY DEF SessionInv, Types, UiOK, ChannelsInHand, client
<1> QED
  BY <1>1, <1>2 DEF SessionInv, Types

LEMMA ListenKeeps ==
    ASSUME SessionInv, Listen \/ ServerStarts
    PROVE  SessionInv'
<1>1. UNCHANGED <<end, client, state, faults>> /\ up' \in BOOLEAN /\ listening' \in BOOLEAN
  BY DEF Listen, ServerStarts, SessionInv, Types, ServerOK
<1>2. EndsOK' /\ \A d \in Conns : Moved(d)
  BY <1>1, SameMoves DEF SessionInv, Types
<1>3. (\A d \in Conns : ConnInv(d)') /\ Connecting' = Connecting
  BY <1>1, <1>2, MovesKeep DEF SessionInv, Types, client, SendsNoKey
<1>4. ServerOK' /\ ViewportFirst'
  BY <1>1 DEF SessionInv, Types, ServerOK, ViewportFirst
<1> QED
  BY <1>1, <1>2, <1>3, <1>4, ServerKeeps

\* Accept keeps the messages on connection c, and moves nothing for the others
\* but to close those in the backlog.
LEMMA AcceptMoves ==
    ASSUME EndsOK, NEW c \in Conns, Accept(c)
    PROVE  /\ EndsOK' /\ \A d \in Conns \ {c} : Moved(d)
           /\ end'["client"][c] = end["client"][c]
           /\ end'["server"][c].task = "running" /\ end'["server"][c].held
           /\ end'["server"][c].in = end["server"][c].in
           /\ end'["server"][c].wire = end["server"][c].wire
           /\ end'["server"][c].out = end["server"][c].out
<1> DEFINE closed == AllClosed("server", Backlog \ {c})
           e(d) == end["server"][d]
           p(d) == end["client"][d]
           left(d) == AfterClose("server", e(d), p(d))
           mine == [e(c) EXCEPT !.task = "running", !.held = TRUE]
           mine2(d) == IF d = c THEN mine ELSE IF d \in Backlog THEN left(d)["server"] ELSE e(d)
           theirs2(d) == IF d \in Backlog \ {c} THEN left(d)["client"] ELSE p(d)
<1>1. /\ c \in Backlog
      /\ end' = [closed EXCEPT !["server"][c].task = "running", !["server"][c].held = TRUE]
  BY DEF Accept
<1>2. \A d \in Conns : e(d) \in EndOf("server") /\ p(d) \in EndOf("client")
  BY EndsOfOne DEF Sides
<1>3. ASSUME NEW d \in Conns
      PROVE  /\ left(d)["server"] \in EndOf("server") /\ left(d)["client"] \in EndOf("client")
             /\ left(d)["server"].task = "ended" /\ left(d)["server"].in = e(d).in
             /\ left(d)["client"].task = p(d).task /\ left(d)["client"].out = p(d).out
             /\ left(d)["client"].wire = <<>> /\ left(d)["client"].sock # "open"
             /\ left(d)["client"].in = p(d).in /\ left(d)["server"].out = <<>>
             /\ left(d)["server"].wire \in {e(d).wire, <<>>}
  <2>1. "server" \in Sides /\ Peer("server") = "client"
    BY DEF Sides, Peer
  <2> QED
    BY <1>2, <2>1, AfterCloseIs
<1>4. mine \in EndOf("server")
  BY <1>2, ZenonT(60) DEF EndOf
<1>5. /\ closed = [t \in Sides |-> [d \in Conns |-> closed[t][d]]]
      /\ \A d \in Conns : closed["server"][d] = IF d \in Backlog \ {c} THEN left(d)["server"] ELSE e(d)
      /\ \A d \in Conns : closed["client"][d] = theirs2(d)
  BY DEF AllClosed, Sides, Peer
<1> HIDE DEF closed, left
<1>6. /\ end' = [t \in Sides |-> end'[t]]
      /\ end'["server"] = [d \in Conns |-> mine2(d)]
      /\ end'["client"] = [d \in Conns |-> theirs2(d)]
  <2>1. end' = [t \in Sides |-> end'[t]]
    BY <1>1, <1>5
  <2>2. end'["client"] = [d \in Conns |-> theirs2(d)]
    BY <1>1, <1>5 DEF Sides
  <2>3. end'["server"] = [closed["server"] EXCEPT ![c] = [@ EXCEPT !.task = "running", !.held = TRUE]]
    BY <1>1, <1>5 DEF Sides
  <2>4. end'["server"] = [d \in Conns |-> mine2(d)]
    BY <1>5, <2>3 DEF Sides
  <2> QED
    BY <2>1, <2>2, <2>4
<1> HIDE DEF mine
<1>7. \A d \in Conns : mine2(d) \in EndOf("server") /\ theirs2(d) \in EndOf("client")
  BY <1>2, <1>3, <1>4
<1>8. EndsOK'
  BY <1>6, <1>7 DEF EndsOK, Sides
<1>9. ASSUME NEW d \in Conns \ {c} PROVE Moved(d)
  <2>1. end'["server"][d] = mine2(d) /\ end'["client"][d] = theirs2(d)
    BY <1>6
  <2>2. CASE d \in Backlog
    BY <1>3, <2>1, <2>2 DEF Backlog, Moved, Moves, Carries, FlowsBothWays, Flow, Left, OpenEnd
  <2>3. CASE d \notin Backlog
    BY <2>1, <2>3 DEF Moved, Moves, Carries, FlowsBothWays, Flow, Left
  <2> QED
    BY <2>2, <2>3
<1>10. /\ end'["server"][c] = mine /\ end'["client"][c] = p(c)
       /\ mine.task = "running" /\ mine.held /\ mine.in = e(c).in
       /\ mine.wire = e(c).wire /\ mine.out = e(c).out
  BY <1>2, <1>6 DEF mine, EndOf
<1> QED
  BY <1>8, <1>9, <1>10

LEMMA AcceptKeeps ==
    ASSUME SessionInv, NEW c \in Conns, Accept(c)
    PROVE  SessionInv'
<1>1. /\ c \in Backlog /\ listening' = FALSE /\ UNCHANGED <<client, up, faults>>
      /\ state' = [state EXCEPT ![c].status = "serving"]
      /\ EndsOK /\ ServerOK /\ ViewportFirst
  BY DEF Accept, SessionInv, Types
<1>2. /\ EndsOK' /\ \A d \in Conns \ {c} : Moved(d)
      /\ end'["client"][c] = end["client"][c]
      /\ end'["server"][c].task = "running" /\ end'["server"][c].held
      /\ end'["server"][c].in = end["server"][c].in
  BY <1>1, AcceptMoves
<1>3. (SendsNoKey <=> SendsNoKey') /\ inner' = inner /\ using' = using
  BY <1>1 DEF SendsNoKey, client
<1>4. \A d \in Conns \ {c} : ConnInv(d)' /\ (d \in Connecting' <=> d \in Connecting)
  BY <1>1, <1>2, <1>3, MovedKeeps DEF SessionInv, ServerOK
<1>5. state'[c].status = "serving" /\ state'[c].viewport = state[c].viewport
  BY <1>1 DEF ServerOK
<1>6. c \in Connecting' <=> c \in Connecting
  BY <1>2 DEF Connecting
<1>7. ConnInv(c)'
  <2>1. ConnInv(c)
    BY DEF SessionInv
  <2>2. NewIsEmpty(c)'
    BY <1>1, <1>2, <1>3, <2>1 DEF Backlog, ConnInv, NewIsEmpty, Fresh, In, Wire, Out, Task
  <2>3. ServedIsHeld(c)'
    BY <1>2, <1>5 DEF ServedIsHeld
  <2>4. state[c].status = "none"
    BY <1>1, <2>1 DEF Backlog, ConnInv, ServedIsHeld
  <2>5. KeyWaits(c)'
    BY <1>2, <1>3, <1>5, <2>1, <2>4 DEF ConnInv, KeyWaits, Waiting, Drained
  <2> QED
    BY <2>2, <2>3, <2>5 DEF ConnInv
<1>8. ServerOK' /\ ViewportFirst'
  BY <1>1, <1>5 DEF ServerOK, ViewportFirst
<1>9. Connecting' = Connecting
  BY <1>4, <1>6 DEF Connecting
<1> QED
  BY <1>1, <1>2, <1>4, <1>7, <1>8, <1>9, ServerKeeps

LEMMA ServerEndBecomes ==
    ASSUME EndsOK, NEW c \in Conns, NEW mine \in EndOf("server"),
           end' = [end EXCEPT !["server"][c] = mine]
    PROVE  /\ EndsOK'
           /\ end'["server"][c] = mine /\ end'["client"][c] = end["client"][c]
           /\ \A d \in Conns \ {c} : Moved(d)
<1> DEFINE p == end["client"][c]
<1>1. /\ {"server", "client"} \subseteq Sides /\ Peer("server") = "client"
      /\ p \in EndOf("client")
  BY EndsOfOne DEF Sides, Peer
<1>2. Become("server", c, mine, p)
  BY <1>1 DEF Become, EndsOK
<1>3. /\ EndsOK'
      /\ end'["server"][c] = mine /\ end'["client"][c] = p
      /\ \A d \in Conns \ {c}, t \in Sides : end'[t][d] = end[t][d]
  BY <1>1, <1>2, OneBecomes
<1>4. \A d \in Conns \ {c} : Moved(d)
  BY <1>3 DEF Moved, Moves, Carries, FlowsBothWays, Flow, Left, Sides
<1> QED
  BY <1>3, <1>4

(* The server takes from its channel on connection c, or drops both: mine  *)
(* is its end then, and st its state.                                      *)
LEMMA OneServes ==
    ASSUME SessionInv, NEW c \in Conns, state[c].status # "none",
           NEW mine \in EndOf("server"),
           end' = [end EXCEPT !["server"][c] = mine],
           mine.task = end["server"][c].task,
           In(c) = <<>> => mine.in = <<>>,
           NEW st \in [status : {"serving", "gone", "panicked"},
                       viewport : {None} \cup Viewports, sending : ToClient],
           state' = [state EXCEPT ![c] = st], UNCHANGED <<client, up, listening, faults>>,
           st.status # "panicked" \/ state[c].status = "panicked",
           st.status = "serving" => /\ state[c].status = "serving"
                                    /\ mine.held = end["server"][c].held
                                    /\ st.viewport = None => /\ state[c].viewport = None
                                                             /\ mine.in = In(c)
    PROVE  SessionInv'
<1> DEFINE e == end["server"][c]
           p == end["client"][c]
<1>1. /\ EndsOK /\ ConnInv(c) /\ ServerOK /\ ViewportFirst
      /\ UNCHANGED <<inner, using, outbox, current>>
  BY DEF SessionInv, Types, client
<1>2. /\ EndsOK'
      /\ end'["server"][c] = mine /\ end'["client"][c] = p
      /\ \A d \in Conns \ {c} : Moved(d)
  BY <1>1, ServerEndBecomes
<1>3. SendsNoKey <=> SendsNoKey'
  BY <1>1 DEF SendsNoKey
<1>4. state'[c] = st /\ \A d \in Conns \ {c} : state'[d] = state[d]
  BY <1>1 DEF ServerOK
<1>5. \A d \in Conns \ {c} : ConnInv(d)' /\ (d \in Connecting' <=> d \in Connecting)
  BY <1>1, <1>2, <1>3, <1>4, MovedKeeps DEF SessionInv
<1>6. Connecting' = Connecting
  BY <1>2, <1>5 DEF Connecting
<1>7. NewIsEmpty(c)'
  BY <1>1, <1>2 DEF ConnInv, NewIsEmpty, Fresh, In, Wire, Out, Task
<1>8. ServedIsHeld(c)'
  BY <1>1, <1>2, <1>4 DEF ConnInv, ServedIsHeld
<1>9. KeyWaits(c)'
  <2>1. CASE st.status = "serving" /\ st.viewport = None
    BY <1>1, <1>2, <1>3, <1>4, <2>1 DEF ConnInv, KeyWaits, Waiting, Drained, In
  <2>2. CASE ~(st.status = "serving" /\ st.viewport = None)
    BY <1>4, <2>2 DEF KeyWaits
  <2> QED
    BY <2>1, <2>2
<1>10. ServerOK' /\ ViewportFirst'
  BY <1>1, <1>4 DEF ServerOK, ViewportFirst
<1> QED
  BY <1>2, <1>5, <1>6, <1>7, <1>8, <1>9, <1>10, ServerKeeps DEF ConnInv

LEMMA LeavingKeeps ==
    ASSUME SessionInv, NEW c \in Conns, state[c].status # "none", Leaving(c, "gone"),
           UNCHANGED <<client, up, listening, faults>>
    PROVE  SessionInv'
<1> DEFINE mine == [end["server"][c] EXCEPT !.held = FALSE, !.in = <<>>]
           st == [state[c] EXCEPT !.status = "gone", !.sending = Blank]
<1>1. /\ end["server"][c] \in EndOf("server") /\ EndsOK
      /\ state \in [Conns -> [status : {"none", "serving", "gone", "panicked"},
                              viewport : {None} \cup Viewports, sending : ToClient]]
      /\ ViewportFirst
  BY EndsOfOne DEF SessionInv, Types, ServerOK, Sides
<1>2. mine \in EndOf("server") /\ mine.task = end["server"][c].task /\ mine.in = <<>>
  BY <1>1, EmptySeq DEF EndOf
<1>3. /\ st \in [status : {"serving", "gone", "panicked"},
                 viewport : {None} \cup Viewports, sending : ToClient]
      /\ st.status = "gone"
  BY <1>1 DEF Blank, ToClient
<1>4. /\ end' = [end EXCEPT !["server"][c] = mine]
      /\ state' = [state EXCEPT ![c] = st]
  BY <1>1 DEF Leaving, EndsOK, Sides
<1> HIDE DEF mine, st
<1> QED
  BY <1>2, <1>3, <1>4, OneServes

LEMMA HandleMessageKeeps ==
    ASSUME SessionInv, NEW c \in Conns, HandleMessage(c)
    PROVE  SessionInv'
<1> DEFINE e == end["server"][c]
           m == Head(e.in)
           mine == [e EXCEPT !.in = Tail(@)]
           v == IF m \in Keys THEN state[c].viewport ELSE m.viewport
           Serving == [status : {"serving", "gone", "panicked"},
                       viewport : {None} \cup Viewports, sending : ToClient]
<1>1. /\ state[c].status = "serving" /\ state[c].sending = Blank /\ e.in # <<>>
      /\ UNCHANGED <<client, up, listening, faults>>
  BY DEF HandleMessage
<1>2. /\ e \in EndOf("server") /\ EndsOK /\ ConnInv(c)
      /\ state \in [Conns -> [status : {"none", "serving", "gone", "panicked"},
                              viewport : {None} \cup Viewports, sending : ToClient]]
  BY EndsOfOne DEF SessionInv, Types, ServerOK, Sides
<1>3. m \in ToServer /\ Tail(e.in) \in Seq(ToServer)
  <2>1. e.in \in Seq(ToServer)
    BY <1>2 DEF EndOf, SentBy, Peer
  <2> QED
    BY <1>1, <2>1, Taken
<1>4. /\ mine \in EndOf("server") /\ mine.task = e.task /\ mine.held = e.held
  BY <1>2, <1>3 DEF EndOf, SentBy, Peer
\* The first message is a viewport, or there has been one.
<1>5. state[c].viewport # None \/ m \notin Keys
  BY <1>1, <1>2 DEF ConnInv, KeyWaits, Waiting, NoKeyFirst
<1>6. m \notin Keys => m.viewport \in Viewports
  BY <1>3 DEF ToServer, Viewport
<1>7. v \in Viewports /\ v # None
  BY <1>2, <1>5, <1>6 DEF Viewports, None
<1>8. CASE m \in Keys /\ end' = [end EXCEPT !["server"][c].in = Tail(@)] /\ UNCHANGED state
  <2>1. end' = [end EXCEPT !["server"][c] = mine]
    BY <1>2, <1>8 DEF EndsOK, Sides
  <2>2. state' = [state EXCEPT ![c] = state[c]] /\ state[c] \in Serving
    BY <1>1, <1>2, <1>8
  <2>3. state[c].viewport # None
    BY <1>5, <1>8
  <2> HIDE DEF mine
  <2> QED
    BY <1>1, <1>4, <2>1, <2>2, <2>3, OneServes DEF In
<1>9. CASE /\ state' = [state EXCEPT ![c] = Synced(@, v)]
           /\ end' = [end EXCEPT !["server"][c].in = Tail(@)]
  <2>1. end' = [end EXCEPT !["server"][c] = mine]
    BY <1>2, <1>9 DEF EndsOK, Sides
  <2>2. state' = [state EXCEPT ![c] = Synced(state[c], v)]
    BY <1>2, <1>9
  <2>3. Frame(v) \in ToClient
    BY <1>7 DEF Frame, ToClient
  <2> HIDE DEF mine, v
  <2>4. /\ Synced(state[c], v) \in Serving
        /\ Synced(state[c], v).status = "serving" /\ Synced(state[c], v).viewport = v
    BY <1>1, <1>2, <1>7, <2>3 DEF Synced
  <2> QED
    BY <1>1, <1>4, <1>7, <2>1, <2>2, <2>4, OneServes DEF In
<1> QED
  BY <1>7, <1>8, <1>9 DEF HandleMessage

LEMMA TransferFrameKeeps ==
    ASSUME SessionInv, NEW c \in Conns, TransferFrame(c)
    PROVE  SessionInv'
<1> DEFINE e == end["server"][c]
           mine == [e EXCEPT !.out = Append(@, state[c].sending)]
           st == [state[c] EXCEPT !.sending = Blank]
<1>1. /\ state[c].sending # Blank /\ UNCHANGED <<client, up, listening, faults>>
  BY DEF TransferFrame
<1>2. /\ e \in EndOf("server") /\ EndsOK /\ ConnInv(c) /\ ViewportFirst
      /\ state \in [Conns -> [status : {"none", "serving", "gone", "panicked"},
                              viewport : {None} \cup Viewports, sending : ToClient]]
  BY EndsOfOne DEF SessionInv, Types, ServerOK, Sides
<1>3. state[c].status # "none"
  BY <1>1, <1>2 DEF ConnInv, ServedIsHeld, NoState
<1>4. CASE Leaving(c, "gone")
  BY <1>1, <1>3, <1>4, LeavingKeeps
<1>5. CASE /\ end' = [end EXCEPT !["server"][c].out = Append(@, state[c].sending)]
           /\ state' = [state EXCEPT ![c].sending = Blank]
  <2>1. Append(e.out, state[c].sending) \in Seq(ToClient)
    <3>1. e.out \in Seq(ToClient) /\ state[c].sending \in ToClient
      BY <1>2 DEF EndOf, SentBy
    <3> QED
      BY <3>1, Appended
  <2>2. /\ mine \in EndOf("server") /\ mine.task = e.task /\ mine.held = e.held /\ mine.in = e.in
    BY <1>2, <2>1 DEF EndOf, SentBy
  <2>3. /\ st \in [status : {"serving", "gone", "panicked"},
                   viewport : {None} \cup Viewports, sending : ToClient]
        /\ st.status = state[c].status /\ st.viewport = state[c].viewport
    BY <1>2, <1>3 DEF Blank, ToClient
  <2>4. /\ end' = [end EXCEPT !["server"][c] = mine]
        /\ state' = [state EXCEPT ![c] = st]
    BY <1>2, <1>5 DEF EndsOK, Sides
  <2>5. st.status # "panicked"
    BY <1>2, <2>3 DEF ViewportFirst
  <2> HIDE DEF mine, st
  <2> QED
    BY <1>1, <1>3, <2>2, <2>3, <2>4, <2>5, OneServes DEF In
<1> QED
  BY <1>4, <1>5 DEF TransferFrame

LEMMA LeaveLoopKeeps ==
    ASSUME SessionInv, NEW c \in Conns, LeaveLoop(c)
    PROVE  SessionInv'
BY LeavingKeeps DEF LeaveLoop

LEMMA ServerStopsKeeps ==
    ASSUME SessionInv, ServerStops
    PROVE  SessionInv'
<1>1. /\ end' = ProcessEnds("server") /\ UNCHANGED client
      /\ up' = FALSE /\ listening' = FALSE /\ faults' = faults + 1
      /\ state' = [c \in Conns |-> IF state[c] = NoState THEN NoState
                                   ELSE [NoState EXCEPT !.status = "gone"]]
      /\ UNCHANGED <<inner, using, outbox, current>>
      /\ EndsOK /\ ServerOK /\ "server" \in Sides /\ Peer("server") = "client"
  BY DEF ServerStops, SessionInv, Types, Sides, Peer, client
<1>2. EndsOK'
  BY <1>1, ProcessEndsIs
<1>3. ASSUME NEW c \in Conns
      PROVE  ConnInv(c)' /\ (c \in Connecting' <=> c \in Connecting)
  <2>1. EndedFrom(end["server"][c], end["client"][c], end'["server"][c], end'["client"][c])
    BY <1>1, ProcessEnded
  <2>2. ConnInv(c)
    BY DEF SessionInv
  <2>3. CASE state[c] = NoState
    <3>1. state[c].status = "none" /\ state'[c] = state[c]
      BY <1>1, <2>3 DEF NoState
    <3>2. In(c) = <<>> /\ end["server"][c].task # "running"
      BY <2>2, <3>1 DEF ConnInv, ServedIsHeld
    <3>3. Moved(c)
      BY <2>1, <3>2 DEF EndedFrom, Moved, Moves, Carries, FlowsBothWays, Flow, Left, OpenEnd, In
    <3>4. SendsNoKey <=> SendsNoKey'
      BY <1>1 DEF SendsNoKey
    <3> QED
      BY <1>1, <1>2, <2>2, <3>1, <3>3, <3>4, MovedKeeps
  <2>4. CASE state[c] # NoState
    <3>1. state'[c].status = "gone" /\ state[c].status # "none"
      BY <1>1, <2>2, <2>4 DEF NoState, ConnInv, ServedIsHeld
    <3>2. NewIsEmpty(c)'
      BY <1>1, <2>1, <2>2 DEF EndedFrom, ConnInv, NewIsEmpty, Fresh, In, Wire, Out, Task
    <3>3. ServedIsHeld(c)'
      BY <2>1, <2>2, <3>1 DEF EndedFrom, ConnInv, ServedIsHeld
    <3>4. KeyWaits(c)'
      BY <3>1 DEF KeyWaits
    <3>5. c \in Connecting' <=> c \in Connecting
      BY <2>1 DEF EndedFrom, Connecting
    <3> QED
      BY <3>2, <3>3, <3>4, <3>5 DEF ConnInv
  <2> QED
    BY <2>3, <2>4
<1>4. Connecting' = Connecting
  BY <1>3 DEF Connecting
<1>5. ServerOK' /\ ViewportFirst'
  <2> DEFINE gone == [NoState EXCEPT !.status = "gone"]
  <2>1. ASSUME NEW st \in {NoState, gone}
        PROVE  /\ st \in [status : {"none", "serving", "gone", "panicked"},
                          viewport : {None} \cup Viewports, sending : ToClient]
               /\ st.status # "panicked"
    BY DEF NoState, Blank, ToClient
  <2>2. state' = [c \in Conns |-> IF state[c] = NoState THEN NoState ELSE gone]
    BY <1>1
  <2> HIDE DEF gone
  <2>3. faults' \in Nat
    BY <1>1 DEF ServerOK
  <2> QED
    BY <1>1, <2>1, <2>2, <2>3 DEF ServerOK, ViewportFirst
<1> QED
  BY <1>1, <1>2, <1>3, <1>4, <1>5, ServerKeeps

-----------------------------------------------------------------------------
(* The theorems.                                                           *)

LEMMA InitHasInv ==
    ASSUME Init
    PROVE  SessionInv
<1>1. \A s \in Sides : NoEnd \in EndOf(s)
  BY EmptySeq DEF NoEnd, EndOf
<1>2. /\ \A s \in Sides, c \in Conns : end[s][c] = NoEnd
      /\ end = [s \in Sides |-> end[s]]
      /\ \A s \in Sides : end[s] = [c \in Conns |-> NoEnd]
  BY DEF Init, BridgeInit
<1>3. EndsOK
  BY <1>1, <1>2 DEF EndsOK
<1>4. UiOK /\ ServerOK /\ ChannelsInHand /\ ViewportFirst
  BY EmptySeq DEF Init, ClientInit, ServerInit, UiOK, ServerOK, ChannelsInHand, ViewportFirst,
     NoState, Blank, ToClient
<1>5. Connecting = {}
  BY <1>2 DEF Connecting, NoEnd, Sides
<1>6. OneConnection
  BY <1>5, FS_EmptySet DEF Init, ClientInit, OneConnection
<1>7. ASSUME NEW c \in Conns PROVE ConnInv(c)
  <2>1. end["client"][c] = NoEnd /\ end["server"][c] = NoEnd /\ state[c] = NoState
    BY <1>2 DEF Sides, Init, ServerInit
  <2>2. NewIsEmpty(c)
    BY <2>1 DEF NewIsEmpty, In, Wire, Out, Task, NoEnd, Init, ClientInit, NoInner, None, Conns
  <2>3. ServedIsHeld(c)
    BY <2>1 DEF ServedIsHeld, In, NoEnd, NoState
  <2>4. KeyWaits(c)
    BY <2>1 DEF KeyWaits, Waiting, Drained, NoKeyFirst, OpenEnd, NoEnd
  <2> QED
    BY <2>2, <2>3, <2>4 DEF ConnInv
<1> QED
  BY <1>3, <1>4, <1>6, <1>7 DEF SessionInv, Types

LEMMA StutterKeeps ==
    ASSUME SessionInv, UNCHANGED vars
    PROVE  SessionInv'
<1>1. UNCHANGED <<end, client, server, faults>>
  BY DEF vars
<1>2. EndsOK' /\ \A d \in Conns : Moved(d)
  BY <1>1, SameMoves DEF SessionInv, Types
<1>3. (\A d \in Conns : ConnInv(d)') /\ Connecting' = Connecting
  BY <1>1, <1>2, MovesKeep DEF SessionInv, Types, client, server, SendsNoKey
<1>4. ServerOK' /\ ViewportFirst'
  BY <1>1 DEF SessionInv, Types, ServerOK, ViewportFirst, server
<1> QED
  BY <1>1, <1>2, <1>3, <1>4, ServerKeeps

(* The invariant holds in every state: for any number of connections, of   *)
(* sizes, of keys and of processes that end.                               *)
THEOREM SessionInvariant == Spec => []SessionInv
<1>1. Init => SessionInv
  BY InitHasInv
<1>2. SessionInv /\ [Next]_vars => SessionInv'
  <2> SUFFICES ASSUME SessionInv, [Next]_vars PROVE SessionInv'
    OBVIOUS
  <2>1. CASE \E s \in Sides, c \in Conns : BridgeStep(s, c) /\ UNCHANGED <<client, server, faults>>
    BY <2>1, BridgeKeeps
  <2>2. CASE ClientStep
    <3>1. CASE UiStep
      BY <3>1, UiSendKeeps, PollEventsKeeps, PollKeeps, NothingQueuedKeeps, ShouldDrawKeeps
         DEF UiStep
    <3> QED
      BY <2>2, <3>1, ConnectSucceedsKeeps, StoreChannelsKeeps, WindowResizedKeeps,
         KeyboardInputKeeps, RedrawRequestedKeeps, ClientExitsKeeps DEF ClientStep
  <2>3. CASE ServerStep
    BY <2>3, ListenKeeps, AcceptKeeps, HandleMessageKeeps, TransferFrameKeeps,
       LeaveLoopKeeps, ServerStopsKeeps DEF ServerStep, Serve
  <2>4. CASE UNCHANGED vars
    BY <2>4, StutterKeeps
  <2> QED
    BY <2>1, <2>2, <2>3, <2>4 DEF Next
<1> QED
  BY <1>1, <1>2, PTL DEF Spec

(* ensure_connected never has two connections in the making, and none      *)
(* while it has one.                                                       *)
THEOREM ConnectsOnce == Spec => []OneConnection
<1>1. SessionInv => OneConnection
  BY DEF SessionInv
<1> QED
  BY <1>1, SessionInvariant, PTL

(* On every connection the server gets a viewport before any key, so       *)
(* maintain_enclosure always has one to unwrap.                            *)
THEOREM ViewportComesFirst == Spec => []ViewportFirst
<1>1. SessionInv => ViewportFirst
  BY DEF SessionInv
<1> QED
  BY <1>1, SessionInvariant, PTL
-----------------------------------------------------------------------------
(* The order of viewports.  On the connection in use, everything between   *)
(* the tree and the window's current viewport is in the order in which the *)
(* viewports were reported: frames on their way to the client, the frame   *)
(* that is being sent and the server's viewport, and messages on their way *)
(* to the server.  Keys have no place in it.                               *)

Moments == 0 .. Len(Size)

\* The messages are of moments from lo to hi, and in order.
Ordered(messages, lo, hi) ==
    \A i \in 1 .. Len(messages) : messages[i] \notin Keys =>
        /\ lo <= messages[i].viewport /\ messages[i].viewport <= hi
        /\ \A j \in i .. Len(messages) :
              messages[j] \notin Keys => messages[i].viewport <= messages[j].viewport

\* What is on its way from end a to end b, what b has got of it first.
Lane(a, b, lo, hi) ==
    \E m, n \in Moments :
        /\ lo <= m /\ m <= n /\ n <= hi
        /\ Ordered(b.in, lo, m)
        /\ Ordered(a.wire, m, n)
        /\ Ordered(a.out, n, hi)

\* From the viewport t of the tree to the one the window has now: g is the last
\* moment of a frame under way, h that of the server, which has viewport v, and
\* k that of a message under way.
OneAfterTheOther(cl, sv, v, t, messages, now, g, h, k) ==
    /\ t <= g /\ g <= h /\ h <= k /\ k <= now
    /\ Lane(sv, cl, t, g)
    /\ v # None => g <= v /\ v <= h
    /\ Lane(cl, sv, h, k)
    /\ Ordered(messages, k, now)

Around(cl, sv, v, t, messages, now) ==
    \E g, h, k \in Moments : OneAfterTheOther(cl, sv, v, t, messages, now, g, h, k)

InOrder(c) ==
    Around(end["client"][c], end["server"][c], state[c].viewport,
           tree.viewport, outbox, current)

\* On a connection nobody has used there is nothing for the client either.
NothingSent(c) ==
    Fresh(c) => /\ end["client"][c].in = <<>>
                /\ end["server"][c].wire = <<>> /\ end["server"][c].out = <<>>
                /\ state[c].viewport = None /\ state[c].sending = Blank

SendsItsViewport(c) == state[c].sending \in {Blank, Frame(state[c].viewport)}

OrderInv ==
    /\ tree.viewport <= current
    /\ \A c \in Conns : NothingSent(c) /\ SendsItsViewport(c)
    /\ \A c \in Conns : using = c => InOrder(c)

-----------------------------------------------------------------------------
(* Messages in order.                                                      *)

Message == ToServer \cup ToClient

LEMMA FrameIsNoKey ==
    ASSUME NEW m \in ToClient
    PROVE  m \notin Keys
<1>1. ASSUME m \in Keys PROVE FALSE
  <2>1. DOMAIN m = {"virtual_keycode", "pressed"}
    BY <1>1 DEF Keys
  <2>2. DOMAIN m = {"viewport"}
    BY DEF ToClient
  <2> QED
    BY <2>1, <2>2
<1> QED
  BY <1>1

\* What is not a key is of a moment.
LEMMA MomentsAre ==
    /\ Moments \subseteq Nat
    /\ {None} \cup Viewports \subseteq Moments
    /\ \A m \in Message \ Keys : m.viewport \in Moments
<1>1. Len(Size) \in Nat
  BY ViewportAssumption, LenProperties
<1>2. Moments \subseteq Nat /\ {None} \cup Viewports \subseteq Moments
  BY <1>1 DEF Moments, Viewports, None
<1>3. ASSUME NEW m \in Message \ Keys PROVE m.viewport \in Moments
  <2>1. CASE m \in ToClient
    BY <1>2, <2>1 DEF ToClient
  <2>2. CASE m \in ToServer
    <3>1. PICK v \in Viewports : m = Viewport(v)
      BY <2>2 DEF ToServer
    <3> QED
      BY <1>2, <3>1 DEF Viewport
  <2> QED
    BY <2>1, <2>2 DEF Message
<1> QED
  BY <1>2, <1>3

LEMMA NothingIsOrdered ==
    ASSUME NEW lo, NEW hi
    PROVE  Ordered(<<>>, lo, hi)
BY DEF Ordered

LEMMA WiderIsOrdered ==
    ASSUME NEW s \in Seq(Message), NEW lo \in Nat, NEW hi \in Nat, Ordered(s, lo, hi),
           NEW lo2 \in Nat, NEW hi2 \in Nat, lo2 <= lo, hi <= hi2
    PROVE  Ordered(s, lo2, hi2)
<1>1. \A i \in 1 .. Len(s) : s[i] \notin Keys => s[i].viewport \in Nat
  BY MomentsAre, ElementOfSeq
<1> QED
  BY <1>1 DEF Ordered

\* The first of them leaves.
LEMMA TailIsOrdered ==
    ASSUME NEW s \in Seq(Message), s # <<>>, NEW lo \in Moments, NEW hi \in Moments,
           Ordered(s, lo, hi)
    PROVE  /\ Ordered(Tail(s), lo, hi)
           /\ Head(s) \notin Keys =>
                /\ Head(s).viewport \in Moments
                /\ lo <= Head(s).viewport /\ Head(s).viewport <= hi
                /\ Ordered(Tail(s), Head(s).viewport, hi)
<1> DEFINE n == Len(s)
           t == Tail(s)
<1>1. /\ n \in Nat /\ n >= 1 /\ Len(t) = n - 1
      /\ \A i \in 1 .. n - 1 : t[i] = s[i + 1]
      /\ Head(s) = s[1]
  <2>1. /\ Len(s) \in Nat /\ Len(s) # 0
        /\ Len(Tail(s)) = Len(s) - 1
        /\ \A i \in 1 .. Len(Tail(s)) : Tail(s)[i] = s[i + 1]
    BY HeadTailProperties, LenProperties, EmptySeq
  <2>2. Head(s) = s[1]
    BY DEF Head
  <2> QED
    BY <2>1, <2>2
<1>2. /\ \A i \in 1 .. n : s[i] \notin Keys =>
           /\ lo <= s[i].viewport /\ s[i].viewport <= hi
           /\ \A j \in i .. n : s[j] \notin Keys => s[i].viewport <= s[j].viewport
  BY DEF Ordered
<1>3. \A i \in 1 .. n : s[i] \notin Keys => s[i].viewport \in Moments
  BY MomentsAre, ElementOfSeq
<1> HIDE DEF n, t
<1>4. Ordered(t, lo, hi)
  <2>1. ASSUME NEW i \in 1 .. n - 1, t[i] \notin Keys
        PROVE  /\ lo <= t[i].viewport /\ t[i].viewport <= hi
               /\ \A j \in i .. n - 1 : t[j] \notin Keys => t[i].viewport <= t[j].viewport
    <3>1. i + 1 \in 1 .. n /\ s[i + 1] \notin Keys /\ t[i] = s[i + 1]
      BY <1>1, <2>1
    <3>2. \A j \in i .. n - 1 : j + 1 \in i + 1 .. n /\ t[j] = s[j + 1]
      BY <1>1
    <3> QED
      BY <1>2, <3>1, <3>2
  <2> QED
    BY <1>1, <2>1 DEF Ordered
<1>5. ASSUME Head(s) \notin Keys
      PROVE  /\ Head(s).viewport \in Moments
             /\ lo <= Head(s).viewport /\ Head(s).viewport <= hi
             /\ Ordered(t, Head(s).viewport, hi)
  <2>1. 1 \in 1 .. n /\ s[1] \notin Keys
    BY <1>1, <1>5
  <2>2. /\ s[1].viewport \in Moments
        /\ lo <= s[1].viewport /\ s[1].viewport <= hi
        /\ \A j \in 1 .. n : s[j] \notin Keys => s[1].viewport <= s[j].viewport
    BY <1>2, <1>3, <2>1
  <2>3. ASSUME NEW i \in 1 .. n - 1, t[i] \notin Keys
        PROVE  s[1].viewport <= t[i].viewport
    BY <1>1, <2>2, <2>3
  <2>4. Ordered(t, s[1].viewport, hi)
    BY <1>1, <1>4, <2>3 DEF Ordered
  <2> QED
    BY <1>1, <2>2, <2>4
<1> QED
  BY <1>4, <1>5 DEF t

\* One more comes after them.
LEMMA AppendIsOrdered ==
    ASSUME NEW s \in Seq(Message), NEW x \in Message,
           NEW lo \in Moments, NEW m \in Moments, NEW hi \in Moments,
           Ordered(s, lo, m), lo <= m, m <= hi,
           x \notin Keys => m <= x.viewport /\ x.viewport <= hi
    PROVE  Ordered(Append(s, x), lo, hi)
<1> DEFINE n == Len(s)
           t == Append(s, x)
<1>1. /\ n \in Nat /\ Len(t) = n + 1
      /\ \A i \in 1 .. n : t[i] = s[i]
      /\ t[n + 1] = x
  BY AppendProperties, LenProperties
<1>2. /\ \A i \in 1 .. n : s[i] \notin Keys =>
           /\ lo <= s[i].viewport /\ s[i].viewport <= m
           /\ \A j \in i .. n : s[j] \notin Keys => s[i].viewport <= s[j].viewport
  BY DEF Ordered
<1>3. \A i \in 1 .. n : s[i] \notin Keys => s[i].viewport \in Nat
  BY MomentsAre, ElementOfSeq
<1>4. lo \in Nat /\ m \in Nat /\ hi \in Nat /\ (x \notin Keys => x.viewport \in Nat)
  BY MomentsAre
<1> HIDE DEF n, t
<1>5. ASSUME NEW i \in 1 .. n + 1, t[i] \notin Keys
      PROVE  /\ lo <= t[i].viewport /\ t[i].viewport <= hi
             /\ \A j \in i .. n + 1 : t[j] \notin Keys => t[i].viewport <= t[j].viewport
  <2>1. CASE i = n + 1
    BY <1>1, <1>4, <1>5, <2>1
  <2>2. CASE i \in 1 .. n
    <3>1. /\ t[i] = s[i] /\ s[i].viewport \in Nat
          /\ lo <= s[i].viewport /\ s[i].viewport <= m
      BY <1>1, <1>2, <1>3, <1>5, <2>2
    <3>2. ASSUME NEW j \in i .. n + 1, t[j] \notin Keys PROVE t[i].viewport <= t[j].viewport
      <4>1. CASE j = n + 1
        <5>1. t[j] = x /\ x \notin Keys
          BY <1>1, <3>2, <4>1
        <5>2. m <= x.viewport /\ x.viewport \in Nat
          BY <1>4, <5>1
        <5>3. s[i].viewport <= x.viewport
          BY <1>4, <3>1, <5>2, SMTT(30)
        <5> QED
          BY <3>1, <5>1, <5>3
      <4>2. CASE j \in i .. n
        BY <1>1, <1>2, <1>5, <2>2, <3>2, <4>2
      <4> QED
        BY <1>1, <3>2, <4>1, <4>2
    <3> QED
      BY <1>4, <3>1, <3>2
  <2> QED
    BY <1>1, <2>1, <2>2
<1>6. Ordered(t, lo, hi)
  BY <1>1, <1>5 DEF Ordered
<1> QED
  BY <1>6 DEF t

\* One more comes before them.
LEMMA PrefixedIsOrdered ==
    ASSUME NEW s \in Seq(Message), NEW x \in Message, x \notin Keys,
           NEW lo \in Moments, NEW m \in Moments, NEW hi \in Moments,
           lo <= x.viewport, x.viewport <= m, m <= hi, Ordered(s, m, hi)
    PROVE  Ordered(<<x>> \o s, lo, hi)
<1> DEFINE n == Len(s)
           t == <<x>> \o s
           v == x.viewport
<1>1. n \in Nat /\ Len(t) = n + 1 /\ t[1] = x /\ \A i \in 2 .. n + 1 : t[i] = s[i - 1]
  <2>1. <<x>> \in Seq(Message) /\ Len(<<x>>) = 1 /\ <<x>>[1] = x
    BY SeqDef
  <2>2. Len(s) \in Nat
    BY LenProperties
  <2>3. /\ Len(t) = Len(<<x>>) + Len(s)
        /\ \A i \in 1 .. Len(<<x>>) + Len(s) :
              t[i] = IF i <= Len(<<x>>) THEN <<x>>[i] ELSE s[i - Len(<<x>>)]
    BY <2>1, ConcatProperties
  <2> HIDE DEF t
  <2>4. t[1] = x /\ Len(t) = Len(s) + 1
    BY <2>1, <2>2, <2>3
  <2>5. ASSUME NEW i \in 2 .. Len(s) + 1 PROVE t[i] = s[i - 1]
    BY <2>1, <2>2, <2>3
  <2> QED
    BY <2>2, <2>4, <2>5
<1>2. \A i \in 1 .. n : s[i] \notin Keys =>
           /\ m <= s[i].viewport /\ s[i].viewport <= hi
           /\ \A j \in i .. n : s[j] \notin Keys => s[i].viewport <= s[j].viewport
  BY DEF Ordered
<1>3. \A i \in 1 .. n : s[i] \notin Keys => s[i].viewport \in Nat
  BY MomentsAre, ElementOfSeq
<1>4. lo \in Nat /\ m \in Nat /\ hi \in Nat /\ v \in Nat /\ lo <= v /\ v <= m
  BY MomentsAre
<1>5. t[1].viewport = v
  BY <1>1
<1> HIDE DEF n, t, v
<1>6. ASSUME NEW j \in 1 .. n + 1, t[j] \notin Keys
      PROVE  /\ t[j].viewport \in Nat /\ v <= t[j].viewport /\ t[j].viewport <= hi
             /\ j # 1 => m <= t[j].viewport
  <2>1. CASE j = 1
    BY <1>1, <1>4, <1>5, <2>1
  <2>2. CASE j \in 2 .. n + 1
    <3>1. j - 1 \in 1 .. n /\ t[j] = s[j - 1] /\ s[j - 1] \notin Keys
      BY <1>1, <1>6, <2>2
    <3>2. /\ m <= s[j - 1].viewport /\ s[j - 1].viewport <= hi
          /\ s[j - 1].viewport \in Nat
      BY <1>2, <1>3, <3>1
    <3>3. /\ t[j].viewport \in Nat
          /\ m <= t[j].viewport /\ t[j].viewport <= hi
      BY <3>1, <3>2
    <3>4. v <= t[j].viewport
      BY <1>4, <3>3
    <3> QED
      BY <3>3, <3>4
  <2> QED
    BY <1>1, <2>1, <2>2
<1>7. ASSUME NEW i \in 1 .. n + 1, t[i] \notin Keys, NEW j \in i .. n + 1, t[j] \notin Keys
      PROVE  t[i].viewport <= t[j].viewport
  <2>1. CASE i = 1
    <3>1. j \in 1 .. n + 1
      BY <1>1, <1>7
    <3> QED
      BY <1>5, <1>6, <1>7, <2>1, <3>1
  <2>2. CASE i \in 2 .. n + 1
    <3>1. /\ i - 1 \in 1 .. n /\ j - 1 \in i - 1 .. n
          /\ t[i] = s[i - 1] /\ t[j] = s[j - 1]
      BY <1>1, <1>7, <2>2
    <3>2. s[i - 1].viewport <= s[j - 1].viewport
      BY <1>2, <1>7, <3>1
    <3> QED
      BY <3>1, <3>2
  <2> QED
    BY <1>1, <2>1, <2>2
<1>8. ASSUME NEW i \in 1 .. n + 1, t[i] \notin Keys
      PROVE  lo <= t[i].viewport /\ t[i].viewport <= hi
  <2>1. t[i].viewport \in Nat /\ v <= t[i].viewport /\ t[i].viewport <= hi
    BY <1>6, <1>8
  <2> QED
    BY <1>4, <2>1
<1>9. Ordered(t, lo, hi)
  BY <1>1, <1>7, <1>8 DEF Ordered
<1> QED
  BY <1>9 DEF t

\* One passes from the second sequence to the first.
LEMMA PassesInOrder ==
    ASSUME NEW s \in Seq(Message), NEW t \in Seq(Message), t # <<>>,
           NEW lo \in Moments, NEW m \in Moments, NEW hi \in Moments,
           lo <= m, m <= hi, Ordered(s, lo, m), Ordered(t, m, hi)
    PROVE  \E n \in Moments :
              /\ m <= n /\ n <= hi
              /\ Ordered(Append(s, Head(t)), lo, n)
              /\ Ordered(Tail(t), n, hi)
<1>1. Head(t) \in Message
  BY Taken
<1>2. CASE Head(t) \in Keys
  <2>1. Ordered(Tail(t), m, hi)
    BY TailIsOrdered
  <2>2. m <= m
    BY MomentsAre
  <2>3. Ordered(Append(s, Head(t)), lo, m)
    BY <1>1, <1>2, <2>2, AppendIsOrdered
  <2> QED
    BY <2>1, <2>2, <2>3
<1>3. CASE Head(t) \notin Keys
  <2> DEFINE n == Head(t).viewport
  <2>1. n \in Moments /\ m <= n /\ n <= hi /\ Ordered(Tail(t), n, hi)
    BY <1>3, TailIsOrdered
  <2> HIDE DEF n
  <2>2. n <= n
    BY <2>1, MomentsAre
  <2>3. Ordered(Append(s, Head(t)), lo, n)
    BY <1>1, <2>1, <2>2, AppendIsOrdered DEF n
  <2> QED
    BY <2>1, <2>3
<1> QED
  BY <1>2, <1>3

LEMMA LeftInOrder ==
    ASSUME NEW s \in Seq(Message), NEW t, Left(s, t),
           NEW lo \in Moments, NEW hi \in Moments, Ordered(s, lo, hi)
    PROVE  Ordered(t, lo, hi)
<1>1. CASE s # <<>> /\ t = Tail(s)
  BY <1>1, TailIsOrdered
<1> QED
  BY <1>1, NothingIsOrdered DEF Left

-----------------------------------------------------------------------------
(* Lanes.                                                                  *)

LEMMA LaneMessages ==
    ASSUME EndsOK, NEW c \in Conns, NEW s \in Sides
    PROVE  /\ end[s][c].in \in Seq(Message)
           /\ end[s][c].wire \in Seq(Message)
           /\ end[s][c].out \in Seq(Message)
<1>1. end[s][c] \in EndOf(s)
  BY EndsOfOne
<1>2. SentBy(s) \subseteq Message /\ SentBy(Peer(s)) \subseteq Message
  BY DEF SentBy, Message
<1> QED
  BY <1>1, <1>2 DEF EndOf

MessagesIn(a) == {a.in, a.wire, a.out} \subseteq Seq(Message)

LEMMA EndsHaveMessages ==
    ASSUME EndsOK
    PROVE  \A c \in Conns : MessagesIn(end["client"][c]) /\ MessagesIn(end["server"][c])
<1>1. "client" \in Sides /\ "server" \in Sides
  BY DEF Sides
<1> QED
  BY <1>1, LaneMessages DEF MessagesIn

LEMMA EmptyLane ==
    ASSUME NEW a, NEW b, b.in = <<>>, a.wire = <<>>, a.out = <<>>,
           NEW lo \in Moments
    PROVE  Lane(a, b, lo, lo)
<1>1. lo <= lo
  BY MomentsAre
<1> QED
  BY <1>1, NothingIsOrdered DEF Lane

\* What moves within a lane stays in order.
LEMMA FlowKeepsLane ==
    ASSUME NEW a, NEW b, NEW a2, NEW b2, MessagesIn(a), MessagesIn(b), Flow(a, b, a2, b2),
           NEW lo \in Moments, NEW hi \in Moments, Lane(a, b, lo, hi)
    PROVE  Lane(a2, b2, lo, hi)
<1>1. PICK m \in Moments, n \in Moments :
        /\ lo <= m /\ m <= n /\ n <= hi
        /\ Ordered(b.in, lo, m) /\ Ordered(a.wire, m, n) /\ Ordered(a.out, n, hi)
  BY DEF Lane
<1>2. b.in \in Seq(Message) /\ a.wire \in Seq(Message) /\ a.out \in Seq(Message)
  BY DEF MessagesIn
<1>3. CASE /\ a.wire # <<>>
           /\ b2.in = Append(b.in, Head(a.wire)) /\ a2.wire = Tail(a.wire)
           /\ a2.out = a.out
  <2>1. PICK k \in Moments : /\ m <= k /\ k <= n
                             /\ Ordered(Append(b.in, Head(a.wire)), lo, k)
                             /\ Ordered(Tail(a.wire), k, n)
    BY <1>1, <1>2, <1>3, PassesInOrder
  <2>2. lo <= k
    BY <1>1, <2>1, MomentsAre
  <2> QED
    BY <1>1, <1>3, <2>1, <2>2 DEF Lane
<1>4. CASE /\ a.out # <<>>
           /\ a2.wire = Append(a.wire, Head(a.out)) /\ a2.out = Tail(a.out)
           /\ b2.in = b.in
  <2>1. PICK k \in Moments : /\ n <= k /\ k <= hi
                             /\ Ordered(Append(a.wire, Head(a.out)), m, k)
                             /\ Ordered(Tail(a.out), k, hi)
    BY <1>1, <1>2, <1>4, PassesInOrder
  <2>2. m <= k
    BY <1>1, <2>1, MomentsAre
  <2> QED
    BY <1>1, <1>4, <2>1, <2>2 DEF Lane
<1>5. CASE Left(b.in, b2.in) /\ Left(a.wire, a2.wire) /\ Left(a.out, a2.out)
  <2>1. Ordered(b2.in, lo, m) /\ Ordered(a2.wire, m, n) /\ Ordered(a2.out, n, hi)
    BY <1>1, <1>2, <1>5, LeftInOrder
  <2> QED
    BY <1>1, <2>1 DEF Lane
<1> QED
  BY <1>3, <1>4, <1>5 DEF Flow

\* The receiving end takes the first message, and the lane starts there.
LEMMA LaneIsTaken ==
    ASSUME NEW a, NEW b, NEW b2, MessagesIn(b), b.in # <<>>, b2.in = Tail(b.in),
           NEW lo \in Moments, NEW hi \in Moments, Lane(a, b, lo, hi)
    PROVE  /\ Lane(a, b2, lo, hi)
           /\ Head(b.in) \notin Keys =>
                /\ Head(b.in).viewport \in Moments
                /\ lo <= Head(b.in).viewport /\ Head(b.in).viewport <= hi
                /\ Lane(a, b2, Head(b.in).viewport, hi)
<1>1. PICK m \in Moments, n \in Moments :
        /\ lo <= m /\ m <= n /\ n <= hi
        /\ Ordered(b.in, lo, m) /\ Ordered(a.wire, m, n) /\ Ordered(a.out, n, hi)
  BY DEF Lane
<1>2. b.in \in Seq(Message)
  BY DEF MessagesIn
<1>3. /\ Ordered(Tail(b.in), lo, m)
      /\ Head(b.in) \notin Keys =>
           /\ Head(b.in).viewport \in Moments
           /\ lo <= Head(b.in).viewport /\ Head(b.in).viewport <= m
           /\ Ordered(Tail(b.in), Head(b.in).viewport, m)
  BY <1>1, <1>2, TailIsOrdered
<1>4. Lane(a, b2, lo, hi)
  BY <1>1, <1>3 DEF Lane
<1>5. ASSUME Head(b.in) \notin Keys
      PROVE  /\ Head(b.in).viewport \in Moments
             /\ lo <= Head(b.in).viewport /\ Head(b.in).viewport <= hi
             /\ Lane(a, b2, Head(b.in).viewport, hi)
  <2> DEFINE v == Head(b.in).viewport
  <2>1. v \in Moments /\ lo <= v /\ v <= m /\ Ordered(b2.in, v, m)
    BY <1>3, <1>5
  <2> HIDE DEF v
  <2>2. v <= hi
    BY <1>1, <2>1, MomentsAre
  <2>3. Lane(a, b2, v, hi)
    BY <1>1, <2>1 DEF Lane
  <2> QED
    BY <2>1, <2>2, <2>3 DEF v
<1> QED
  BY <1>4, <1>5

\* The sending end gets one more message.
LEMMA LaneIsExtended ==
    ASSUME NEW a, NEW b, NEW a2, NEW x \in Message, MessagesIn(a),
           a2.out = Append(a.out, x), a2.wire = a.wire,
           NEW lo \in Moments, NEW m \in Moments, NEW hi \in Moments, Lane(a, b, lo, m),
           m <= hi, x \notin Keys => m <= x.viewport /\ x.viewport <= hi
    PROVE  Lane(a2, b, lo, hi)
<1>1. PICK k \in Moments, n \in Moments :
        /\ lo <= k /\ k <= n /\ n <= m
        /\ Ordered(b.in, lo, k) /\ Ordered(a.wire, k, n) /\ Ordered(a.out, n, m)
  BY DEF Lane
<1>2. Ordered(Append(a.out, x), n, hi)
  BY <1>1, AppendIsOrdered DEF MessagesIn
<1>3. n <= hi
  BY <1>1, MomentsAre
<1> QED
  BY <1>1, <1>2, <1>3 DEF Lane

-----------------------------------------------------------------------------
(* What keeps the order.                                                   *)

Flowed(c) ==
    FlowsBothWays(end["client"][c], end["server"][c], end'["client"][c], end'["server"][c])

\* The server's state loses at most what it has.
StateRests(c) ==
    \/ /\ state'[c].viewport = state[c].viewport
       /\ state'[c].sending \in {state[c].sending, Blank}
    \/ state'[c].viewport = None /\ state'[c].sending = Blank

Rests(c) == Flowed(c) /\ (Fresh(c)' => Fresh(c)) /\ StateRests(c)

LEMMA MovedFlows ==
    ASSUME NEW c \in Conns, Moved(c), inner' = c => inner = c
    PROVE  Flowed(c) /\ (Fresh(c)' => Fresh(c))
<1>1. Flowed(c)
  BY DEF Moved, Moves, Flowed
<1>2. Task(c)' = Task(c) \/ {Task(c), Task(c)'} \subseteq Running
  BY DEF Moved, Moves, Task
<1> QED
  BY <1>1, <1>2 DEF Fresh, Running

LEMMA NothingFlows ==
    ASSUME NEW a, NEW b, NEW a2, NEW b2, Flow(a, b, a2, b2),
           b.in = <<>>, a.wire = <<>>, a.out = <<>>
    PROVE  b2.in = <<>> /\ a2.wire = <<>> /\ a2.out = <<>>
BY DEF Flow, Left

LEMMA RestKeepsOthers ==
    ASSUME NEW c \in Conns, Rests(c), NothingSent(c), SendsItsViewport(c)
    PROVE  NothingSent(c)' /\ SendsItsViewport(c)'
<1>1. NothingSent(c)'
  <2> SUFFICES ASSUME Fresh(c)'
               PROVE  /\ end'["client"][c].in = <<>>
                      /\ end'["server"][c].wire = <<>> /\ end'["server"][c].out = <<>>
                      /\ state'[c].viewport = None /\ state'[c].sending = Blank
    BY DEF NothingSent
  <2>1. /\ end["client"][c].in = <<>>
        /\ end["server"][c].wire = <<>> /\ end["server"][c].out = <<>>
        /\ state[c].viewport = None /\ state[c].sending = Blank
    BY DEF Rests, NothingSent
  <2>2. Flow(end["server"][c], end["client"][c], end'["server"][c], end'["client"][c])
    BY DEF Rests, Flowed, FlowsBothWays
  <2>3. /\ end'["client"][c].in = <<>>
        /\ end'["server"][c].wire = <<>> /\ end'["server"][c].out = <<>>
    BY <2>1, <2>2, NothingFlows
  <2> QED
    BY <2>1, <2>3 DEF Rests, StateRests
<1>2. SendsItsViewport(c)'
  BY DEF Rests, StateRests, SendsItsViewport
<1> QED
  BY <1>1, <1>2

OfMoments ==
    /\ EndsOK /\ tree.viewport \in Moments /\ current \in Moments
    /\ using \in {None} \cup Conns
    /\ outbox \in Seq(ToServer) /\ outbox \in Seq(Message)
    /\ \A c \in Conns : state[c].viewport \in Moments

LEMMA TreeIsOfAMoment == SessionInv => OfMoments
<1> SUFFICES ASSUME SessionInv PROVE OfMoments
  OBVIOUS
<1>1. /\ EndsOK /\ tree \in ToClient /\ current \in {None} \cup Viewports
      /\ using \in {None} \cup Conns /\ outbox \in Seq(ToServer)
      /\ state \in [Conns -> [status : {"none", "serving", "gone", "panicked"},
                              viewport : {None} \cup Viewports, sending : ToClient]]
  BY DEF SessionInv, Types, UiOK, ServerOK
<1>2. outbox \in Seq(Message)
  BY <1>1 DEF Message
<1>3. tree.viewport \in {None} \cup Viewports
  BY <1>1 DEF ToClient
<1> QED
  BY <1>1, <1>2, <1>3, MomentsAre DEF OfMoments

\* The window may go on to a newer viewport, and then only sends newer ones.
GoesOn(messages, now, messages2, next) ==
    now <= next /\ (messages2 = messages \/ Ordered(messages2, now, next))

\* What flows around a connection stays in order.
LEMMA FlowKeepsAround ==
    ASSUME NEW cl, NEW sv, NEW cl2, NEW sv2, MessagesIn(cl), MessagesIn(sv),
           FlowsBothWays(cl, sv, cl2, sv2),
           NEW v, NEW v2, v2 = v \/ v2 = None, NEW t \in Moments,
           NEW now \in Moments, NEW next \in Moments,
           NEW messages \in Seq(Message), NEW messages2 \in Seq(Message),
           GoesOn(messages, now, messages2, next),
           Around(cl, sv, v, t, messages, now)
    PROVE  Around(cl2, sv2, v2, t, messages2, next)
<1>1. PICK g \in Moments, h \in Moments, k \in Moments :
        OneAfterTheOther(cl, sv, v, t, messages, now, g, h, k)
  BY DEF Around
<1>2. /\ t <= g /\ g <= h /\ h <= k /\ k <= now
      /\ Lane(sv, cl, t, g)
      /\ v # None => g <= v /\ v <= h
      /\ Lane(cl, sv, h, k)
      /\ Ordered(messages, k, now)
  BY <1>1 DEF OneAfterTheOther
<1>3. Flow(cl, sv, cl2, sv2) /\ Flow(sv, cl, sv2, cl2)
  BY DEF FlowsBothWays
<1>4. Lane(sv2, cl2, t, g) /\ Lane(cl2, sv2, h, k)
  BY <1>2, <1>3, FlowKeepsLane
<1>5. k <= next
  BY <1>2, MomentsAre DEF GoesOn
<1>6. Ordered(messages2, k, next)
  <2>1. /\ k \in Nat /\ now \in Nat /\ next \in Nat /\ k <= k /\ next <= next
    BY MomentsAre
  <2>2. CASE messages2 = messages
    BY <1>2, <2>1, <2>2, WiderIsOrdered DEF GoesOn
  <2>3. CASE Ordered(messages2, now, next)
    BY <1>2, <2>1, <2>3, WiderIsOrdered
  <2> QED
    BY <2>2, <2>3 DEF GoesOn
<1>7. v2 # None => g <= v2 /\ v2 <= h
  BY <1>2
<1>8. OneAfterTheOther(cl2, sv2, v2, t, messages2, next, g, h, k)
  BY <1>2, <1>4, <1>5, <1>6, <1>7 DEF OneAfterTheOther
<1> QED
  BY <1>8 DEF Around

\* A connection in use stays as it is, but for what flows.
LEMMA RestKeepsOrder ==
    ASSUME OfMoments, OfMoments', NEW c \in Conns, InOrder(c), Rests(c),
           tree' = tree, GoesOn(outbox, current, outbox', current')
    PROVE  InOrder(c)'
<1> DEFINE cl == end["client"][c]
           sv == end["server"][c]
           cl2 == end'["client"][c]
           sv2 == end'["server"][c]
           v == state[c].viewport
           v2 == state'[c].viewport
           t == tree.viewport
<1>1. MessagesIn(cl) /\ MessagesIn(sv)
  BY EndsHaveMessages DEF OfMoments
<1>2. FlowsBothWays(cl, sv, cl2, sv2)
  BY DEF Rests, Flowed
<1>3. v2 = v \/ v2 = None
  BY DEF Rests, StateRests
<1>4. Around(cl, sv, v, t, outbox, current)
  BY DEF InOrder
<1>5. /\ t \in Moments /\ current \in Moments /\ current' \in Moments
      /\ outbox \in Seq(Message) /\ outbox' \in Seq(Message)
  BY DEF OfMoments
<1> HIDE DEF cl, sv, cl2, sv2, v, v2, t
<1>6. Around(cl2, sv2, v2, t, outbox', current')
  BY <1>1, <1>2, <1>3, <1>4, <1>5, FlowKeepsAround
<1>7. tree'.viewport = t
  BY DEF t
<1> QED
  BY <1>6, <1>7 DEF InOrder, cl2, sv2, v2

LEMMA RestIsInOrder ==
    ASSUME SessionInv, SessionInv', OrderInv, \A c \in Conns : Rests(c),
           using' \in {using, None}, tree' = tree \/ (tree' = Blank /\ using' = None),
           GoesOn(outbox, current, outbox', current')
    PROVE  OrderInv'
<1>1. OfMoments /\ OfMoments'
  BY TreeIsOfAMoment, PTL
<1>2. tree'.viewport <= current'
  <2>1. /\ tree.viewport \in Nat /\ current \in Nat /\ current' \in Nat
        /\ tree.viewport <= current /\ current <= current'
    BY <1>1, MomentsAre DEF OrderInv, OfMoments, GoesOn
  <2>2. CASE tree' = tree
    <3>1. tree'.viewport = tree.viewport
      BY <2>2
    <3> QED
      BY <2>1, <3>1
  <2>3. CASE tree' = Blank
    <3>1. tree'.viewport = 0
      BY <2>3 DEF Blank, None
    <3> QED
      BY <2>1, <3>1
  <2> QED
    BY <2>2, <2>3
<1>3. \A c \in Conns : NothingSent(c)' /\ SendsItsViewport(c)'
  BY RestKeepsOthers DEF OrderInv
<1>4. ASSUME NEW c \in Conns, using' = c PROVE InOrder(c)'
  <2>1. using = c /\ tree' = tree
    BY <1>4 DEF Conns, None
  <2>2. InOrder(c)
    BY <2>1 DEF OrderInv
  <2> QED
    BY <1>1, <2>1, <2>2, RestKeepsOrder
<1> QED
  BY <1>2, <1>3, <1>4 DEF OrderInv

\* The tasks of the bridge, and the UI thread that goes on with what it has or
\* gives it up.
LEMMA MovedIsInOrder ==
    ASSUME SessionInv, SessionInv', OrderInv, \A c \in Conns : Moved(c), UNCHANGED state,
           \A c \in Conns : inner' = c => inner = c,
           using' \in {using, None}, tree' = tree \/ (tree' = Blank /\ using' = None),
           GoesOn(outbox, current, outbox', current')
    PROVE  OrderInv'
<1>1. ASSUME NEW c \in Conns PROVE Rests(c)
  BY MovedFlows DEF Rests, StateRests
<1> QED
  BY <1>1, RestIsInOrder

\* What the UI thread sends when it has taken new channels.
LEMMA PostInOrder ==
    ASSUME OfMoments, OfMoments', tree.viewport <= current, current <= current',
           NEW messages \in Seq(ToServer), Ordered(messages, current, current'),
           outbox' = (IF current = None THEN <<>> ELSE <<Viewport(current)>>) \o messages
    PROVE  Ordered(outbox', tree.viewport, current')
<1> DEFINE t == tree.viewport
<1>1. /\ t \in Moments /\ current \in Moments /\ current' \in Moments
      /\ messages \in Seq(Message)
  BY DEF OfMoments, Message
<1>2. /\ t \in Nat /\ current \in Nat /\ current' \in Nat /\ t <= current
      /\ current <= current /\ current' <= current'
  <2>1. t \in Nat /\ current \in Nat /\ current' \in Nat
    BY <1>1, MomentsAre
  <2> QED
    BY <2>1
<1> HIDE DEF t
<1>3. CASE current = None
  <2>1. outbox' = messages
    BY <1>3, ConcatEmptySeq
  <2>2. Ordered(messages, t, current')
    BY <1>1, <1>2, WiderIsOrdered
  <2> QED
    BY <2>1, <2>2 DEF t
<1>4. CASE current # None
  <2> DEFINE x == Viewport(current)
  <2>1. outbox' = <<x>> \o messages
    BY <1>4
  <2>2. current \in Viewports
    BY <1>1, <1>4, ViewportAssumption, LenProperties DEF Moments, Viewports, None
  <2>3. x \in Message /\ x \notin Keys
    BY <2>2, ViewportIsNoKey DEF Message
  <2>4. x.viewport = current
    BY DEF Viewport
  <2> HIDE DEF x
  <2>5. t <= x.viewport /\ x.viewport <= current
    BY <1>2, <2>4
  <2>6. Ordered(<<x>> \o messages, t, current')
    BY <1>1, <2>3, <2>5, PrefixedIsOrdered
  <2> QED
    BY <2>1, <2>6 DEF t
<1> QED
  BY <1>3, <1>4

\* On a connection nobody has used nothing is on its way.
LEMMA NewIsInOrder ==
    ASSUME NEW cl, NEW sv, cl.in = <<>>, cl.wire = <<>>, cl.out = <<>>,
           sv.in = <<>>, sv.wire = <<>>, sv.out = <<>>,
           NEW t \in Moments, NEW now \in Moments, t <= now,
           NEW messages, Ordered(messages, t, now)
    PROVE  Around(cl, sv, None, t, messages, now)
<1>1. t <= t
  BY MomentsAre
<1>2. Lane(sv, cl, t, t) /\ Lane(cl, sv, t, t)
  BY EmptyLane
<1>3. OneAfterTheOther(cl, sv, None, t, messages, now, t, t, t)
  BY <1>1, <1>2 DEF OneAfterTheOther
<1> QED
  BY <1>3 DEF Around

LEMMA TakeIsInOrder ==
    ASSUME SessionInv, SessionInv', OrderInv, UNCHANGED <<tree, state>>, current <= current',
           NEW post, TakeChannels(post),
           NEW messages \in Seq(ToServer), Ordered(messages, current, current'),
           outbox' = post \o messages
    PROVE  OrderInv'
<1>1. OfMoments /\ OfMoments'
  BY TreeIsOfAMoment, PTL
<1>2. /\ inner \in Conns /\ end' = ChannelsDropped /\ using' = inner /\ inner' = EmptyShell
      /\ post = IF current = None THEN <<>> ELSE <<Viewport(current)>>
  BY DEF TakeChannels
<1>3. \A c \in Conns : Moved(c)
  BY <1>1, <1>2, DroppedMoves DEF OfMoments
<1>4. ASSUME NEW c \in Conns PROVE Rests(c)
  BY <1>2, <1>3, MovedFlows DEF Rests, StateRests, EmptyShell, Conns
<1>5. \A c \in Conns : NothingSent(c)' /\ SendsItsViewport(c)'
  BY <1>4, RestKeepsOthers DEF OrderInv
<1>6. tree.viewport <= current /\ tree.viewport <= current'
  <2>1. tree.viewport \in Nat /\ current \in Nat /\ current' \in Nat
    BY <1>1, MomentsAre DEF OfMoments
  <2>2. tree.viewport <= current
    BY DEF OrderInv
  <2> QED
    BY <2>1, <2>2
<1>7. Ordered(outbox', tree.viewport, current')
  BY <1>1, <1>2, <1>6, PostInOrder
<1>8. ASSUME NEW c \in Conns, using' = c PROVE InOrder(c)'
  <2> DEFINE cl == end["client"][c]
             sv == end["server"][c]
             cl2 == end'["client"][c]
             sv2 == end'["server"][c]
             t == tree.viewport
  <2>1. Fresh(c) /\ NewIsEmpty(c) /\ NothingSent(c)
    BY <1>2, <1>8 DEF Fresh, SessionInv, ConnInv, OrderInv
  <2>2. /\ cl.in = <<>> /\ cl.wire = <<>> /\ cl.out = <<>>
        /\ sv.in = <<>> /\ sv.wire = <<>> /\ sv.out = <<>>
        /\ state[c].viewport = None
    BY <2>1 DEF NewIsEmpty, NothingSent, In, Wire, Out
  <2>3. Flow(cl, sv, cl2, sv2) /\ Flow(sv, cl, sv2, cl2)
    BY <1>4 DEF Rests, Flowed, FlowsBothWays
  <2>4. t \in Moments /\ current' \in Moments
    BY <1>1 DEF OfMoments
  <2>5. state'[c].viewport = None /\ tree'.viewport = t
    BY <2>2
  <2> HIDE DEF cl, sv, cl2, sv2
  <2>6. /\ cl2.in = <<>> /\ cl2.wire = <<>> /\ cl2.out = <<>>
        /\ sv2.in = <<>> /\ sv2.wire = <<>> /\ sv2.out = <<>>
    BY <2>2, <2>3, NothingFlows
  <2>7. Around(cl2, sv2, None, t, outbox', current')
    BY <1>6, <1>7, <2>4, <2>6, NewIsInOrder
  <2> QED
    BY <2>5, <2>7 DEF InOrder, cl2, sv2
<1>9. tree'.viewport <= current'
  BY <1>6
<1> QED
  BY <1>5, <1>8, <1>9 DEF OrderInv

LEMMA EnsureIsInOrder ==
    ASSUME SessionInv, SessionInv', OrderInv, outbox = <<>>, NEW messages \in Seq(ToServer),
           EnsureAndSend(messages), UNCHANGED <<tree, server>>,
           current <= current', Ordered(messages, current, current')
    PROVE  OrderInv'
<1>1. /\ EndsOK /\ using \in {None} \cup Conns /\ UNCHANGED state
  BY TreeIsOfAMoment DEF OfMoments, server
<1>2. CASE NotConnected /\ UNCHANGED outbox
  <2>1. end' = ChannelsDropped /\ using' = None /\ inner' \notin Conns
    BY <1>2 DEF NotConnected, Reconnect, StillConnecting, NoInner, Conns
  <2>2. \A c \in Conns : Moved(c)
    BY <1>1, <2>1, DroppedMoves
  <2> QED
    BY <1>1, <1>2, <2>1, <2>2, MovedIsInOrder DEF GoesOn
<1>3. ASSUME NEW post \in {<<>>} \cup {<<Viewport(v)>> : v \in Viewports},
             StillConnected(post) \/ TakeChannels(post), outbox' = post \o messages
      PROVE  OrderInv'
  <2>1. CASE StillConnected(post)
    <3>1. UNCHANGED <<end, inner, using>> /\ post = <<>>
      BY <2>1 DEF StillConnected
    <3>2. outbox' = messages
      BY <1>3, <3>1, ConcatEmptySeq
    <3>3. \A c \in Conns : Moved(c)
      BY <1>1, <3>1, SameMoves
    <3> QED
      BY <1>1, <3>1, <3>2, <3>3, MovedIsInOrder DEF GoesOn
  <2>2. CASE TakeChannels(post)
    BY <1>1, <1>3, <2>2, TakeIsInOrder
  <2> QED
    BY <1>3, <2>1, <2>2
<1> QED
  BY <1>2, <1>3 DEF EnsureAndSend

LEMMA NoMessagesInOrder ==
    ASSUME SessionInv, SessionInv', OrderInv, outbox = <<>>, EnsureAndSend(<<>>),
           UNCHANGED <<current, tree, server>>
    PROVE  OrderInv'
<1>1. <<>> \in Seq(ToServer) /\ Ordered(<<>>, current, current')
  BY EmptySeq, NothingIsOrdered
<1>2. current <= current'
  <2>1. current \in Nat /\ current' = current
    BY TreeIsOfAMoment, MomentsAre DEF OfMoments
  <2> QED
    BY <2>1
<1> QED
  BY <1>1, <1>2, EnsureIsInOrder

LEMMA OneIsOrdered ==
    ASSUME NEW x \in Message, NEW lo \in Moments, NEW hi \in Moments, lo <= hi,
           x \notin Keys => lo <= x.viewport /\ x.viewport <= hi
    PROVE  Ordered(<<x>>, lo, hi)
<1>1. <<>> \in Seq(Message) /\ Append(<<>>, x) = <<x>> /\ Ordered(<<>>, lo, lo) /\ lo <= lo
  BY EmptySeq, AppendProperties, NothingIsOrdered, MomentsAre
<1>2. Ordered(Append(<<>>, x), lo, hi)
  BY <1>1, AppendIsOrdered
<1> QED
  BY <1>1, <1>2

-----------------------------------------------------------------------------
(* What the ends do with a message.                                        *)

\* The UI thread's first message goes into the channel.
LEMMA SentInOrder ==
    ASSUME NEW cl, NEW sv, NEW cl2, MessagesIn(cl),
           NEW v, NEW t, NEW now \in Moments, NEW messages \in Seq(Message), messages # <<>>,
           cl2.in = cl.in, cl2.wire = cl.wire, cl2.out = Append(cl.out, Head(messages)),
           Around(cl, sv, v, t, messages, now)
    PROVE  Around(cl2, sv, v, t, Tail(messages), now)
<1>1. PICK g \in Moments, h \in Moments, k \in Moments :
        OneAfterTheOther(cl, sv, v, t, messages, now, g, h, k)
  BY DEF Around
<1>2. /\ t <= g /\ g <= h /\ h <= k /\ k <= now
      /\ Lane(sv, cl, t, g)
      /\ v # None => g <= v /\ v <= h
      /\ Lane(cl, sv, h, k)
      /\ Ordered(messages, k, now)
  BY <1>1 DEF OneAfterTheOther
<1>3. Lane(sv, cl2, t, g)
  BY <1>2 DEF Lane
<1> DEFINE x == Head(messages)
<1>4. /\ x \in Message
      /\ Ordered(Tail(messages), k, now)
      /\ x \notin Keys => /\ x.viewport \in Moments /\ k <= x.viewport /\ x.viewport <= now
                          /\ Ordered(Tail(messages), x.viewport, now)
  BY <1>2, Taken, TailIsOrdered
<1> HIDE DEF x
<1>5. PICK n \in Moments : /\ k <= n /\ n <= now
                           /\ Ordered(Tail(messages), n, now)
                           /\ x \notin Keys => k <= x.viewport /\ x.viewport <= n
  <2>1. k <= k
    BY MomentsAre
  <2>2. CASE x \in Keys
    BY <1>2, <1>4, <2>1, <2>2
  <2>3. CASE x \notin Keys
    <3>1. x.viewport \in Moments
      BY <1>4, <2>3
    <3>2. x.viewport <= x.viewport
      <4>1. x.viewport \in Nat
        BY <3>1, MomentsAre
      <4> QED
        BY <4>1
    <3> QED
      BY <1>4, <2>3, <3>1, <3>2
  <2> QED
    BY <2>2, <2>3
<1>6. Lane(cl2, sv, h, n)
  BY <1>2, <1>4, <1>5, LaneIsExtended DEF x
<1>7. h <= n
  BY <1>2, <1>5, MomentsAre
<1>8. OneAfterTheOther(cl2, sv, v, t, Tail(messages), now, g, h, n)
  BY <1>2, <1>3, <1>5, <1>6, <1>7 DEF OneAfterTheOther
<1> QED
  BY <1>8 DEF Around

\* It is given up when the connection is lost.
LEMMA UnsentInOrder ==
    ASSUME NEW cl, NEW sv, NEW v, NEW t, NEW now \in Moments,
           NEW messages \in Seq(Message), messages # <<>>,
           Around(cl, sv, v, t, messages, now)
    PROVE  Around(cl, sv, v, t, Tail(messages), now)
<1>1. PICK g \in Moments, h \in Moments, k \in Moments :
        OneAfterTheOther(cl, sv, v, t, messages, now, g, h, k)
  BY DEF Around
<1>2. Ordered(Tail(messages), k, now)
  BY <1>1, TailIsOrdered DEF OneAfterTheOther
<1>3. OneAfterTheOther(cl, sv, v, t, Tail(messages), now, g, h, k)
  BY <1>1, <1>2 DEF OneAfterTheOther
<1> QED
  BY <1>3 DEF Around

\* The UI thread takes all frames there are, and keeps the last one.
LEMMA ShownInOrder ==
    ASSUME NEW cl, NEW sv, NEW cl2, cl.in \in Seq(ToClient), cl.in # <<>>,
           NEW x, x = cl.in[Len(cl.in)],
           cl2.in = <<>>, cl2.wire = cl.wire, cl2.out = cl.out,
           NEW v, NEW t \in Moments, NEW now \in Moments, NEW messages,
           Around(cl, sv, v, t, messages, now)
    PROVE  /\ Around(cl2, sv, v, x.viewport, messages, now)
           /\ t <= x.viewport /\ x.viewport <= now
<1> DEFINE u == x.viewport
           last == Len(cl.in)
<1>1. PICK g \in Moments, h \in Moments, k \in Moments :
        OneAfterTheOther(cl, sv, v, t, messages, now, g, h, k)
  BY DEF Around
<1>2. /\ t <= g /\ g <= h /\ h <= k /\ k <= now
      /\ Lane(sv, cl, t, g)
      /\ v # None => g <= v /\ v <= h
      /\ Lane(cl, sv, h, k)
      /\ Ordered(messages, k, now)
  BY <1>1 DEF OneAfterTheOther
<1>3. PICK m \in Moments, n \in Moments :
        /\ t <= m /\ m <= n /\ n <= g
        /\ Ordered(cl.in, t, m) /\ Ordered(sv.wire, m, n) /\ Ordered(sv.out, n, g)
  BY <1>2 DEF Lane
<1>4. last \in 1 .. Len(cl.in) /\ x \in ToClient
  BY LenProperties, EmptySeq, ElementOfSeq
<1>5. x \notin Keys /\ x \in Message
  BY <1>4, FrameIsNoKey DEF Message
<1>6. u \in Moments /\ t <= u /\ u <= m
  BY <1>3, <1>4, <1>5, MomentsAre DEF Ordered
<1> HIDE DEF u
<1>7. /\ t \in Nat /\ u \in Nat /\ m \in Nat /\ n \in Nat /\ g \in Nat
      /\ h \in Nat /\ k \in Nat /\ now \in Nat
  BY <1>6, MomentsAre
<1>8. u <= u /\ u <= g /\ u <= now
  BY <1>2, <1>3, <1>6, <1>7
<1>9. Lane(sv, cl2, u, g)
  BY <1>3, <1>6, <1>8, NothingIsOrdered DEF Lane
<1>10. Lane(cl2, sv, h, k)
  BY <1>2 DEF Lane
<1>11. OneAfterTheOther(cl2, sv, v, u, messages, now, g, h, k)
  BY <1>2, <1>8, <1>9, <1>10 DEF OneAfterTheOther
<1> QED
  BY <1>6, <1>8, <1>11 DEF Around, u

\* The server takes a message.
LEMMA HandledInOrder ==
    ASSUME NEW cl, NEW sv, NEW sv2, MessagesIn(sv), sv.in # <<>>,
           sv2.in = Tail(sv.in), sv2.wire = sv.wire, sv2.out = sv.out,
           NEW v, NEW t, NEW now \in Moments, NEW messages,
           Around(cl, sv, v, t, messages, now)
    PROVE  /\ Around(cl, sv2, v, t, messages, now)
           /\ Head(sv.in) \notin Keys => Around(cl, sv2, Head(sv.in).viewport, t, messages, now)
<1>1. PICK g \in Moments, h \in Moments, k \in Moments :
        OneAfterTheOther(cl, sv, v, t, messages, now, g, h, k)
  BY DEF Around
<1>2. /\ t <= g /\ g <= h /\ h <= k /\ k <= now
      /\ Lane(sv, cl, t, g)
      /\ v # None => g <= v /\ v <= h
      /\ Lane(cl, sv, h, k)
      /\ Ordered(messages, k, now)
  BY <1>1 DEF OneAfterTheOther
<1>3. Lane(sv2, cl, t, g)
  BY <1>2 DEF Lane
<1> DEFINE u == Head(sv.in).viewport
<1>4. /\ Lane(cl, sv2, h, k)
      /\ Head(sv.in) \notin Keys =>
           u \in Moments /\ h <= u /\ u <= k /\ Lane(cl, sv2, u, k)
  BY <1>2, LaneIsTaken
<1>5. OneAfterTheOther(cl, sv2, v, t, messages, now, g, h, k)
  BY <1>2, <1>3, <1>4 DEF OneAfterTheOther
<1> HIDE DEF u
<1>6. ASSUME Head(sv.in) \notin Keys PROVE Around(cl, sv2, u, t, messages, now)
  <2>1. u \in Moments /\ h <= u /\ u <= k /\ Lane(cl, sv2, u, k)
    BY <1>4, <1>6
  <2>2. g <= u /\ u <= u
    BY <1>2, <2>1, MomentsAre
  <2>3. OneAfterTheOther(cl, sv2, u, t, messages, now, g, u, k)
    BY <1>2, <1>3, <2>1, <2>2 DEF OneAfterTheOther
  <2> QED
    BY <2>1, <2>3 DEF Around
<1> QED
  BY <1>5, <1>6 DEF Around, u

\* The server sends the frame of its viewport.
LEMMA FrameInOrder ==
    ASSUME NEW cl, NEW sv, NEW sv2, MessagesIn(sv), NEW v \in Viewports,
           sv2.in = sv.in, sv2.wire = sv.wire, sv2.out = Append(sv.out, Frame(v)),
           NEW t \in Moments, NEW now \in Moments, NEW messages,
           Around(cl, sv, v, t, messages, now)
    PROVE  Around(cl, sv2, v, t, messages, now)
<1>1. PICK g \in Moments, h \in Moments, k \in Moments :
        OneAfterTheOther(cl, sv, v, t, messages, now, g, h, k)
  BY DEF Around
<1>2. /\ t <= g /\ g <= h /\ h <= k /\ k <= now
      /\ Lane(sv, cl, t, g)
      /\ v # None => g <= v /\ v <= h
      /\ Lane(cl, sv, h, k)
      /\ Ordered(messages, k, now)
  BY <1>1 DEF OneAfterTheOther
<1>3. v # None /\ v \in Moments /\ Frame(v).viewport = v
  BY MomentsAre DEF Viewports, None, Frame
<1>4. g <= v /\ v <= h /\ v <= v /\ t <= v
  <2>1. v \in Nat /\ g \in Nat /\ t \in Nat
    BY <1>3, MomentsAre
  <2> QED
    BY <1>2, <1>3, <2>1
<1> DEFINE x == Frame(v)
<1>5. x \in Message
  BY DEF Message, ToClient, Frame
<1> HIDE DEF x
<1>6. g <= x.viewport /\ x.viewport <= v
  BY <1>3, <1>4 DEF x
<1>7. Lane(sv2, cl, t, v)
  BY <1>2, <1>3, <1>4, <1>5, <1>6, LaneIsExtended DEF x
<1>8. Lane(cl, sv2, h, k)
  BY <1>2 DEF Lane
<1>9. OneAfterTheOther(cl, sv2, v, t, messages, now, v, h, k)
  BY <1>2, <1>4, <1>7, <1>8 DEF OneAfterTheOther
<1> QED
  BY <1>3, <1>9 DEF Around

-----------------------------------------------------------------------------
(* The client's steps keep the order.                                      *)

LEMMA UiGoesOn ==
    ASSUME SessionInv, UNCHANGED <<current, outbox>>
    PROVE  GoesOn(outbox, current, outbox', current')
<1>1. current \in Nat
  BY TreeIsOfAMoment, MomentsAre DEF OfMoments
<1> QED
  BY <1>1 DEF GoesOn

LEMMA BridgeIsInOrder ==
    ASSUME SessionInv, SessionInv', OrderInv, \A c \in Conns : Moved(c),
           UNCHANGED <<inner, using, current, outbox, tree, state>>
    PROVE  OrderInv'
BY UiGoesOn, MovedIsInOrder

LEMMA ConnectSucceedsInOrder ==
    ASSUME SessionInv, SessionInv', OrderInv, ConnectSucceeds
    PROVE  OrderInv'
<1>1. PICK c \in Unused :
        end' = [s \in Sides |->
                  [end[s] EXCEPT ![c] = [NewEnd("connected") EXCEPT !.held = s = "client"]]]
  BY DEF ConnectSucceeds
<1>2. /\ UNCHANGED <<inner, using, current, outbox, tree, state>>
      /\ EndsOK /\ c \in Conns /\ Task(c) = "none" /\ NewIsEmpty(c) /\ NothingSent(c)
  BY DEF ConnectSucceeds, SessionInv, Types, ConnInv, OrderInv, Unused, Task, server
<1>3. \A s \in Sides :
        /\ end'[s][c].in = <<>> /\ end'[s][c].out = <<>> /\ end'[s][c].wire = <<>>
        /\ \A d \in Conns \ {c} : end'[s][d] = end[s][d]
  <2> SUFFICES ASSUME NEW s \in Sides
               PROVE  /\ end'[s][c].in = <<>> /\ end'[s][c].out = <<>> /\ end'[s][c].wire = <<>>
                      /\ \A d \in Conns \ {c} : end'[s][d] = end[s][d]
    OBVIOUS
  <2> DEFINE new == [NewEnd("connected") EXCEPT !.held = s = "client"]
  <2>1. new.in = <<>> /\ new.out = <<>> /\ new.wire = <<>>
    BY DEF NewEnd, NoEnd
  <2>2. end'[s] = [end[s] EXCEPT ![c] = new]
    BY <1>1
  <2>3. end[s] \in [Conns -> EndOf(s)]
    BY <1>2 DEF EndsOK
  <2> HIDE DEF new
  <2> QED
    BY <1>2, <2>1, <2>2, <2>3
<1>4. "client" \in Sides /\ "server" \in Sides
  BY DEF Sides
<1>5. Fresh(c) /\ \A s \in Sides : end[s][c].in = <<>> /\ end[s][c].out = <<>> /\ end[s][c].wire = <<>>
  BY <1>2, <1>4 DEF Fresh, NewIsEmpty, NothingSent, In, Wire, Out, Sides
<1>6. Flowed(c)
  BY <1>3, <1>4, <1>5 DEF Flowed, FlowsBothWays, Flow, Left
<1>7. \A d \in Conns \ {c} : Flowed(d)
  BY <1>3, <1>4 DEF Flowed, FlowsBothWays, Flow, Left
<1>8. \A d \in Conns \ {c} : Fresh(d)' => Fresh(d)
  BY <1>2, <1>3, <1>4 DEF Fresh, Task
<1>9. \A d \in Conns : Rests(d)
  BY <1>2, <1>5, <1>6, <1>7, <1>8 DEF Rests, StateRests
<1> QED
  BY <1>2, <1>9, UiGoesOn, RestIsInOrder

LEMMA StoreChannelsInOrder ==
    ASSUME SessionInv, SessionInv', OrderInv, NEW c \in Conns, StoreChannels(c)
    PROVE  OrderInv'
<1>1. /\ UNCHANGED <<using, current, outbox, tree, state>> /\ inner' = c /\ Task(c) = "connected"
      /\ EndsOK /\ end' = [end EXCEPT !["client"][c].task = "running"]
  BY DEF StoreChannels, SessionInv, Types, server, Task
<1>2. ASSUME NEW d \in Conns PROVE Rests(d)
  <2>1. /\ end'["server"][d] = end["server"][d]
        /\ end'["client"][d].in = end["client"][d].in
        /\ end'["client"][d].out = end["client"][d].out
        /\ end'["client"][d].wire = end["client"][d].wire
        /\ d # c => end'["client"][d] = end["client"][d]
    <3>1. end["client"][c] \in EndOf("client") /\ {"client", "server"} \subseteq Sides
      BY <1>1, EndsOfOne DEF Sides
    <3> QED
      BY <1>1, <3>1 DEF EndsOK, EndOf
  <2>2. Flowed(d)
    BY <2>1 DEF Flowed, FlowsBothWays, Flow, Left
  <2>3. Fresh(d)' => Fresh(d)
    BY <1>1, <2>1 DEF Fresh, Task
  <2> QED
    BY <1>1, <2>2, <2>3 DEF Rests, StateRests
<1> QED
  BY <1>1, <1>2, UiGoesOn, RestIsInOrder

LEMMA WindowResizedInOrder ==
    ASSUME SessionInv, SessionInv', OrderInv, WindowResized
    PROVE  OrderInv'
<1> DEFINE x == Viewport(current + 1)
<1>1. /\ outbox = <<>> /\ current' = current + 1 /\ current < Len(Size)
      /\ EnsureAndSend(<<x>>) /\ UNCHANGED <<tree, server>>
  BY DEF WindowResized, UiFree
<1>2. /\ current \in Moments /\ current' \in Moments
      /\ current \in Nat /\ current' \in Nat /\ Len(Size) \in Nat
  <2>1. OfMoments /\ OfMoments'
    BY TreeIsOfAMoment, PTL
  <2> QED
    BY <2>1, MomentsAre, ViewportAssumption, LenProperties DEF OfMoments
<1>3. current + 1 \in Viewports
  BY <1>1, <1>2 DEF Viewports
<1>4. x \in ToServer /\ x \in Message /\ x \notin Keys
  BY <1>3, ViewportIsNoKey DEF Message
<1>5. current <= current' /\ current <= x.viewport /\ x.viewport <= current'
  BY <1>1, <1>2 DEF Viewport
<1> HIDE DEF x
<1>6. <<x>> \in Seq(ToServer)
  BY <1>4, Single
<1>7. Ordered(<<x>>, current, current')
  BY <1>2, <1>4, <1>5, OneIsOrdered
<1> QED
  BY <1>1, <1>5, <1>6, <1>7, EnsureIsInOrder

LEMMA KeyboardInputInOrder ==
    ASSUME SessionInv, SessionInv', OrderInv, KeyboardInput
    PROVE  OrderInv'
<1> DEFINE event == Typed[keys + 1]
           x == Key(event)
<1>1. /\ outbox = <<>> /\ current' = current /\ keys < Len(Typed)
      /\ EnsureAndSend(<<x>>) /\ UNCHANGED <<tree, server>>
  BY DEF KeyboardInput, UiFree
<1>2. current \in Moments /\ current \in Nat
  BY TreeIsOfAMoment, MomentsAre DEF OfMoments
<1>3. x \in Keys
  BY <1>1, TypedKeyIsKey
<1> HIDE DEF x
<1>4. x \in ToServer /\ x \in Message
  BY <1>3 DEF ToServer, Message
<1>5. current <= current /\ current <= current'
  BY <1>1, <1>2
<1>6. <<x>> \in Seq(ToServer)
  BY <1>4, Single
<1>7. Ordered(<<x>>, current, current')
  BY <1>1, <1>2, <1>3, <1>4, <1>5, OneIsOrdered
<1> QED
  BY <1>1, <1>5, <1>6, <1>7, EnsureIsInOrder

LEMMA PeekInOrder ==
    ASSUME SessionInv, SessionInv', OrderInv, PeekAndProcess, using # None,
           UNCHANGED <<inner, current, outbox, server>>
    PROVE  OrderInv'
<1> DEFINE e == end["client"][using]
           lost == e.task = "ended"
<1>1. /\ UNCHANGED state /\ using \in Conns /\ EndsOK
      /\ using' = IF lost THEN None ELSE using
  BY TreeIsOfAMoment DEF PeekAndProcess, OfMoments, server
<1>2. /\ EndsOK' /\ \A d \in Conns : Moved(d)
      /\ end'["client"][using].in = <<>>
      /\ end'["client"][using].wire = e.wire /\ end'["client"][using].out = e.out
      /\ end'["server"][using] = end["server"][using]
  BY <1>1, PeekMoves
<1>3. CASE lost
  <2>1. tree' = Blank /\ using' = None
    BY <1>3 DEF PeekAndProcess
  <2> QED
    BY <1>1, <1>2, <2>1, UiGoesOn, MovedIsInOrder
<1>4. CASE ~lost /\ e.in = <<>>
  <2>1. tree' = tree /\ using' = using
    BY <1>4 DEF PeekAndProcess
  <2> QED
    BY <1>1, <1>2, <2>1, BridgeIsInOrder
<1>5. CASE ~lost /\ e.in # <<>>
  <2> DEFINE x == e.in[Len(e.in)]
             cl == end["client"][using]
             sv == end["server"][using]
             cl2 == end'["client"][using]
             v == state[using].viewport
             t == tree.viewport
  <2>1. tree' = x /\ using' = using
    BY <1>5 DEF PeekAndProcess
  <2>2. cl.in \in Seq(ToClient)
    BY <1>1, EndsOfOne DEF EndOf, SentBy, Peer, Sides
  <2>3. Around(cl, sv, v, t, outbox, current)
    BY <1>1 DEF OrderInv, InOrder
  <2>4. t \in Moments /\ current \in Moments
    BY TreeIsOfAMoment DEF OfMoments
  <2>5. cl2.in = <<>> /\ cl2.wire = cl.wire /\ cl2.out = cl.out /\ cl.in # <<>>
    BY <1>2, <1>5
  <2>6. x = cl.in[Len(cl.in)]
    OBVIOUS
  <2> HIDE DEF x, cl, sv, cl2, v, t
  <2>7. Around(cl2, sv, v, x.viewport, outbox, current) /\ x.viewport <= current
    BY <2>2, <2>3, <2>4, <2>5, <2>6, ShownInOrder
  <2>8. ASSUME NEW c \in Conns PROVE Rests(c)
    BY <1>1, <1>2, MovedFlows DEF Rests, StateRests
  <2>9. \A c \in Conns : NothingSent(c)' /\ SendsItsViewport(c)'
    BY <2>8, RestKeepsOthers DEF OrderInv
  <2>10. ASSUME NEW c \in Conns, using' = c PROVE InOrder(c)'
    <3>1. c = using
      BY <2>1, <2>10
    <3>2. /\ end'["client"][c] = cl2 /\ end'["server"][c] = sv
          /\ state'[c].viewport = v /\ tree'.viewport = x.viewport
          /\ outbox' = outbox /\ current' = current
      BY <1>1, <1>2, <2>1, <3>1 DEF cl2, sv, v
    <3> QED
      BY <2>7, <3>2 DEF InOrder
  <2> QED
    BY <2>1, <2>7, <2>9, <2>10 DEF OrderInv
<1> QED
  BY <1>3, <1>4, <1>5

LEMMA PollInOrder ==
    ASSUME SessionInv, SessionInv', OrderInv, Poll \/ DrawFrame
    PROVE  OrderInv'
BY PeekInOrder DEF Poll, DrawFrame, UiFree, SessionInv, ChannelsInHand

LEMMA UiSendInOrder ==
    ASSUME SessionInv, SessionInv', OrderInv, UiSend
    PROVE  OrderInv'
<1> DEFINE cl == end["client"][using]
           sv == end["server"][using]
           cl2 == end'["client"][using]
           v == state[using].viewport
           t == tree.viewport
<1>1. /\ EndsOK /\ using \in Conns /\ outbox \in Seq(Message) /\ outbox # <<>>
      /\ outbox' = Tail(outbox) /\ current \in Moments
      /\ UNCHANGED <<inner, using, current, tree, state>>
  BY TreeIsOfAMoment DEF UiSend, OfMoments, SessionInv, ChannelsInHand, server
<1>2. MessagesIn(cl)
  BY <1>1, EndsHaveMessages
<1>3. Around(cl, sv, v, t, outbox, current)
  BY <1>1 DEF OrderInv, InOrder
<1>4. CASE UNCHANGED end
  <2> HIDE DEF cl, sv, cl2, v, t
  <2>1. Around(cl, sv, v, t, Tail(outbox), current)
    BY <1>1, <1>3, UnsentInOrder
  <2>2. ASSUME NEW c \in Conns PROVE Rests(c)
    <3>1. Moved(c)
      BY <1>1, <1>4, SameMoves
    <3> QED
      BY <1>1, <3>1, MovedFlows DEF Rests, StateRests
  <2>3. \A c \in Conns : NothingSent(c)' /\ SendsItsViewport(c)'
    BY <2>2, RestKeepsOthers DEF OrderInv
  <2>4. ASSUME NEW c \in Conns, using' = c PROVE InOrder(c)'
    BY <1>1, <1>4, <2>1, <2>4 DEF InOrder, cl, sv, v, t
  <2> QED
    BY <1>1, <2>3, <2>4 DEF OrderInv
<1>5. CASE end' = [end EXCEPT !["client"][using].out = Append(@, Head(outbox))]
  <2>1. /\ {"client", "server"} \subseteq Sides /\ cl \in EndOf("client")
    BY <1>1, EndsOfOne DEF Sides
  <2>2. /\ cl2.in = cl.in /\ cl2.wire = cl.wire /\ cl2.out = Append(cl.out, Head(outbox))
        /\ cl2.task = cl.task
        /\ end'["server"][using] = sv
        /\ \A d \in Conns \ {using} : /\ end'["client"][d] = end["client"][d]
                                      /\ end'["server"][d] = end["server"][d]
    BY <1>1, <1>5, <2>1 DEF EndsOK, EndOf
  <2>3. ASSUME NEW c \in Conns PROVE NothingSent(c)' /\ SendsItsViewport(c)'
    <3>1. Fresh(c)' <=> Fresh(c)
      BY <1>1, <2>2 DEF Fresh, Task
    <3>2. /\ end'["client"][c].in = end["client"][c].in
          /\ end'["server"][c] = end["server"][c]
      BY <2>2
    <3> QED
      BY <1>1, <3>1, <3>2 DEF OrderInv, NothingSent, SendsItsViewport
  <2> HIDE DEF cl, sv, cl2, v, t
  <2>4. Around(cl2, sv, v, t, Tail(outbox), current)
    BY <1>1, <1>2, <1>3, <2>2, SentInOrder
  <2>5. ASSUME NEW c \in Conns, using' = c PROVE InOrder(c)'
    <3>1. /\ end'["client"][c] = cl2 /\ end'["server"][c] = sv
          /\ state'[c].viewport = v /\ tree'.viewport = t
          /\ outbox' = Tail(outbox) /\ current' = current
      BY <1>1, <2>2, <2>5 DEF cl2, v, t
    <3> QED
      BY <2>4, <3>1 DEF InOrder
  <2> QED
    BY <1>1, <2>3, <2>5 DEF OrderInv
<1> QED
  BY <1>4, <1>5 DEF UiSend

LEMMA ClientExitsInOrder ==
    ASSUME SessionInv, SessionInv', OrderInv, ClientExits
    PROVE  OrderInv'
<1>1. /\ end' = ProcessEnds("client") /\ inner' = EmptyShell /\ using' = None
      /\ outbox' = <<>> /\ tree' = Blank /\ current' = current /\ UNCHANGED state
      /\ EndsOK /\ "client" \in Sides /\ Peer("client") = "server"
  BY DEF ClientExits, SessionInv, Types, Sides, Peer, server
<1>2. ASSUME NEW c \in Conns PROVE Rests(c)
  <2>1. EndedFrom(end["client"][c], end["server"][c], end'["client"][c], end'["server"][c])
    BY <1>1, ProcessEnded
  <2>2. Flowed(c)
    BY <2>1 DEF EndedFrom, Flowed, FlowsBothWays, Flow, Left
  <2>3. Fresh(c)' => Fresh(c)
    BY <1>1, <2>1 DEF EndedFrom, Fresh, Task, EmptyShell, Conns
  <2> QED
    BY <1>1, <2>2, <2>3 DEF Rests, StateRests
<1>3. GoesOn(outbox, current, outbox', current')
  <2>1. current \in Nat
    BY TreeIsOfAMoment, MomentsAre DEF OfMoments
  <2> QED
    BY <1>1, <2>1, NothingIsOrdered DEF GoesOn
<1> QED
  BY <1>1, <1>2, <1>3, RestIsInOrder

-----------------------------------------------------------------------------
(* The server's steps keep the order.                                      *)

LEMMA OthersRest ==
    ASSUME SessionInv, NEW c \in Conns, UNCHANGED client, \A d \in Conns \ {c} : Moved(d),
           \A d \in Conns \ {c} : state'[d] = state[d]
    PROVE  \A d \in Conns \ {c} : Rests(d)
<1>1. inner' = inner
  BY DEF client
<1> QED
  BY <1>1, MovedFlows DEF Rests, StateRests

\* Only connection c is served, and the UI thread does nothing.
LEMMA ServedInOrder ==
    ASSUME SessionInv, SessionInv', OrderInv, UNCHANGED client, NEW c \in Conns,
           \A d \in Conns \ {c} : Rests(d),
           NothingSent(c)', SendsItsViewport(c)', using = c => InOrder(c)'
    PROVE  OrderInv'
<1>1. UNCHANGED <<using, current, outbox, tree>>
  BY DEF client
<1>2. \A d \in Conns : NothingSent(d)' /\ SendsItsViewport(d)'
  BY RestKeepsOthers DEF OrderInv
<1>3. ASSUME NEW d \in Conns, using' = d PROVE InOrder(d)'
  <2>1. using = d
    BY <1>1, <1>3
  <2>2. CASE d = c
    BY <2>1, <2>2
  <2>3. CASE d # c
    <3>1. OfMoments /\ OfMoments'
      BY TreeIsOfAMoment, PTL
    <3>2. InOrder(d) /\ Rests(d)
      BY <2>1, <2>3 DEF OrderInv
    <3> QED
      BY <1>1, <3>1, <3>2, UiGoesOn, RestKeepsOrder
  <2> QED
    BY <2>2, <2>3
<1> QED
  BY <1>1, <1>2, <1>3 DEF OrderInv

LEMMA ListenInOrder ==
    ASSUME SessionInv, SessionInv', OrderInv, Listen \/ ServerStarts
    PROVE  OrderInv'
<1>1. UNCHANGED <<end, inner, using, current, outbox, tree, state>>
  BY DEF Listen, ServerStarts, client
<1>2. \A d \in Conns : Moved(d)
  BY <1>1, SameMoves DEF SessionInv, Types
<1> QED
  BY <1>1, <1>2, BridgeIsInOrder

LEMMA AcceptInOrder ==
    ASSUME SessionInv, SessionInv', OrderInv, NEW c \in Conns, Accept(c)
    PROVE  OrderInv'
<1>1. /\ UNCHANGED client
      /\ state' = [state EXCEPT ![c].status = "serving"]
      /\ ServerOK /\ EndsOK
  BY DEF Accept, SessionInv, Types
<1>2. /\ end'["client"][c] = end["client"][c]
      /\ end'["server"][c].in = end["server"][c].in
      /\ end'["server"][c].wire = end["server"][c].wire
      /\ end'["server"][c].out = end["server"][c].out
      /\ \A d \in Conns \ {c} : Moved(d)
  BY <1>1, AcceptMoves
<1>3. /\ state'[c].viewport = state[c].viewport /\ state'[c].sending = state[c].sending
      /\ \A d \in Conns \ {c} : state'[d] = state[d]
  BY <1>1 DEF ServerOK
<1>4. Rests(c)
  <2>1. Flowed(c)
    BY <1>2 DEF Flowed, FlowsBothWays, Flow, Left
  <2>2. Fresh(c)' => Fresh(c)
    BY <1>1, <1>2 DEF Fresh, Task, client
  <2> QED
    BY <1>3, <2>1, <2>2 DEF Rests, StateRests
<1>5. \A d \in Conns : Rests(d)
  BY <1>1, <1>2, <1>3, <1>4, OthersRest
<1> QED
  BY <1>1, <1>5, UiGoesOn, RestIsInOrder DEF client

\* The server gives up connection c.
LEMMA LeavingInOrder ==
    ASSUME SessionInv, SessionInv', OrderInv, NEW c \in Conns, Leaving(c, "gone"),
           UNCHANGED client
    PROVE  OrderInv'
<1> DEFINE mine == [end["server"][c] EXCEPT !.held = FALSE, !.in = <<>>]
<1>1. /\ end["server"][c] \in EndOf("server") /\ EndsOK /\ ServerOK
  BY EndsOfOne DEF SessionInv, Types, Sides
<1>2. /\ mine \in EndOf("server") /\ mine.in = <<>>
      /\ mine.wire = end["server"][c].wire /\ mine.out = end["server"][c].out
  BY <1>1, EmptySeq DEF EndOf
<1>3. end' = [end EXCEPT !["server"][c] = mine]
  BY <1>1 DEF Leaving, EndsOK, Sides
<1> HIDE DEF mine
<1>4. /\ end'["server"][c] = mine /\ end'["client"][c] = end["client"][c]
      /\ \A d \in Conns \ {c} : Moved(d)
  BY <1>1, <1>2, <1>3, ServerEndBecomes
<1>5. /\ state'[c].viewport = state[c].viewport /\ state'[c].sending = Blank
      /\ \A d \in Conns \ {c} : state'[d] = state[d]
  BY <1>1 DEF Leaving, ServerOK
<1>6. Rests(c)
  <2>1. Flowed(c)
    BY <1>2, <1>4 DEF Flowed, FlowsBothWays, Flow, Left
  <2>2. Fresh(c)' => Fresh(c)
    BY <1>4 DEF Fresh, Task, client
  <2> QED
    BY <1>5, <2>1, <2>2 DEF Rests, StateRests
<1>7. \A d \in Conns : Rests(d)
  BY <1>4, <1>5, <1>6, OthersRest
<1> QED
  BY <1>7, UiGoesOn, RestIsInOrder DEF client

LEMMA HandleMessageInOrder ==
    ASSUME SessionInv, SessionInv', OrderInv, NEW c \in Conns, HandleMessage(c)
    PROVE  OrderInv'
<1> DEFINE cl == end["client"][c]
           sv == end["server"][c]
           sv2 == end'["server"][c]
           m == Head(sv.in)
           v == IF m \in Keys THEN state[c].viewport ELSE m.viewport
           t == tree.viewport
           mine == [sv EXCEPT !.in = Tail(@)]
<1>1. /\ sv.in # <<>> /\ UNCHANGED client
      /\ EndsOK /\ ServerOK /\ sv \in EndOf("server") /\ NewIsEmpty(c)
  BY EndsOfOne DEF HandleMessage, SessionInv, Types, ConnInv, Sides
<1>2. /\ end' = [end EXCEPT !["server"][c].in = Tail(@)]
      /\ (UNCHANGED state /\ m \in Keys) \/ state' = [state EXCEPT ![c] = Synced(@, v)]
  <2>1. CASE Leaving(c, "panicked")
    <3>1. state'[c].status = "panicked"
      BY <1>1, <2>1 DEF Leaving, ServerOK
    <3>2. state'[c].status # "panicked"
      BY DEF SessionInv, ViewportFirst
    <3> QED
      BY <3>1, <3>2
  <2> QED
    BY <2>1 DEF HandleMessage
<1>3. mine \in EndOf("server") /\ mine.in = Tail(sv.in) /\ mine.wire = sv.wire /\ mine.out = sv.out
  <2>1. Tail(sv.in) \in Seq(ToServer)
    BY <1>1, Taken DEF EndOf, SentBy, Peer
  <2> QED
    BY <1>1, <2>1 DEF EndOf, SentBy, Peer
<1>4. end' = [end EXCEPT !["server"][c] = mine]
  BY <1>1, <1>2 DEF EndsOK, Sides
<1> HIDE DEF mine
<1>5. /\ sv2 = mine /\ end'["client"][c] = cl
      /\ \A d \in Conns \ {c} : Moved(d)
  BY <1>1, <1>3, <1>4, ServerEndBecomes
<1>6. /\ \A d \in Conns \ {c} : state'[d] = state[d]
      /\ \/ state'[c] = state[c] /\ m \in Keys
         \/ state'[c].viewport = v /\ state'[c].sending = Frame(v)
  BY <1>1, <1>2 DEF ServerOK, Synced
<1>7. NothingSent(c)'
  <2>1. ~Fresh(c)
    BY <1>1 DEF NewIsEmpty, In
  <2>2. ~Fresh(c)'
    BY <1>1, <1>5, <2>1 DEF Fresh, Task, client
  <2> QED
    BY <2>2 DEF NothingSent
<1>8. SendsItsViewport(c)'
  BY <1>6 DEF SendsItsViewport, OrderInv
<1>9. ASSUME using = c PROVE InOrder(c)'
  <2>1. Around(cl, sv, state[c].viewport, t, outbox, current)
    BY <1>9 DEF OrderInv, InOrder
  <2>2. MessagesIn(sv) /\ current \in Moments
    BY <1>1, EndsHaveMessages, TreeIsOfAMoment DEF OfMoments
  <2>3. sv2.in = Tail(sv.in) /\ sv2.wire = sv.wire /\ sv2.out = sv.out
    BY <1>3, <1>5
  <2>4. tree'.viewport = t /\ outbox' = outbox /\ current' = current
    BY <1>1 DEF client
  <2> HIDE DEF cl, sv, sv2, t
  <2>5. /\ Around(cl, sv2, state[c].viewport, t, outbox, current)
        /\ m \notin Keys => Around(cl, sv2, m.viewport, t, outbox, current)
    BY <1>1, <2>1, <2>2, <2>3, HandledInOrder
  <2>6. state'[c].viewport = IF m \in Keys THEN state[c].viewport ELSE m.viewport
    BY <1>6
  <2>7. Around(cl, sv2, state'[c].viewport, t, outbox, current)
    BY <2>5, <2>6
  <2> QED
    BY <1>5, <2>4, <2>7 DEF InOrder, sv2
<1> QED
  BY <1>1, <1>5, <1>6, <1>7, <1>8, <1>9, OthersRest, ServedInOrder

LEMMA TransferFrameInOrder ==
    ASSUME SessionInv, SessionInv', OrderInv, NEW c \in Conns, TransferFrame(c)
    PROVE  OrderInv'
<1> DEFINE cl == end["client"][c]
           sv == end["server"][c]
           sv2 == end'["server"][c]
           v == state[c].viewport
           t == tree.viewport
           mine == [sv EXCEPT !.out = Append(@, Frame(v))]
<1>1. /\ state[c].sending # Blank /\ UNCHANGED client
      /\ EndsOK /\ ServerOK /\ sv \in EndOf("server")
  BY EndsOfOne DEF TransferFrame, SessionInv, Types, Sides
<1>2. state[c].sending = Frame(v) /\ v \in Viewports /\ ~Fresh(c)
  <2>1. state[c].sending = Frame(v) /\ ~Fresh(c)
    BY <1>1 DEF OrderInv, SendsItsViewport, NothingSent
  <2>2. v # None
    BY <1>1, <2>1 DEF Frame, Blank
  <2>3. v \in {None} \cup Viewports
    BY <1>1 DEF ServerOK
  <2> QED
    BY <2>1, <2>2, <2>3
<1>3. CASE Leaving(c, "gone")
  BY <1>1, <1>3, LeavingInOrder
<1>4. CASE /\ end' = [end EXCEPT !["server"][c].out = Append(@, state[c].sending)]
           /\ state' = [state EXCEPT ![c].sending = Blank]
  <2>1. mine \in EndOf("server") /\ mine.in = sv.in /\ mine.wire = sv.wire
        /\ mine.out = Append(sv.out, Frame(v))
    <3>1. sv.out \in Seq(ToClient) /\ Frame(v) \in ToClient
      BY <1>1, <1>2 DEF EndOf, SentBy, ToClient, Frame
    <3>2. Append(sv.out, Frame(v)) \in Seq(ToClient)
      BY <3>1, Appended
    <3> QED
      BY <1>1, <3>2 DEF EndOf, SentBy
  <2>2. end' = [end EXCEPT !["server"][c] = mine]
    BY <1>1, <1>2, <1>4 DEF EndsOK, Sides
  <2> HIDE DEF mine
  <2>3. /\ sv2 = mine /\ end'["client"][c] = cl
        /\ \A d \in Conns \ {c} : Moved(d)
    BY <1>1, <2>1, <2>2, ServerEndBecomes
  <2>4. /\ \A d \in Conns \ {c} : state'[d] = state[d]
        /\ state'[c].viewport = v /\ state'[c].sending = Blank
    BY <1>1, <1>4 DEF ServerOK
  <2>5. NothingSent(c)' /\ SendsItsViewport(c)'
    <3>1. ~Fresh(c)'
      BY <1>1, <1>2, <2>3 DEF Fresh, Task, client
    <3> QED
      BY <2>4, <3>1 DEF NothingSent, SendsItsViewport
  <2>6. ASSUME using = c PROVE InOrder(c)'
    <3>1. Around(cl, sv, v, t, outbox, current)
      BY <2>6 DEF OrderInv, InOrder
    <3>2. MessagesIn(sv) /\ current \in Moments /\ t \in Moments
      BY <1>1, EndsHaveMessages, TreeIsOfAMoment DEF OfMoments
    <3>3. sv2.in = sv.in /\ sv2.wire = sv.wire /\ sv2.out = Append(sv.out, Frame(v))
      BY <2>1, <2>3
    <3>4. tree'.viewport = t /\ outbox' = outbox /\ current' = current
      BY <1>1 DEF client
    <3> HIDE DEF cl, sv, sv2, v, t
    <3>5. Around(cl, sv2, v, t, outbox, current)
      BY <1>2, <3>1, <3>2, <3>3, FrameInOrder
    <3> QED
      BY <2>3, <2>4, <3>4, <3>5 DEF InOrder, sv2
  <2> QED
    BY <1>1, <2>3, <2>4, <2>5, <2>6, OthersRest, ServedInOrder
<1> QED
  BY <1>3, <1>4 DEF TransferFrame

LEMMA ServerStopsInOrder ==
    ASSUME SessionInv, SessionInv', OrderInv, ServerStops
    PROVE  OrderInv'
<1>1. /\ end' = ProcessEnds("server")
      /\ state' = [c \in Conns |-> IF state[c] = NoState THEN NoState
                                   ELSE [NoState EXCEPT !.status = "gone"]]
      /\ UNCHANGED <<inner, using, outbox, current, tree>>
      /\ EndsOK /\ "server" \in Sides /\ Peer("server") = "client"
  BY DEF ServerStops, SessionInv, Types, Sides, Peer, client
<1>2. ASSUME NEW c \in Conns PROVE Rests(c)
  <2>1. EndedFrom(end["server"][c], end["client"][c], end'["server"][c], end'["client"][c])
    BY <1>1, ProcessEnded
  <2>2. Flowed(c)
    BY <2>1 DEF EndedFrom, Flowed, FlowsBothWays, Flow, Left
  <2>3. Fresh(c)' => Fresh(c)
    BY <1>1, <2>1 DEF EndedFrom, Fresh, Task
  <2>4. state'[c].viewport = None /\ state'[c].sending = Blank
    BY <1>1 DEF NoState
  <2> QED
    BY <2>2, <2>3, <2>4 DEF Rests, StateRests
<1> QED
  BY <1>1, <1>2, UiGoesOn, RestIsInOrder

-----------------------------------------------------------------------------
(* The order is kept, and with it the tree never goes back.                *)

LEMMA InitIsInOrder ==
    ASSUME Init
    PROVE  OrderInv
<1>1. /\ tree = Blank /\ current = None /\ using = None
      /\ \A c \in Conns : /\ end["client"][c] = NoEnd /\ end["server"][c] = NoEnd
                          /\ state[c] = NoState
  BY DEF Init, BridgeInit, ClientInit, ServerInit, Sides
<1>2. \A c \in Conns : NothingSent(c) /\ SendsItsViewport(c)
  BY <1>1 DEF NothingSent, SendsItsViewport, NoEnd, NoState
<1>3. tree.viewport <= current
  BY <1>1 DEF Blank, None
<1> QED
  BY <1>1, <1>2, <1>3 DEF OrderInv, None, Conns

LEMMA NextIsInOrder ==
    ASSUME SessionInv, SessionInv', OrderInv, [Next]_vars
    PROVE  OrderInv'
<1>1. CASE \E s \in Sides, c \in Conns : BridgeStep(s, c) /\ UNCHANGED <<client, server, faults>>
  <2>1. \A c \in Conns : Moved(c)
    BY <1>1, BridgeStepMoves DEF SessionInv, Types
  <2>2. UNCHANGED <<inner, using, current, outbox, tree, state>>
    BY <1>1 DEF client, server
  <2> QED
    BY <2>1, <2>2, BridgeIsInOrder
<1>2. CASE ClientStep
  <2>1. CASE RedrawRequested \/ PollEvents \/ ShouldDraw
    <3>1. outbox = <<>> /\ EnsureAndSend(<<>>) /\ UNCHANGED <<current, tree, server>>
      BY <2>1 DEF RedrawRequested, PollEvents, ShouldDraw, UiFree, SessionInv, ChannelsInHand
    <3> QED
      BY <3>1, NoMessagesInOrder
  <2>2. CASE NothingQueued
    <3>1. UNCHANGED <<end, inner, using, current, outbox, tree, state>>
      BY <2>2 DEF NothingQueued, server
    <3>2. \A c \in Conns : Moved(c)
      BY <3>1, SameMoves DEF SessionInv, Types
    <3> QED
      BY <3>1, <3>2, BridgeIsInOrder
  <2> QED
    BY <1>2, <2>1, <2>2, ConnectSucceedsInOrder, StoreChannelsInOrder, WindowResizedInOrder,
       KeyboardInputInOrder, PollInOrder, UiSendInOrder, ClientExitsInOrder
       DEF ClientStep, UiStep
<1>3. CASE ServerStep
  <2>1. ASSUME NEW c \in Conns, LeaveLoop(c) PROVE OrderInv'
    BY <2>1, LeavingInOrder DEF LeaveLoop
  <2> QED
    BY <1>3, <2>1, ListenInOrder, AcceptInOrder, HandleMessageInOrder, TransferFrameInOrder,
       ServerStopsInOrder DEF ServerStep, Serve
<1>4. CASE UNCHANGED vars
  <2>1. UNCHANGED <<end, inner, using, current, outbox, tree, state>>
    BY <1>4 DEF vars, client, server
  <2>2. \A c \in Conns : Moved(c)
    BY <2>1, SameMoves DEF SessionInv, Types
  <2> QED
    BY <2>1, <2>2, BridgeIsInOrder
<1> QED
  BY <1>1, <1>2, <1>3, <1>4 DEF Next

(* The order is an invariant, for any sequence of sizes and any number of  *)
(* connections and of processes that end.                                  *)
THEOREM ViewportsStayInOrder == Spec => []OrderInv
<1>1. Init => OrderInv
  BY InitIsInOrder
<1>2. SessionInv /\ SessionInv' /\ OrderInv /\ [Next]_vars => OrderInv'
  BY NextIsInOrder
<1> QED
  BY <1>1, <1>2, SessionInvariant, PTL DEF Spec

\* Only frames that are taken change the tree, and those are in the lane.
LEMMA TreeGoesOn ==
    ASSUME SessionInv, OrderInv, [Next]_vars, tree' # Blank
    PROVE  tree.viewport <= tree'.viewport
<1>1. OfMoments
  BY TreeIsOfAMoment
<1>2. CASE tree' = tree
  <2>1. tree.viewport \in Nat
    BY <1>1, MomentsAre DEF OfMoments
  <2>2. tree'.viewport = tree.viewport
    BY <1>2
  <2> QED
    BY <2>1, <2>2
<1>3. CASE tree' # tree
  <2> DEFINE cl == end["client"][using]
             sv == end["server"][using]
             cl2 == end'["client"][using]
             x == cl.in[Len(cl.in)]
             v == state[using].viewport
             t == tree.viewport
  <2>1. PeekAndProcess /\ using # None
    <3>1. ~UNCHANGED <<client, server, faults>> /\ ~UNCHANGED client /\ ~UNCHANGED vars
      BY <1>3 DEF client, vars
    <3>2. ClientStep
      <4>1. ASSUME Listen \/ ServerStops \/ ServerStarts PROVE UNCHANGED client
        BY <4>1 DEF Listen, ServerStops, ServerStarts
      <4>2. ASSUME NEW c \in Conns, Accept(c) \/ Serve(c) PROVE UNCHANGED client
        <5>1. Accept(c) => UNCHANGED client
          BY DEF Accept
        <5>2. Serve(c) => UNCHANGED client
          BY DEF Serve, HandleMessage, TransferFrame, LeaveLoop
        <5> QED
          BY <4>2, <5>1, <5>2
      <4> QED
        BY <3>1, <4>1, <4>2 DEF Next, ServerStep
    <3>3. Poll \/ DrawFrame
      BY <1>3, <3>2 DEF ClientStep, UiStep, ConnectSucceeds, StoreChannels, WindowResized,
         KeyboardInput, RedrawRequested, UiSend, PollEvents, NothingQueued, ShouldDraw, ClientExits
    <3> QED
      BY <3>3 DEF Poll, DrawFrame, SessionInv, ChannelsInHand
  <2>2. tree' = x /\ cl.in # <<>>
    BY <1>3, <2>1 DEF PeekAndProcess
  <2>3. using \in Conns /\ t \in Moments /\ current \in Moments /\ EndsOK
    BY <1>1, <2>1 DEF OfMoments
  <2>4. cl.in \in Seq(ToClient)
    BY <2>3, EndsOfOne DEF EndOf, SentBy, Peer, Sides
  <2>5. Around(cl, sv, v, t, outbox, current)
    BY <2>3 DEF OrderInv, InOrder
  <2>6. cl2.in = <<>> /\ cl2.wire = cl.wire /\ cl2.out = cl.out
    BY <2>1, <2>3, PeekMoves
  <2>7. x = cl.in[Len(cl.in)]
    OBVIOUS
  <2> HIDE DEF cl, sv, cl2, x, v, t
  <2>8. t <= x.viewport
    BY <2>2, <2>3, <2>4, <2>5, <2>6, <2>7, ShownInOrder
  <2> QED
    BY <2>2, <2>8 DEF t
<1> QED
  BY <1>2, <1>3

(* Whatever was on its way when a connection was lost and made again, the  *)
(* client's tree never goes back to the frame of an older viewport.        *)
THEOREM FramesOnlyGetNewer == Spec => NeverGoesBack
<1>1. SessionInv /\ OrderInv /\ [Next]_vars
        => [tree' # Blank => tree.viewport <= tree'.viewport]_vars
  BY TreeGoesOn
<1> QED
  BY <1>1, SessionInvariant, ViewportsStayInOrder, PTL DEF Spec, NeverGoesBack
===============================================================================
