------------------------------- MODULE Session -------------------------------
(***************************************************************************)
(* A client window and the server it shows, over the bridge: the client's  *)
(* UI thread (window/mod.rs, editor/editor.rs, redraw_scheduler.rs), its   *)
(* connecting task, the server's listener and its connection states        *)
(* (server.rs), with a server that may stop and start again.               *)
(***************************************************************************)
EXTENDS Bridge, FiniteSets

CONSTANTS
    Size,      \* physical sizes, one for every viewport the window reports
    Typed,     \* what is typed: key events, one after the other
    MaxFaults, \* bound: how often the server or the client process ends
    FewKeys    \* bound: how much of it is typed in a session in which a process
               \* ends or the window is resized

ASSUME ViewportAssumption == Size \in Seq(Nat \ {0})
ASSUME BoundsAssumption == MaxFaults \in Nat /\ FewKeys \in Nat

(* Key codes, as far as the server tells them apart.  The window system    *)
(* may not know a key; it says Back for what the wire calls Backspace.     *)
VirtualKeycode == {"None", "Arrow", "Letter", "Backspace", "Other"}
WindowKeyCode == {"Arrow", "Letter", "Back", "Other"}

ASSUME TypedAssumption == Typed \in Seq([code : WindowKeyCode \cup {"Unknown"}, pressed : BOOLEAN])


VARIABLES
    attempts,   \* try_connect tasks that have no connection yet
    inner,      \* HeliconeEditor::inner
    using,      \* the connection whose channels the UI thread has taken
    current,    \* current_viewport_info
    outbox,     \* what the UI thread is about to blocking_send
    pc,         \* where the UI thread is in draw_frame: idle, poll, redraw or draw; or exited
    tree,       \* the frame in the block manager
    shown,      \* the frame in the window
    queued,     \* RedrawScheduler::frame_queued
    keys,       \* key events so far
    up,         \* the server process runs
    listening,  \* it has a listener
    state,      \* per connection: the server's connection state, which is none,
                \* serving, gone or panicked; its viewport, and the frame to send
    faults      \* ends of a process

client == <<attempts, inner, using, current, outbox, pc, tree, shown, queued, keys>>
server == <<up, listening, state>>
vars == <<end, client, server, faults>>

Viewports == 1 .. Len(Size)
None == 0
EmptyShell == 0    \* inner without channels: a connection has been made and taken
NoInner == -1      \* a try_connect task is on its way

convert_virtual_keycodes(code) ==
    CASE code = "Unknown" -> "None"
      [] code = "Back"    -> "Backspace"
      [] OTHER            -> code

(* A message to the server is a viewport or a key event; one to the client *)
(* is a frame, known by the viewport it is laid out for.                   *)
Key(event) == [virtual_keycode |-> convert_virtual_keycodes(event.code), pressed |-> event.pressed]
Keys == [virtual_keycode : VirtualKeycode, pressed : BOOLEAN]
Viewport(v) == [viewport |-> v]
Frame(v) == [viewport |-> v]
Blank == [viewport |-> None]   \* no blocks

NoState == [status |-> "none", viewport |-> None, sending |-> Blank]

(* HeliconeEditor::new starts a task that connects. *)
ClientInit ==
    /\ attempts = 1 /\ inner = NoInner /\ using = None
    /\ current = None /\ outbox = <<>> /\ pc = "idle"
    /\ tree = Blank /\ shown = Blank /\ queued = TRUE /\ keys = 0

ServerInit ==
    /\ up = TRUE /\ listening = FALSE
    /\ state = [c \in Conns |-> NoState]

Init == BridgeInit /\ ClientInit /\ ServerInit /\ faults = 0

-----------------------------------------------------------------------------
(***************************************************************************)
(* The client's connecting task.  A connect that fails sleeps for ten      *)
(* seconds and tries again, which changes nothing here.                    *)
(***************************************************************************)
Unused == {c \in Conns : end["client"][c].task = "none"}

ConnectSucceeds ==
    /\ attempts > 0
    /\ listening
    /\ \E c \in Unused :
         /\ \A d \in Unused : c <= d
         /\ end' = [s \in Sides |->
                      [end[s] EXCEPT ![c] = [NewEnd("connected") EXCEPT !.held = s = "client"]]]
    /\ attempts' = attempts - 1
    /\ UNCHANGED <<inner, using, current, outbox, pc, tree, shown, queued, keys, server, faults>>

(* The channels are put where the UI thread finds them; the task goes on   *)
(* with process_rxtx.                                                      *)
StoreChannels(c) ==
    /\ end["client"][c].task = "connected"
    /\ end' = [end EXCEPT !["client"][c].task = "running"]
    /\ inner' = c
    /\ UNCHANGED <<attempts, using, current, outbox, pc, tree, shown, queued, keys, server, faults>>

-----------------------------------------------------------------------------
(***************************************************************************)
(* ensure_connected, at the start of everything the UI thread does.  It    *)
(* comes back with TRUE and what post_connect has to send, or with FALSE.  *)
(***************************************************************************)
UiFree == outbox = <<>>
Connected == using # None /\ ~SenderClosed("client", using)

(* self.sender = None; self.receiver = None *)
ChannelsDropped ==
    IF using = None THEN end ELSE [end EXCEPT !["client"][using].held = FALSE]

StillConnected(post) ==
    /\ Connected
    /\ post = <<>>
    /\ UNCHANGED <<end, attempts, inner, using>>

\* Mutant: post_connect is not called.
TakeChannels_NoPost(post) ==
    /\ ~Connected
    /\ inner \in Conns
    /\ end' = ChannelsDropped
    /\ using' = inner
    /\ inner' = EmptyShell
    /\ post = <<>>
    /\ UNCHANGED attempts

\* Mutant: the size the window was opened with is sent.
TakeChannels_FirstSize(post) ==
    /\ ~Connected
    /\ inner \in Conns
    /\ end' = ChannelsDropped
    /\ using' = inner
    /\ inner' = EmptyShell
    /\ post = IF current = None THEN <<>> ELSE <<Viewport(1)>>
    /\ UNCHANGED attempts

\* Mutant: the channels are not taken out of inner.
TakeChannels_LeavesThem(post) ==
    /\ ~Connected
    /\ inner \in Conns
    /\ end' = ChannelsDropped
    /\ using' = inner
    /\ post = IF current = None THEN <<>> ELSE <<Viewport(current)>>
    /\ UNCHANGED <<attempts, inner>>

TakeChannels(post) ==
    /\ ~Connected
    /\ inner \in Conns
    /\ end' = ChannelsDropped
    /\ using' = inner
    /\ inner' = EmptyShell
    /\ post = IF current = None THEN <<>> ELSE <<Viewport(current)>>
    /\ UNCHANGED attempts

\* Mutant: the empty shell is left in inner.
Reconnect_KeepsShell ==
    /\ ~Connected
    /\ inner = EmptyShell
    /\ end' = ChannelsDropped
    /\ using' = None
    /\ attempts' = attempts + 1
    /\ UNCHANGED inner

Reconnect ==
    /\ ~Connected
    /\ inner = EmptyShell
    /\ end' = ChannelsDropped
    /\ using' = None
    /\ inner' = NoInner
    /\ attempts' = attempts + 1

StillConnecting ==
    /\ ~Connected
    /\ inner = NoInner
    /\ end' = ChannelsDropped
    /\ using' = None
    /\ UNCHANGED <<attempts, inner>>

NotConnected == Reconnect \/ StillConnecting

(* With a connection what is to be sent, and what comes before it; without *)
(* one it is not sent.                                                     *)
EnsureAndSend(messages) ==
    \/ \E post \in {<<>>} \cup {<<Viewport(v)>> : v \in Viewports} :
         /\ StillConnected(post) \/ TakeChannels(post)
         /\ outbox' = post \o messages
    \/ NotConnected /\ UNCHANGED outbox

(***************************************************************************)
(* Window events.  The window system reports a size before it sends keys.  *)
(***************************************************************************)
WindowResized ==
    /\ UiFree /\ pc = "idle"
    /\ current < Len(Size) /\ keys =< FewKeys
    /\ current' = current + 1
    /\ EnsureAndSend(<<Viewport(current + 1)>>)
    /\ UNCHANGED <<pc, tree, shown, queued, keys, server, faults>>

KeyboardInput ==
    /\ UiFree /\ pc = "idle"
    /\ current # None
    /\ keys < Len(Typed) /\ (keys < FewKeys \/ (current = 1 /\ faults = 0))
    /\ keys' = keys + 1
    /\ EnsureAndSend(<<Key(Typed[keys + 1])>>)
    /\ UNCHANGED <<current, pc, tree, shown, queued, server, faults>>

RedrawRequested ==
    /\ UiFree /\ pc = "idle"
    /\ ~queued
    /\ queued' = TRUE
    /\ EnsureAndSend(<<>>)
    /\ UNCHANGED <<current, pc, tree, shown, keys, server, faults>>

(* blocking_send: it waits for room; an error is logged and forgotten. *)
UiSend ==
    /\ outbox # <<>>
    /\ \/ SenderClosed("client", using) /\ UNCHANGED end
       \/ /\ ~SenderClosed("client", using)
          /\ HasRoom("client", using)
          /\ end' = [end EXCEPT !["client"][using].out = Append(@, Head(outbox))]
    /\ outbox' = Tail(outbox)
    /\ UNCHANGED <<attempts, inner, using, current, pc, tree, shown, queued, keys, server, faults>>

(***************************************************************************)
(* The timer's draw_frame: poll the channel; if a frame is queued, draw.   *)
(***************************************************************************)
PollEvents ==
    /\ UiFree /\ pc = "idle"
    /\ EnsureAndSend(<<>>)
    /\ pc' = IF using' = None THEN "redraw" ELSE "poll"
    /\ UNCHANGED <<current, tree, shown, queued, keys, server, faults>>

\* Mutant: a message does not queue a frame.
PeekAndProcess_QueuesNothing ==
    LET got == end["client"][using].in
        lost == end["client"][using].task = "ended"
    IN
    /\ tree' = CASE lost -> Blank
                 [] ~lost /\ got # <<>> -> got[Len(got)]
                 [] OTHER -> tree
    /\ queued' = queued
    /\ end' = [end EXCEPT !["client"][using].in = <<>>,
                          !["client"][using].held = ~lost]
    /\ using' = IF lost THEN None ELSE using

(* peek_and_process_events: take all there is; when the other end of the   *)
(* channel is gone as well, start over with an empty tree.                 *)
PeekAndProcess ==
    LET got == end["client"][using].in
        lost == end["client"][using].task = "ended"
    IN
    /\ tree' = CASE lost -> Blank
                 [] ~lost /\ got # <<>> -> got[Len(got)]
                 [] OTHER -> tree
    /\ queued' = (queued \/ got # <<>>)
    /\ end' = [end EXCEPT !["client"][using].in = <<>>,
                          !["client"][using].held = ~lost]
    /\ using' = IF lost THEN None ELSE using

Poll ==
    /\ UiFree /\ pc = "poll"
    /\ PeekAndProcess
    /\ pc' = "redraw"
    /\ UNCHANGED <<attempts, inner, current, outbox, shown, keys, server, faults>>

NothingQueued ==
    /\ pc = "redraw"
    /\ ~queued
    /\ pc' = "idle"
    /\ UNCHANGED <<end, attempts, inner, using, current, outbox, tree, shown, queued, keys, server, faults>>

(* The window is painted black, and without a connection it stays so. *)
ShouldDraw ==
    /\ pc = "redraw"
    /\ queued
    /\ queued' = FALSE
    /\ EnsureAndSend(<<>>)
    /\ shown' = IF using' = None THEN Blank ELSE shown
    /\ pc' = IF using' = None THEN "idle" ELSE "draw"
    /\ UNCHANGED <<current, tree, keys, server, faults>>

DrawFrame ==
    /\ UiFree /\ pc = "draw"
    /\ PeekAndProcess
    /\ shown' = tree'
    /\ pc' = "idle"
    /\ UNCHANGED <<attempts, inner, current, outbox, keys, server, faults>>

UiStep ==
    \/ UiSend \/ PollEvents \/ Poll \/ NothingQueued \/ ShouldDraw \/ DrawFrame

-----------------------------------------------------------------------------
(***************************************************************************)
(* The server: one listener at a time, dropped with its backlog when it    *)
(* has accepted a connection.                                              *)
(***************************************************************************)
Backlog == {c \in Conns : end["server"][c].task = "connected"}

Listen ==
    /\ up /\ ~listening
    /\ listening' = TRUE
    /\ UNCHANGED <<end, client, up, state, faults>>

Accept(c) ==
    LET closed == AllClosed("server", Backlog \ {c}) IN
    /\ listening
    /\ c \in Backlog
    /\ listening' = FALSE
    /\ end' = [closed EXCEPT !["server"][c].task = "running", !["server"][c].held = TRUE]
    /\ state' = [state EXCEPT ![c].status = "serving"]
    /\ UNCHANGED <<client, up, faults>>

(* sync_screen, with maintain_enclosure before it: the containers get the  *)
(* size of the viewport, and a transfer buffer is filled.                  *)
Synced(st, v) == [st EXCEPT !.viewport = v, !.sending = Frame(v)]

Leaving(c, status) ==
    /\ state' = [state EXCEPT ![c].status = status, ![c].sending = Blank]
    /\ end' = [end EXCEPT !["server"][c].held = FALSE, !["server"][c].in = <<>>]

(* Of the key events only an arrow that is pressed shows something else of *)
(* the document.                                                           *)
MovesDocument(m) == m.pressed /\ m.virtual_keycode = "Arrow"

(* handle_client_message: sync_screen needs the viewport. *)
HandleMessage(c) ==
    /\ state[c].status = "serving" /\ state[c].sending = Blank
    /\ end["server"][c].in # <<>>
    /\ LET m == Head(end["server"][c].in)
           v == IF m \in Keys THEN state[c].viewport ELSE m.viewport
           taken == [end EXCEPT !["server"][c].in = Tail(@)]
       IN \/ /\ m \in Keys /\ ~MovesDocument(m)
             /\ end' = taken
             /\ UNCHANGED state
          \/ /\ m \in Keys => MovesDocument(m)
             /\ v = None
             /\ Leaving(c, "panicked")
          \/ /\ m \in Keys => MovesDocument(m)
             /\ v # None
             /\ state' = [state EXCEPT ![c] = Synced(@, v)]
             /\ end' = taken
    /\ UNCHANGED <<client, up, listening, faults>>

(* transfer_messages_to_client: it waits for room; an error ends the loop. *)
TransferFrame(c) ==
    /\ state[c].sending # Blank
    /\ \/ SenderClosed("server", c) /\ Leaving(c, "gone")
       \/ /\ ~SenderClosed("server", c)
          /\ HasRoom("server", c)
          /\ end' = [end EXCEPT !["server"][c].out = Append(@, state[c].sending)]
          /\ state' = [state EXCEPT ![c].sending = Blank]
    /\ UNCHANGED <<client, up, listening, faults>>

(* recv() returns None. *)
LeaveLoop(c) ==
    /\ state[c].status = "serving" /\ state[c].sending = Blank
    /\ ReceiverFinished("server", c)
    /\ Leaving(c, "gone")
    /\ UNCHANGED <<client, up, listening, faults>>

Serve(c) == HandleMessage(c) \/ TransferFrame(c) \/ LeaveLoop(c)

ServerStops ==
    /\ up /\ faults < MaxFaults /\ keys =< FewKeys
    /\ up' = FALSE /\ listening' = FALSE /\ faults' = faults + 1
    /\ end' = ProcessEnds("server")
    /\ state' = [c \in Conns |-> IF state[c] = NoState THEN NoState
                                 ELSE [NoState EXCEPT !.status = "gone"]]
    /\ UNCHANGED client

ServerStarts ==
    /\ ~up
    /\ up' = TRUE
    /\ UNCHANGED <<end, client, listening, state, faults>>

-----------------------------------------------------------------------------
(* The window is closed, or the client crashes. *)
ClientExits ==
    /\ pc # "exited"
    /\ faults < MaxFaults /\ keys =< FewKeys
    /\ faults' = faults + 1
    /\ end' = ProcessEnds("client")
    /\ attempts' = 0 /\ inner' = EmptyShell /\ using' = None
    /\ outbox' = <<>> /\ pc' = "exited"
    /\ tree' = Blank /\ shown' = Blank /\ UNCHANGED <<current, queued>>
    /\ UNCHANGED <<keys, server>>

ClientStep ==
    \/ ConnectSucceeds
    \/ \E c \in Conns : StoreChannels(c)
    \/ WindowResized \/ KeyboardInput \/ RedrawRequested
    \/ UiStep
    \/ ClientExits

ServerStep ==
    \/ Listen
    \/ \E c \in Conns : Accept(c) \/ Serve(c)
    \/ ServerStops \/ ServerStarts

Next ==
    \/ \E s \in Sides, c \in Conns : BridgeStep(s, c) /\ UNCHANGED <<client, server, faults>>
    \/ ClientStep
    \/ ServerStep

Spec == Init /\ [][Next]_vars

(* The runtime polls every task that can go on, the timer fires sixty      *)
(* times a second, the network delivers, and a listening server accepts.   *)
(* Nothing makes a user act, a process end or a server start.              *)
Fairness ==
    /\ \A s \in Sides, c \in Conns :
         /\ WF_vars(SendHalf(s, c) /\ UNCHANGED <<client, server, faults>>)
         /\ WF_vars(ReceiveHalf(s, c) /\ UNCHANGED <<client, server, faults>>)
         /\ WF_vars(TaskEnds(s, c) /\ UNCHANGED <<client, server, faults>>)
         /\ WF_vars(ResetArrives(s, c) /\ UNCHANGED <<client, server, faults>>)
    /\ WF_vars(ConnectSucceeds) /\ \A c \in Conns : WF_vars(StoreChannels(c))
    /\ WF_vars(UiStep)
    /\ WF_vars(Listen)
    /\ \A c \in Conns : WF_vars(Accept(c)) /\ WF_vars(Serve(c))

FairSpec == Spec /\ Fairness

-----------------------------------------------------------------------------
(***************************************************************************)
(* Properties.                                                             *)
(***************************************************************************)
Connecting == {c \in Conns : end["client"][c].task = "connected"}

(* "Avoid multiple concurrent connection establishment functions": a task  *)
(* is connecting exactly while inner is None, there is one, and while the  *)
(* UI thread has channels inner is the empty shell that says so.           *)
OneConnection ==
    /\ attempts + Cardinality(Connecting) = IF inner = NoInner THEN 1 ELSE 0
    /\ using # None => inner = EmptyShell

(* maintain_enclosure unwraps the viewport: on every connection, also one  *)
(* made again while the user types, a viewport comes before any key.       *)
ViewportFirst == \A c \in Conns : state[c].status # "panicked"

(* What the client holds of a frame never goes back to an older viewport,  *)
(* whatever was on its way when a connection was lost and made again;      *)
(* it may only go blank.                                                   *)
NeverGoesBack ==
    [][tree' # Blank => tree.viewport <= tree'.viewport]_vars

(* A connection whose task has ended is given up by the UI thread, for     *)
(* good, so that another is made: there are only so many to lose, and at   *)
(* some point the last such connection has been used.                      *)
LossIsNoticed == <>[](using # None => ~SenderClosed("client", using))

Troubled ==
    \/ ~up \/ pc = "exited"
    \/ \E c \in Conns : end["client"][c].sock \in {"eof", "resetting", "reset", "shut"}
OutOfConns == attempts > 0 /\ Unused = {}

(* Everyone waits for the next one: the UI thread to send before it polls, *)
(* the server's state to send before it receives, and both ends of the     *)
(* bridge on a full socket with their send halves and on a full channel    *)
(* with their receive halves.                                              *)
Stuffed(s, c) ==
    /\ ~HasRoom(s, c)
    /\ end[s][c].send = "write" /\ SocketFull(s, c)
    /\ Len(end[s][c].in) = Cap

CircleClosed ==
    /\ outbox # <<>>
    /\ state[using].sending # Blank
    /\ \A s \in Sides : Stuffed(s, using)

(* blocking_send comes back, unless the connection is lost or the circle   *)
(* is closed: no less than all eight waits together stops the UI thread    *)
(* for good.                                                               *)
UiComesBack == outbox # <<>> ~> outbox = <<>> \/ Troubled \/ CircleClosed

(* The window shows a frame for the size it has in the end, through lost   *)
(* connections and restarts of the server, as long as its own connection   *)
(* is sound from some point on and the circle above is not closed.         *)
SizeIsShown ==
    current # None ~> \/ shown # Blank /\ Size[shown.viewport] = Size[current]
                      \/ Troubled \/ OutOfConns \/ CircleClosed

(* "Tell the sender that the connection has closed": once the peer has     *)
(* closed, and all it sent is read, the send half hears of it or the task  *)
(* is over.                                                                *)
CloseIsTold ==
    \A s \in Sides, c \in Conns :
        AtEndOfStream(s, c) ~> end[s][c].told \/ end[s][c].task = "ended"
=============================================================================
