------------------------------ MODULE ScreenSync ------------------------------
(***************************************************************************)
(* One server connection and its client, from a frame of the editor to the *)
(* tree of blocks on the screen.  The server half is the center of the     *)
(* editor view (CenterModel), the text of the status line, and the way the *)
(* shadow blocks turn their state into messages (shadowblocks.rs,          *)
(* transferbuffer.rs, server.rs); the client half is the block tree that   *)
(* the block manager implements (BlockTree).  Between them is the TCP      *)
(* connection, which delivers in order.                                    *)
(*                                                                         *)
(* The client takes in the blocks of one message one after the other; as   *)
(* in BlockManager, an action of the client is one of them.                *)
(***************************************************************************)
EXTENDS CenterModel, SequencesExt

CONSTANTS
    Enclosure, Editor, Center, StatusLine,  \* the boxes on the way to the texts
    Status,             \* the left text of the status line
    StatusText,         \* what it may say
    Box,                \* the description of a box
    Home,               \* the place of everything that is not a paragraph
    Top, Absent,
    MaxBacklog,         \* bound: the messages on their way when a frame starts
    MaxOldFrames        \* bound: the frames of earlier connections in a tree that is kept

\* The ids of the boxes and of the status text are not those of paragraphs, and
\* the top is none of the boxes.
ASSUME IdsAssumption ==
    /\ Enclosure \notin {Editor, Center, StatusLine, Status}
    /\ Editor \notin {Center, StatusLine, Status}
    /\ Center \notin {StatusLine, Status}
    /\ StatusLine # Status
    /\ {Enclosure, Editor, Center, StatusLine, Status} \cap Nat = {}
    /\ Top \notin {Enclosure, Editor, Center, StatusLine}

ASSUME ContentsAssumption ==
    /\ Box \notin Text \cup StatusText \cup {NoText}
    /\ Absent \notin Text \cup StatusText \cup {NoText, Box}
    /\ Unset \notin Text \cup {NoText, Home} \cup Nat

VARIABLES
    status,             \* the shadow text block of the status line
    enclosed,           \* the enclosure has been sent, for the size of the window
    channel,            \* the changes on their way, oldest first
    shown, place,       \* the client's tree
    old_frames,         \* history: the frames of earlier connections that the tree has
                        \* gone through without a reset
    leftover            \* history: the paragraphs in it that one of them has left
                        \* there and no change of this connection has named

serverVars == <<vars, status, enclosed>>
clientVars == <<shown, place>>
history == <<old_frames, leftover>>
allVars == <<serverVars, channel, clientVars, history>>

-----------------------------------------------------------------------------
(* The ids both sides use.                                                 *)

Paragraph == 1 .. MaxSlots

Boxes == {Enclosure, Editor, Center, StatusLine}
Block == Boxes \cup {Status} \cup Paragraph

Parent ==
    [b \in Block |-> CASE b = Enclosure -> Top
                       [] b = Editor -> Enclosure
                       [] b \in {Center, StatusLine} -> Editor
                       [] b = Status -> StatusLine
                       [] OTHER -> Center]

Ancestors ==
    [b \in Block |-> CASE b = Enclosure -> {}
                       [] b = Editor -> {Enclosure}
                       [] b \in {Center, StatusLine} -> {Enclosure, Editor}
                       [] b = Status -> {Enclosure, Editor, StatusLine}
                       [] OTHER -> {Enclosure, Editor, Center}]

Client == INSTANCE BlockTree WITH
            Wire <- Text \cup StatusText \cup {NoText, Box}, MetaWire <- {Box},
            Place <- Line \cup {Home}, Unplaced <- Unset

-----------------------------------------------------------------------------
(* What a frame sends.                                                     *)

NewChange(b, w) == [op |-> "new", block |-> b, wire |-> w]

\* A box is sent with the list of what is in it, and of where: sub_blocks.  The
\* one list that changes is that of the paragraphs in the center.
BoxChange(b, blocks) ==
    IF b = Center
    THEN [op |-> "new", block |-> b, wire |-> Box,
          sub_blocks |-> [id \in DOMAIN blocks |-> blocks[id].location]]
    ELSE NewChange(b, Box)

MoveChange(b, p) == [op |-> "move", block |-> b, to |-> p]
RemoveChange(b) == [op |-> "remove", block |-> b]

\* ShadowMetaTextBlock: the hash is only computed when there is none yet.
Hashed(tb) == IF tb.hash = Unset THEN [tb EXCEPT !.hash = tb.text] ELSE tb

\* Mutant: a block is up to date when its text is.
UpToDate_Text(tb) == Hashed(tb).hash = tb.client_hash

UpToDate(tb) ==
    /\ Hashed(tb).hash = tb.client_hash
    /\ tb.location = tb.client_location

\* client_transfer_messages of a text block, which sends the text and the
\* location unless both are up to date.
Transfer(tb) ==
    IF UpToDate(tb) THEN Hashed(tb)
    ELSE [Hashed(tb) EXCEPT !.client_hash = Hashed(tb).hash,
                            !.client_location = tb.location]

\* The hash stays what it was.
set_wire(tb, text) == [tb EXCEPT !.text = text]

\* What the mode of the editor, the name of the file, whether it is modified
\* and the diagnostics say: any of the texts, whatever it was a frame ago.
update_state == StatusText

\* StatusLineModel::pre_update shapes the text on every frame: the hash of what
\* was rendered, which is to spare it, is never kept.
render_string(st, text) == [set_wire(st, text) EXCEPT !.location = Home]

\* Boxes have no hash of what the client knows, so they are sent every time; the
\* enclosure only when it is new or the window was resized.
BoxesSent(resized) ==
    IF enclosed /\ ~resized THEN <<Editor, StatusLine, Center>>
    ELSE <<Enclosure, Editor, StatusLine, Center>>

TextsSent(blocks, st) ==
    SetToSeq({id \in DOMAIN blocks : ~UpToDate(blocks[id])})
      \o (IF UpToDate(st) THEN <<>> ELSE <<Status>>)

\* All that was ever removed, in every frame.
Removals(removed) ==
    LET gone == SetToSeq(removed) IN [i \in DOMAIN gone |-> RemoveChange(gone[i])]

NewBoxes(boxes, blocks) == [i \in DOMAIN boxes |-> BoxChange(boxes[i], blocks)]

BoxMoves(boxes) == [i \in DOMAIN boxes |-> MoveChange(boxes[i], Home)]

TextBlock(b, blocks, st) == IF b = Status THEN st ELSE blocks[b]

NewTexts(texts, blocks, st) ==
    [i \in DOMAIN texts |-> NewChange(texts[i], TextBlock(texts[i], blocks, st).text)]

TextMoves(texts, blocks, st) ==
    [i \in DOMAIN texts |-> MoveChange(texts[i], TextBlock(texts[i], blocks, st).location)]

\* Mutant: the contents are pushed before the boxes around them.
Messages_ContentsFirst(blocks, removed, st, resized) ==
    LET boxes == BoxesSent(resized)
        texts == TextsSent(blocks, st)
    IN  Removals(removed) \o NewTexts(texts, blocks, st) \o NewBoxes(boxes, blocks)
        \o BoxMoves(boxes) \o TextMoves(texts, blocks, st)

\* The transfer buffer holds the changes by kind, and the changes of one kind by
\* the path of the parent, the shorter path first.
Messages(blocks, removed, st, resized) ==
    LET boxes == BoxesSent(resized)
        texts == TextsSent(blocks, st)
    IN  Removals(removed) \o NewBoxes(boxes, blocks) \o NewTexts(texts, blocks, st)
        \o BoxMoves(boxes) \o TextMoves(texts, blocks, st)

-----------------------------------------------------------------------------

Nothing == [b \in Block |-> Absent]
Nowhere == [b \in Block |-> Unset]

NewStatus(text) == [NewTextBlock(text) EXCEPT !.location = Home]

ScreenInit ==
    /\ Init
    /\ status \in {NewStatus(t) : t \in StatusText}
    /\ enclosed = FALSE
    /\ channel = <<>>
    /\ shown = Nothing
    /\ place = Nowhere
    /\ old_frames = 0
    /\ leftover = {}

\* ServerState::sync_screen: the trees are updated, then everything that is
\* outstanding is put in one transfer buffer and sent, the enclosure only when
\* it is new or the window has another size.
sync_screen(text, resized) ==
    /\ current_generation < MaxGeneration
    /\ Len(channel) =< MaxBacklog
    /\ \E m \in Matches(NoText, Document) :
        /\ UpdateModel(m)
        /\ \E blocks \in {ChildrenAfter(m)}, st \in {render_string(status, text)} :
            /\ children' = [id \in DOMAIN blocks |-> Transfer(blocks[id])]
            /\ status' = Transfer(st)
            /\ channel' = channel \o Messages(blocks, pending_removal', st, resized)
    /\ enclosed' = TRUE
    /\ UNCHANGED <<clientVars, history>>

-----------------------------------------------------------------------------
(* The client: one change of the oldest message.                           *)

Receive(op) ==
    /\ channel # <<>>
    /\ Head(channel).op = op
    /\ channel' = Tail(channel)
    /\ leftover' = leftover \ {Head(channel).block}
    /\ UNCHANGED <<serverVars, old_frames>>

HeadBlock == Head(channel).block

\* "update" is set in every message of a server: only the description of a
\* block that is there is replaced.
ReceiveNew ==
    /\ Receive("new")
    /\ ~Client!Present(HeadBlock)
    /\ Client!Put(HeadBlock, Head(channel).wire)

ReceiveUpdate ==
    /\ Receive("new")
    /\ Client!Change(HeadBlock, Head(channel).wire)

ReceiveRemove ==
    /\ Receive("remove")
    /\ Client!Remove(HeadBlock)

ReceiveMove ==
    /\ Receive("move")
    /\ Client!Move(HeadBlock, Head(channel).to)

\* A removal of a block that is not there, or a path that leads nowhere.
ReceiveInVain ==
    /\ \E op \in {"new", "move", "remove"} : Receive(op)
    /\ ~Client!Present(HeadBlock)
    /\ Head(channel).op = "new" => ~Client!Addressable(HeadBlock)
    /\ UNCHANGED clientVars

\* peek_and_process_events finds the receiver disconnected: "Reset contents of
\* manager as the client has disconnected".
ResetTree ==
    /\ Client!Clear
    /\ old_frames' = 0
    /\ leftover' = {}

\* ensure_connected finds the sender closed, and drops both channels: nothing is
\* done to the tree, which the next server goes on with.
KeepTree ==
    /\ old_frames + current_generation =< MaxOldFrames
    /\ old_frames' = old_frames + current_generation
    /\ leftover' = {id \in Paragraph : Client!Present(id)}
    /\ UNCHANGED clientVars

\* The connection ends, with what is on its way, and a new one is made.  The
\* server has a state for every connection.
NextConnection ==
    /\ new_connection
    /\ status' \in {NewStatus(t) : t \in StatusText}
    /\ enclosed' = FALSE
    /\ channel' = <<>>

Reconnect == NextConnection /\ (ResetTree \/ KeepTree)

ScreenNext ==
    \/ \E text \in update_state, resized \in BOOLEAN : sync_screen(text, resized)
    \/ ReceiveNew
    \/ ReceiveUpdate
    \/ ReceiveRemove
    \/ ReceiveMove
    \/ ReceiveInVain
    \/ Reconnect

ScreenSpec == ScreenInit /\ [][ScreenNext]_allVars

-----------------------------------------------------------------------------
(* What the two sides are to each other.                                   *)

\* No message is dropped for want of an addressee ("Push contents after the
\* outside block, to ensure that the client knows about them"): when a block
\* arrives, every box on its path has, and when a move arrives, its block has,
\* whatever was removed in between.
NothingSentTooEarly ==
    channel # <<>> =>
        /\ Client!Addressable(Head(channel).block)
        /\ Head(channel).op = "move" => Client!Present(Head(channel).block)

\* Whatever the screen shows of a paragraph that is not so any more, a message
\* about it is on its way.  Ids are reused, blocks are moved without being
\* sent again, and removals are repeated with every frame; all the same, no
\* line of an older document stays on the screen for good, nor under a new id.
\* The lines that do stay are those that a connection before this one has left
\* in a tree that was not reset: as soon as this one names them, they are as
\* good as any.
StaleLinesGoAway ==
    \A id \in Paragraph \ leftover : Client!Present(id) =>
        \/ id \in DOMAIN children /\ shown[id] = children[id].text
        \/ \E i \in DOMAIN channel :
            channel[i].block = id /\ channel[i].op \in {"new", "remove"}

Arrived(id) ==
    shown[id] = children[id].text /\ place[id] = children[id].location

\* When everything sent has arrived, the screen has every line of the document
\* at its place, except lines whose id has been given out before.
FirstUsesArrive ==
    channel = <<>> =>
        \A id \in DOMAIN children \ pending_removal : Arrived(id)

\* "Make messages that transfers all outstanding state to client": when all
\* messages have arrived, the screen has every line of the document.
AllLinesArrive == channel = <<>> => \A id \in DOMAIN children : Arrived(id)

\* The same of the text of the status line, once a frame has been sent.
StatusArrives == channel = <<>> /\ enclosed => shown[Status] = status.text
==============================================================================
