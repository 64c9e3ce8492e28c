------------------------------ MODULE ScreenDraw ------------------------------
(***************************************************************************)
(* What the client draws while the frames of ScreenSync arrive: the walk   *)
(* over the layers of the block tree (block_manager.rs) and the pictures   *)
(* the renderer keeps of the boxes that are buffered (block_renderer.rs of *)
(* the client) and of all texts.  A kept picture is used again as long as  *)
(* the hash of the block is the same.  The hash goes through the lists the *)
(* boxes were sent with; the walk goes through the layers, which moves     *)
(* fill.                                                                   *)
(*                                                                         *)
(* A frame is several packets, one for each kind of change and each parent *)
(* path.  The window draws when its time has come, with the packets that   *)
(* have arrived until then, so it may draw in the middle of a frame.       *)
(***************************************************************************)
EXTENDS ScreenSync

CONSTANTS
    Buffered,       \* the boxes whose pictures are kept
    NotRendered     \* a block without a kept picture

\* The wire says of every box whether it is buffered.
ASSUME BufferedAssumption == Buffered \subseteq Boxes

\* "TODO: Get text buffered state from wire?": texts are buffered without asking.
Cached == Buffered \cup (Block \ Boxes)

VARIABLES
    sub_blocks,     \* the paragraphs in the last list for the center
    boundary,       \* what has been taken in: "frame", "packet" or "change"
    rendered        \* the kept picture of every block that is kept one, and its hash

drawVars == <<allVars, sub_blocks, boundary, rendered>>

NoParagraphs == [id \in {} |-> Home]
NothingRendered == [b \in Cached |-> NotRendered]

DrawInit ==
    /\ ScreenInit
    /\ sub_blocks = NoParagraphs
    /\ boundary = "frame"
    /\ rendered = NothingRendered

-----------------------------------------------------------------------------
(* The packets of a frame: the changes of one kind under one parent.  The  *)
(* moves come last.                                                        *)

SamePacket(c, d) == c.op = d.op /\ Parent[c.block] = Parent[d.block]

BoundaryAfter(changes) ==
    IF Len(changes) = 1 THEN "frame"
    ELSE IF changes[1].op = "move" /\ changes[2].op # "move" THEN "frame"
    ELSE IF SamePacket(changes[1], changes[2]) THEN "change" ELSE "packet"

-----------------------------------------------------------------------------
(* The hash of a box, by the lists.                                        *)

\* Mutant: the list says what is in a box, and not where.
SubBlocks_NoPlaces(b) ==
    CASE b = Enclosure  -> [c \in {Editor} |-> Home]
      [] b = Editor     -> [c \in {StatusLine, Center} |-> Home]
      [] b = StatusLine -> [c \in {Status} |-> Home]
      [] b = Center     -> [id \in DOMAIN sub_blocks |-> Home]

SubBlocks(b) ==
    CASE b = Enclosure  -> [c \in {Editor} |-> Home]
      [] b = Editor     -> [c \in {StatusLine, Center} |-> Home]
      [] b = StatusLine -> [c \in {Status} |-> Home]
      [] b = Center     -> sub_blocks

\* Mutant: the blocks in a box do not count, only its own description.
hash_block_recursively_Shallow(b) ==
    IF b \in Boxes THEN SubBlocks(b) ELSE shown[b]

\* A block that is listed and not there is hashed as such.
hash_block_recursively(b) ==
    LET hash[c \in Block] ==
            IF c \notin Boxes \/ ~Client!Present(c) THEN shown[c]
            ELSE [description |-> SubBlocks(c),
                  contents |-> [d \in DOMAIN SubBlocks(c) |-> hash[d]]]
    IN  hash[b]

description_hash(b) == <<place[b], hash_block_recursively(b)>>

-----------------------------------------------------------------------------
(* The picture of a box: the texts in it, each at its place.               *)

\* What is filed in the layers of a box.
InLayers(b) ==
    {c \in Block : Parent[c] = b /\ Client!Present(c) /\ place[c] # Unset}

\* A text, drawn at its place.
TextPicture(c) == {<<c, place[c], shown[c]>>}

\* The picture without regard to any that is kept.
Contents(b) ==
    LET picture[c \in Block] ==
            IF c \in Boxes THEN UNION {picture[d] : d \in InLayers(c)}
            ELSE TextPicture(c)
    IN  picture[b]

\* "the hash of the description matches the previously rendered contents"
Reused(b) ==
    /\ b \in Cached
    /\ rendered[b] # NotRendered
    /\ rendered[b].description_hash = description_hash(b)

\* process_block_recursively and render_cached: kept pictures are reused.  A
\* picture is drawn at the place of its block; that of a text is the text, and
\* that of a box has everything at its place in the box.
Picture(b) ==
    LET picture[c \in Block] ==
            IF c \notin Boxes
            THEN {<<c, place[c], IF Reused(c) THEN rendered[c].image ELSE shown[c]>>}
            ELSE IF Reused(c) THEN rendered[c].image
            ELSE UNION {picture[d] : d \in InLayers(c)}
    IN  picture[b]

\* A block is drawn when it and every box around it is in the layers, unless
\* the picture of one around it is reused.
Drawn(b) ==
    /\ \A c \in Ancestors[b] \cup {b} : c \in InLayers(Parent[c])
    /\ \A c \in Ancestors[b] : ~Reused(c)

\* The kept pictures in the one that is drawn of a box.
ReusedIn(b) == {c \in Buffered : (c = b \/ b \in Ancestors[c]) /\ Reused(c)}

\* History: the paragraphs in a picture that were left by an earlier connection,
\* and whether it is a picture of a whole frame without any, kept pictures in it
\* included.  Nothing in the code depends on them.
Strays(b) == UNION {rendered[c].strays : c \in ReusedIn(b)}

Whole(b) ==
    /\ boundary = "frame"
    /\ leftover = {}
    /\ \A c \in ReusedIn(b) : rendered[c].whole

Keep(b) ==
    IF b \in Boxes
    THEN [description_hash |-> description_hash(b), image |-> Picture(b),
          whole |-> Whole(b), strays |-> leftover \cup Strays(b)]
    ELSE [description_hash |-> description_hash(b), image |-> shown[b]]

\* draw_frame, between two packets.
DrawFrame ==
    /\ boundary # "change"
    /\ rendered' = [b \in Cached |-> IF Drawn(b) /\ ~Reused(b) THEN Keep(b)
                                   ELSE rendered[b]]
    /\ UNCHANGED <<allVars, sub_blocks, boundary>>

-----------------------------------------------------------------------------
(* The steps of the screen, with what they do to the renderer.             *)

Frame(text, resized) ==
    /\ sync_screen(text, resized)
    /\ UNCHANGED <<sub_blocks, boundary, rendered>>

\* The picture of a block is dropped with the block.
Take ==
    /\ ReceiveNew \/ ReceiveUpdate \/ ReceiveRemove \/ ReceiveMove \/ ReceiveInVain
    /\ boundary' = BoundaryAfter(channel)
    /\ sub_blocks' = IF Head(channel).op = "new" /\ HeadBlock = Center
                     THEN Head(channel).sub_blocks ELSE sub_blocks
    /\ rendered' = [b \in Cached |-> IF shown'[b] = Absent THEN NotRendered ELSE rendered[b]]

\* A tree that is kept is kept with its pictures, in the middle of a frame or not.
StartAgain ==
    /\ boundary # "change"
    /\ NextConnection
    /\ \/ /\ ResetTree
          /\ sub_blocks' = NoParagraphs
          /\ boundary' = "frame"
          /\ rendered' = NothingRendered
       \/ /\ KeepTree
          /\ UNCHANGED <<sub_blocks, boundary, rendered>>

DrawNext ==
    \/ \E text \in update_state, resized \in BOOLEAN : Frame(text, resized)
    \/ Take
    \/ StartAgain
    \/ DrawFrame

DrawSpec == DrawInit /\ [][DrawNext]_drawVars

-----------------------------------------------------------------------------
(* What the window shows.                                                  *)

\* Whatever is drawn in the middle of frames and kept, no text is on the
\* screen that its block does not have any more: the hash of a box takes in
\* the texts below it, those of paragraphs with a reused id included.  Only
\* the lines an earlier connection has left are drawn and not hashed: such a
\* line may still be seen in a picture of the time when it was there.
NoOldText ==
    boundary # "change" =>
        \A t \in Picture(Enclosure) : shown[t[1]] = t[3] \/ t[1] \in Strays(Enclosure)

\* A picture that was kept of a whole frame is reused for a frame only when
\* the frame looks the same: the lists that are hashed then say where the
\* moves have put things, although nothing but the moves is drawn from.  It may
\* be one of an earlier connection.
WholePicturesAreRight ==
    boundary = "frame" /\ leftover = {} =>
        \A b \in Buffered :
            Reused(b) /\ rendered[b].whole => rendered[b].image = Contents(b)

\* "Contents is already rendered, reuse the rendered image": when a frame has
\* arrived, the window shows it.
FrameIsShown ==
    boundary = "frame" => Picture(Enclosure) = Contents(Enclosure)
==============================================================================
