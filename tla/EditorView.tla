----------------------------- MODULE EditorView -----------------------------
(***************************************************************************)
(* The editor view around the center (helicoid-helixserver, editor_view.rs *)
(* and maintain_enclosure of server.rs): the client's window has a size    *)
(* and a scale factor, the view lays its boxes out in it, and the center   *)
(* fills what the status line leaves with the lines of the document.       *)
(* Every level keeps the sizes it has last seen, and skips what it has     *)
(* done for them.                                                          *)
(*                                                                         *)
(* Lengths are whole numbers, the unscaled sizes of the font even ones, so *)
(* that the status line, one and a half times as high as its text, has a   *)
(* whole height too.  Header and right margin, which stay empty, are left  *)
(* out.  A text comes with the font size it is laid out for, which its     *)
(* layout hash takes in.                                                   *)
(***************************************************************************)
EXTENDS CenterModel

CONSTANTS
    Window,             \* the sizes and scale factors a window may have
    Words, Blank,       \* what a line may say, and that it says nothing
    UNSCALED_FONT_SIZE,
    FontHeight,         \* ascent and descent of the font at that size
    LineAdvance,        \* ascent, descent and leading
    AverageWidth

ASSUME WindowAssumption ==
    Window \subseteq [width : Nat, height : Nat, scale_factor : Nat \ {0}]

ASSUME UnsetAssumption == Unset \notin Window \cup [width : Nat, height : Nat]

ASSUME FontAssumption ==
    /\ {UNSCALED_FONT_SIZE, FontHeight, LineAdvance} \subseteq Nat \ {0}
    /\ UNSCALED_FONT_SIZE % 2 = 0 /\ FontHeight % 2 = 0
    /\ AverageWidth \in Nat

VARIABLES
    viewport_size,      \* what the client has last said of its window
    enclosure,          \* the extent the enclosure was last sent with
    shaper_scale,       \* the scale factor of the shaper
    root,               \* the extent of the root block, and EditorModel
    statusline, left, center    \* the boxes in it

viewVars == <<viewport_size, enclosure, shaper_scale, root, statusline, left, center>>
editorVars == <<vars, viewVars>>

Extent(w, h) == [width |-> w, height |-> h]
NoExtent == Extent(0, 0)

\* EditorTree::new, EditorModel::new and StatusLineModel's default
NewRoot == [block |-> NoExtent, extent |-> NoExtent,
            scale |-> UNSCALED_FONT_SIZE, scale_factor |-> 1,
            scaled_font_size |-> UNSCALED_FONT_SIZE]

NewStatusLine ==
    [extent |-> NoExtent, y |-> 0, scaled_font_size |-> UNSCALED_FONT_SIZE]

ViewInit ==
    /\ viewport_size = Unset
    /\ enclosure = Unset
    /\ shaper_scale = 1
    /\ root = NewRoot
    /\ statusline = NewStatusLine
    /\ left = NoExtent
    /\ center = NoExtent

EditorInit == Init /\ ViewInit

-----------------------------------------------------------------------------
(* The boxes.                                                              *)

Larger(m, n) == IF m > n THEN m ELSE n

\* maintain_enclosure goes by a hash of the extent, without the scale factor.
Resized(v) == enclosure # Extent(v.width, v.height)

\* EditorTree::resize and set_scale_factor
resize(v) ==
    [root EXCEPT !.block = Extent(v.width, v.height),
                 !.scale_factor = v.scale_factor,
                 !.scaled_font_size = root.scale * v.scale_factor]

maintain_enclosure(v) ==
    /\ enclosure' = Extent(v.width, v.height)
    /\ shaper_scale' = IF Resized(v) THEN v.scale_factor ELSE shaper_scale

AfterResize(v) == IF Resized(v) THEN resize(v) ELSE root

OutOfDate(r) == r.block # r.extent \/ r.scale # FontHeight

\* Mutant: the center is laid out with the status line of the last layout.
layout_CenterFirst(r) ==
    /\ statusline' = [extent |-> Extent(r.extent.width, (3 * r.scaled_font_size) \div 2),
                      y |-> r.extent.height - (3 * r.scaled_font_size) \div 2,
                      scaled_font_size |-> r.scaled_font_size]
    /\ left' = Extent(AverageWidth * r.scale_factor, r.extent.height)
    /\ center' = Extent(Larger(0, r.extent.width - left.width),
                        Larger(0, r.extent.height - statusline.extent.height))

\* The status line at the bottom, one and a half times as high as its text,
\* the gutter one character wide, the center with what they leave.
layout(r) ==
    LET height == (3 * r.scaled_font_size) \div 2
        width  == AverageWidth * r.scale_factor
    IN  /\ statusline' = [extent |-> Extent(r.extent.width, height),
                          y |-> r.extent.height - height,
                          scaled_font_size |-> r.scaled_font_size]
        /\ left' = Extent(width, r.extent.height)
        /\ center' = Extent(Larger(0, r.extent.width - width),
                            Larger(0, r.extent.height - height))

\* EditorModel::pre_update, which runs before the boxes are updated.
LayOut(r) ==
    IF OutOfDate(r)
    THEN LET seen == [r EXCEPT !.extent = r.block, !.scale = FontHeight]
         IN  root' = seen /\ layout(seen)
    ELSE root' = r /\ UNCHANGED <<statusline, left, center>>

-----------------------------------------------------------------------------
(* The lines in the center.                                                *)

\* current_size
Size(scale) == UNSCALED_FONT_SIZE * scale

\* info: the line height of the font at the size the shaper has.
LineHeight(scale) == LineAdvance * scale

\* As many lines as start above the end of the center.
Rows(extent, scale) == (extent.height + LineHeight(scale) - 1) \div LineHeight(scale)

\* draw_grapheme: nothing is in the bounds of a center without width.
InBounds(extent) == extent.width > 0

Line_(extent) == IF InBounds(extent) THEN Words \cup {Blank} ELSE {Blank}

InView(extent, scale) ==
    UNION {[1 .. n -> Line_(extent) \X {Size(scale)}] :
             n \in 0 .. Smaller(MaxLines, Rows(extent, scale))}

-----------------------------------------------------------------------------

\* The update of a container: itself first, then what is in it.
update(r) ==
    /\ LayOut(r)
    /\ pre_update(<<Blank, Size(shaper_scale')>>, InView(center', shaper_scale'))

\* ServerState::sync_screen for a window: the enclosure, and the view in it.
sync_view(v) ==
    /\ maintain_enclosure(v)
    /\ update(AfterResize(v))

ViewportSizeUpdate ==
    \E v \in Window : viewport_size' = v /\ sync_view(v)

\* A key that moves the cursor, and with it the view: other lines of the
\* document, which others may have changed in the meantime.
KeyInputEvent ==
    /\ viewport_size # Unset
    /\ sync_view(viewport_size)
    /\ UNCHANGED viewport_size

\* The next client that connects gets a view of its own.
NewView ==
    /\ new_connection
    /\ viewport_size' = Unset
    /\ enclosure' = Unset
    /\ shaper_scale' = 1
    /\ root' = NewRoot
    /\ statusline' = NewStatusLine
    /\ left' = NoExtent
    /\ center' = NoExtent

EditorNext ==
    \/ ViewportSizeUpdate
    \/ KeyInputEvent
    \/ NewView

EditorSpec == EditorInit /\ [][EditorNext]_editorVars

-----------------------------------------------------------------------------
(* What a frame shows.                                                     *)

\* Whatever sizes the window had before, the boxes of a frame fill it: the
\* status line ends where the window does, and the center where the status
\* line begins; and no line begins below the center.
LinesEndAtStatus ==
    viewport_size # Unset =>
        /\ statusline.y + statusline.extent.height = viewport_size.height
        /\ statusline.y >= 0 => center.height = statusline.y
        /\ \A i \in DOMAIN client_layout :
            client_layout[i].location * LineHeight(shaper_scale) < center.height

\* All lines the client shows have the font size the shaper has now: no block
\* shaped for an earlier scale factor is taken over because it says the same.
OneSize ==
    \A id \in DOMAIN children : children[id].text[2] = Size(shaper_scale)
=============================================================================
