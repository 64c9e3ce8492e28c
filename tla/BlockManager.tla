----------------------------- MODULE BlockManager -----------------------------
(***************************************************************************)
(* The client side block manager (helicoid-protocol, block_manager.rs) for *)
(* one client id.  It keeps the blocks the server sent in nested hash maps *)
(* and, in every container, a second structure for drawing: per layer the  *)
(* vector of the (id, location) pairs to draw.  Each child also remembers  *)
(* the layer it is filed under, so one fact is kept in two places and      *)
(* every handler has to keep the two in step.                              *)
(*                                                                         *)
(* A Block is a RenderBlockFullId, parent path and id.  A handler works on *)
(* the elements of a change one after the other; an action below is one    *)
(* iteration of that loop, so whatever holds after every action holds      *)
(* after every message, whatever its length.                               *)
(***************************************************************************)
EXTENDS Integers, Sequences

CONSTANTS
    Block, Top, Parent, Ancestors,      \* see BlockTree
    Wire, MetaWire, Absent,
    Layer, Loc,                         \* BlockLayer, PointF32
    NoLayer                             \* ContainerBlock::layer is None

ASSUME ParentAssumption == Parent \in [Block -> Block \cup {Top}]

ASSUME AncestorsAssumption ==
    /\ Ancestors \in [Block -> SUBSET Block]
    /\ \A b \in Block :
        Ancestors[b] = IF Parent[b] = Top THEN {}
                       ELSE {Parent[b]} \cup Ancestors[Parent[b]]
    /\ \A b \in Block : b \notin Ancestors[b]
    /\ \A b \in Block : \A a \in Ancestors[b] : Ancestors[a] \subseteq Ancestors[b]

ASSUME DistinctAssumption ==
    /\ Top \notin Block
    /\ Absent \notin Wire
    /\ NoLayer \notin Layer
    /\ MetaWire \subseteq Wire

VARIABLES
    entry,      \* Manager::containers has an entry for the client id
    wire,       \* MetaBlock::wire_description of every block, or Absent
    interior,   \* the blocks whose MetaBlock::container is Some
    layer,      \* ContainerBlock::layer of every block
    layers      \* InteriorBlockContainer::layers of every container

vars == <<entry, wire, interior, layer, layers>>

Container == Block \cup {Top}
Slot == [id : Block, loc : Loc]
NoSlots == [l \in Layer |-> <<>>]

TypeOK ==
    /\ entry \in BOOLEAN
    /\ wire \in [Block -> Wire \cup {Absent}]
    /\ interior \in SUBSET Block
    /\ layer \in [Block -> Layer \cup {NoLayer}]
    /\ layers \in [Container -> [Layer -> Seq(Slot)]]

Init ==
    /\ entry = FALSE
    /\ wire = [b \in Block |-> Absent]
    /\ interior = {}
    /\ layer = [b \in Block |-> NoLayer]
    /\ layers = [p \in Container |-> NoSlots]

Present(b) == wire[b] # Absent

Below(b) == {c \in Block : b \in Ancestors[c]}

\* resolve_block_mut for the parent path of b: every step of the path needs
\* a block with a container.  The empty path needs nothing, as
\* handle_block_update makes the entry for it.
Resolves(b) == Parent[b] # Top => entry /\ Ancestors[b] \subseteq interior

-----------------------------------------------------------------------------
(* The drawing layers of one container.                                    *)

Occurrences(s, b) == {i \in DOMAIN s : s[i].id = b}

FirstOccurrence(s, b) ==
    CHOOSE i \in Occurrences(s, b) : \A j \in Occurrences(s, b) : i =< j

\* Vec::swap_remove: the last element takes the place of the one removed.
SwapRemove(s, i) ==
    [j \in 1 .. Len(s) - 1 |-> IF j = i THEN s[Len(s)] ELSE s[j]]

RemoveFirst(s, b) ==
    IF Occurrences(s, b) = {} THEN s ELSE SwapRemove(s, FirstOccurrence(s, b))

\* Mutant: the location of the last entry is changed, whoever it belongs to.
RelocateFirst_Last(s, b, loc) ==
    IF Occurrences(s, b) = {} THEN s ELSE [s EXCEPT ![Len(s)].loc = loc]

\* Mutant: every entry of the layer gets the location.
RelocateFirst_All(s, b, loc) ==
    [i \in DOMAIN s |-> [id |-> s[i].id, loc |-> loc]]

RelocateFirst(s, b, loc) ==
    IF Occurrences(s, b) = {} THEN s
    ELSE [s EXCEPT ![FirstOccurrence(s, b)] = [id |-> b, loc |-> loc]]

\* Mutant: a layer is made for a block that was in none.
RemoveFromLayer_MakesLayer(ls, l, b) ==
    [m \in Layer \cup {l} |-> IF m \notin Layer THEN <<>>
                             ELSE IF m = l THEN RemoveFirst(ls[m], b) ELSE ls[m]]

RemoveFromLayer(ls, l, b) ==
    [m \in Layer |-> IF m = l THEN RemoveFirst(ls[m], b) ELSE ls[m]]

\* Mutant: the block stays in its old layer as well.
UpdateLocation_KeepsOld(ls, l, b, to, loc) ==
    IF l # to THEN [ls EXCEPT ![to] = Append(@, [id |-> b, loc |-> loc])]
    ELSE [ls EXCEPT ![to] = RelocateFirst(@, b, loc)]

UpdateLocation(ls, l, b, to, loc) ==
    IF l # to
    THEN [RemoveFromLayer(ls, l, b) EXCEPT
              ![to] = Append(@, [id |-> b, loc |-> loc])]
    ELSE [ls EXCEPT ![to] = RelocateFirst(@, b, loc)]

-----------------------------------------------------------------------------
(* The handlers.                                                           *)

\* Mutant: only the children lose their marks, not what is below them.
DropBelow_ChildrenOnly(b) ==
    /\ layer' = [c \in Block |-> IF Parent[c] = b THEN NoLayer ELSE layer[c]]
    /\ layers' = [p \in Container |-> IF p \in Below(b) \cup {b} THEN NoSlots
                                      ELSE layers[p]]

\* What a block contained is dropped with the old value of the block, all the
\* way down: the marks of the children and the layers of the containers.
DropBelow(b) ==
    /\ layer' = [c \in Block |-> IF c \in Below(b) THEN NoLayer ELSE layer[c]]
    /\ layers' = [p \in Container |-> IF p \in Below(b) \cup {b} THEN NoSlots
                                      ELSE layers[p]]

\* NewRenderBlocks with "update" set, for a block that is there: only the
\* description is replaced, never the container.  The servers keep a block's
\* kind for as long as they use its id, which is the last conjunct.
UpdateBlock(b, w) ==
    /\ Resolves(b)
    /\ Present(b)
    /\ entry' = TRUE
    /\ wire' = [wire EXCEPT ![b] = w]
    /\ UNCHANGED <<interior, layer, layers>>
    /\ w \in MetaWire <=> wire[b] \in MetaWire

\* Mutant: a box replaced by something else keeps its container.
AddBlock_KeepsContainer(b, w, update) ==
    /\ Resolves(b)
    /\ update => ~Present(b)
    /\ entry' = TRUE
    /\ wire' = [c \in Block |-> IF c = b THEN w
                                ELSE IF c \in Below(b) THEN Absent
                                ELSE wire[c]]
    /\ interior' = (interior \ Below(b)) \cup (IF w \in MetaWire THEN {b} ELSE {})
    /\ DropBelow(b)

\* NewRenderBlocks otherwise: a new block value, with an empty container when
\* it is a box, takes the key.  "Bring the layer of the old block over."
AddBlock(b, w, update) ==
    /\ Resolves(b)
    /\ update => ~Present(b)
    /\ entry' = TRUE
    /\ wire' = [c \in Block |-> IF c = b THEN w
                                ELSE IF c \in Below(b) THEN Absent
                                ELSE wire[c]]
    /\ interior' = (interior \ (Below(b) \cup {b}))
                      \cup (IF w \in MetaWire THEN {b} ELSE {})
    /\ DropBelow(b)

\* RemoveRenderBlocks, mask 0: the block leaves the map and its layer.
RemoveBlock(b) ==
    /\ Resolves(b)
    /\ Present(b)
    /\ entry' = TRUE
    /\ wire' = [c \in Block |-> IF c \in Below(b) \cup {b} THEN Absent
                                ELSE wire[c]]
    /\ interior' = interior \ (Below(b) \cup {b})
    /\ layer' = [c \in Block |-> IF c \in Below(b) \cup {b} THEN NoLayer
                                 ELSE layer[c]]
    /\ layers' = [p \in Container |->
                    IF p \in Below(b) \cup {b} THEN NoSlots
                    ELSE IF p = Parent[b]
                         THEN RemoveFromLayer(layers[p], layer[b], b)
                         ELSE layers[p]]

\* MoveBlockLocations: file the block under the layer named, or only change
\* its location when it is there already.
MoveBlock(b, to, loc) ==
    /\ Resolves(b)
    /\ Present(b)
    /\ entry' = TRUE
    /\ layer' = [layer EXCEPT ![b] = to]
    /\ layers' = [layers EXCEPT
                    ![Parent[b]] = UpdateLocation(@, layer[b], b, to, loc)]
    /\ UNCHANGED <<wire, interior>>

\* A removal or a move of a block that is not there, or a change without
\* elements: for the empty path the entry is made all the same.
NothingToDo(b) ==
    /\ Resolves(b)
    /\ entry' = TRUE
    /\ UNCHANGED <<wire, interior, layer, layers>>

\* The parent path leads nowhere: the change is logged and dropped.
DropChange(b) ==
    /\ ~Resolves(b)
    /\ UNCHANGED vars

\* The client lost the server: Manager::reset, or a new Manager.
Reset ==
    /\ entry' = FALSE
    /\ wire' = [b \in Block |-> Absent]
    /\ interior' = {}
    /\ layer' = [b \in Block |-> NoLayer]
    /\ layers' = [p \in Container |-> NoSlots]

Next ==
    \/ \E b \in Block, w \in Wire : UpdateBlock(b, w)
    \/ \E b \in Block, w \in Wire, update \in BOOLEAN : AddBlock(b, w, update)
    \/ \E b \in Block : RemoveBlock(b)
    \/ \E b \in Block, to \in Layer, loc \in Loc : MoveBlock(b, to, loc)
    \/ \E b \in Block : NothingToDo(b)
    \/ \E b \in Block : DropChange(b)
    \/ Reset

Spec == Init /\ [][Next]_vars

-----------------------------------------------------------------------------
(* What the drawing code and the server rely on.                           *)

Ids(s) == {s[i].id : i \in DOMAIN s}

Distinct(s) == \A i, j \in DOMAIN s : s[i].id = s[j].id => i = j

\* The two records of where a block is drawn agree after every change: the
\* layer vectors of a container name exactly its placed children, each once,
\* in the layer the child itself is marked with.  This is what
\* process_block_recursively asserts ("Duplicates in layers while
\* rendering"), and more: a block in two layers is drawn twice, one in none
\* disappears, and a swap_remove of the wrong index does both.
LayersConsistent ==
    \A p \in Container, l \in Layer :
        /\ Ids(layers[p][l]) = {b \in Block : Parent[b] = p /\ layer[b] = l}
        /\ Distinct(layers[p][l])

\* A block that shows a box has the container drawing it expects ("Expecting
\* block to have container if wire description has children"), and hangs on a
\* path of blocks that have one, back to the entry of the client: no handler
\* leaves part of a subtree behind.
ContainersPresent ==
    /\ \A b \in Block : wire[b] \in MetaWire <=> b \in interior
    /\ \A b \in Block : Present(b) => entry /\ Ancestors[b] \subseteq interior

\* Nothing remains of a block that is gone: neither its mark nor, if it was a
\* box, the layers of what it contained.
NothingLeftBehind ==
    /\ \A b \in Block : ~Present(b) => layer[b] = NoLayer
    /\ \A b \in Block : b \notin interior => layers[b] = NoSlots

\* Where a block is drawn, read off the layer vectors.
PlaceOf(b) ==
    IF layer[b] = NoLayer THEN NoLayer
    ELSE LET slots == layers[Parent[b]][layer[b]]
         IN  <<layer[b], slots[FirstOccurrence(slots, b)].loc>>

Tree == INSTANCE BlockTree WITH
            shown <- wire, place <- [b \in Block |-> PlaceOf(b)],
            Place <- Layer \X Loc, Unplaced <- NoLayer

\* The manager implements the block tree: hidden behind the maps, the layer
\* vectors and the carried-over marks, each change does to the one tree the
\* server thinks of what it says, and nothing to any other block.
ImplementsTree == Tree!Spec

\* Each handler is the change of the tree that its message names, not merely
\* one the tree allows: an update of a block that is there keeps what it
\* contains, a replacement drops all of it but stays where it was drawn, and
\* a removal or a move in the layer vectors never touches a sibling.
DoesWhatItSays ==
    [][\A b \in Block :
        /\ \A w \in Wire :
            /\ UpdateBlock(b, w) => Tree!Change(b, w)
            /\ \A update \in BOOLEAN : AddBlock(b, w, update) => Tree!Put(b, w)
        /\ RemoveBlock(b) => Tree!Remove(b)
        /\ \A to \in Layer, loc \in Loc :
            MoveBlock(b, to, loc) => Tree!Move(b, <<to, loc>>)]_vars
==============================================================================
