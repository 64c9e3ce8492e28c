----------------------------- MODULE CenterModel -----------------------------
(***************************************************************************)
(* The center of the editor view on the server (helicoid-helixserver,      *)
(* center.rs): the lines of the document as paragraphs, each a text block  *)
(* in a shadow container.  On every frame the document is laid out anew    *)
(* and matched with the paragraphs the client has: a line with the text of *)
(* one of them takes it over, together with its block id, the others get   *)
(* new ids.  Ids are slots of a vector; the slot of a paragraph that is    *)
(* gone is kept for MAX_AGE frames before its id is given out again.       *)
(*                                                                         *)
(* Ids are counted from 1 here, the code adds them to                      *)
(* CENTER_PARAGRAPH_BASE.  A text stands for its layout hash, a location   *)
(* for the number of the line.                                             *)
(***************************************************************************)
EXTENDS WrappingAge, Sequences, FiniteSets

CONSTANTS
    MAX_AGE,
    Text,           \* the texts of lines
    NoText,         \* the text of an empty line
    Free,           \* a slot of rendered_paragraphs that is None
    Unset,          \* a hash or a client location that is None
    MaxLines,       \* bound: the lines a viewport has room for
    MaxGeneration   \* bound: the frames of one connection

\* An age up to MAX_AGE + 1, which is 11 where a quarter is 2^14, can be told.
ASSUME AgeAssumption == MAX_AGE \in Nat /\ MAX_AGE + 1 =< Quarter
ASSUME FreeAssumption == Free \notin Word
ASSUME BoundsAssumption == MaxLines \in Nat \ {0} /\ MaxGeneration \in Nat

VARIABLES
    current_generation,
    rendered_paragraphs,    \* last_modified of every slot, or Free
    client_layout,          \* the paragraphs of the frame before, in vector order
    children,               \* the text blocks of the shadow container, by id
    pending_removal         \* the ids removed from it so far

vars == <<current_generation, rendered_paragraphs, client_layout, children,
          pending_removal>>

Line == 0 .. MaxLines - 1
Id == 1 .. Len(rendered_paragraphs)
Ids(entries) == {entries[i].id : i \in DOMAIN entries}

Init ==
    /\ current_generation = 0
    /\ rendered_paragraphs = <<>>
    /\ client_layout = <<>>
    /\ children = [id \in {} |-> Unset]
    /\ pending_removal = {}

-----------------------------------------------------------------------------
(* prune_old_render_paragraphs                                             *)

Age(slot) == wrapping_age(slot, current_generation)

TooOld(slot) == slot # Free /\ Age(slot) > MAX_AGE

Pruned == {id \in Id : TooOld(rendered_paragraphs[id])}

SlotsAfterPruning ==
    [id \in Id |-> IF id \in Pruned THEN Free ELSE rendered_paragraphs[id]]

SaturatingAdd(x, y) == IF x + y \in Word THEN x + y ELSE 4 * Quarter - 1

NextGeneration == SaturatingAdd(current_generation, 1)

-----------------------------------------------------------------------------
(* render_document and flush_line: a paragraph is flushed when the next    *)
(* line starts, so the first one is empty and the last line is not there.  *)

flush_line(text, line) == [text |-> text, location |-> line]

OfflineLayout(blank, lines) ==
    [i \in 1 .. Len(lines) |->
        flush_line(IF i = 1 THEN blank ELSE lines[i - 1], i - 1)]

-----------------------------------------------------------------------------
(* sync_client_view                                                        *)

\* Mutant: the last element goes, and the one to remove stays.
SwapRemove_DropsLast(s, i) == [j \in 1 .. Len(s) - 1 |-> s[j]]

SwapRemove(s, i) ==
    [j \in 1 .. Len(s) - 1 |-> IF j = i THEN s[Len(s)] ELSE s[j]]

SetMin(S) == CHOOSE x \in S : \A y \in S : x =< y

\* Mutant: ids are never given out again.
new_id_AtEnd(slots) == Len(slots) + 1

\* The first slot that is free, or one more at the end.
new_id(slots) ==
    IF \E id \in DOMAIN slots : slots[id] = Free
    THEN SetMin({id \in DOMAIN slots : slots[id] = Free})
    ELSE Len(slots) + 1

Occupy(slots, id, generation) ==
    IF id > Len(slots) THEN Append(slots, generation)
    ELSE [slots EXCEPT ![id] = generation]

\* Mutant: only a line that did not move is recognised.
SameText_SamePlace(entries, entry) ==
    {i \in DOMAIN entries : /\ entries[i].text = entry.text
                            /\ entries[i].location = entry.location}

\* Mutant: the layout hash does without the font size of a text that has one.
SameText_AnySize(entries, entry) ==
    {i \in DOMAIN entries : entries[i].text[1] = entry.text[1]}

SameText(entries, entry) == {i \in DOMAIN entries : entries[i].text = entry.text}

\* Mutant: the slot is not marked as used in this generation.
ReuseEntry_NotMarked(st, entry) ==
    LET i   == SetMin(SameText(st.existing, entry))
        old == st.existing[i]
    IN  [st EXCEPT
            !.existing = SwapRemove(@, i),
            !.layout   = Append(@, [text |-> entry.text, id |-> old.id,
                                    location |-> entry.location]),
            !.moved    = IF old.location # entry.location
                         THEN @ \cup {old.id} ELSE @]

\* The line takes over the first paragraph with its text: client_location is
\* where that one is at the client.
ReuseEntry(st, entry) ==
    LET i   == SetMin(SameText(st.existing, entry))
        old == st.existing[i]
    IN  [st EXCEPT
            !.existing = SwapRemove(@, i),
            !.slots    = Occupy(@, old.id, st.generation),
            !.layout   = Append(@, [text |-> entry.text, id |-> old.id,
                                    location |-> entry.location]),
            !.moved    = IF old.location # entry.location
                         THEN @ \cup {old.id} ELSE @]

\* There is none: the line gets an id, and a block with its text.
NewEntry(st, entry) ==
    LET id == new_id(st.slots)
    IN  [st EXCEPT
            !.slots   = Occupy(@, id, st.generation),
            !.layout  = Append(@, [text |-> entry.text, id |-> id,
                                   location |-> entry.location]),
            !.updated = @ \cup {id},
            !.moved   = @ \cup {id}]

MatchEntry(st, entry) ==
    IF SameText(st.existing, entry) # {} THEN ReuseEntry(st, entry)
    ELSE NewEntry(st, entry)

Unmatched ==
    [existing |-> client_layout, slots |-> SlotsAfterPruning,
     generation |-> NextGeneration, layout |-> <<>>, updated |-> {}, moved |-> {}]

\* The lines one after the other.
Matched(blank, lines) ==
    LET entries == OfflineLayout(blank, lines)
        matched[n \in 0 .. Len(entries)] ==
            IF n = 0 THEN Unmatched ELSE MatchEntry(matched[n - 1], entries[n])
    IN  matched[Len(entries)]

EntryOf(entries, id) == entries[CHOOSE i \in DOMAIN entries : entries[i].id = id]

\* remove_child
RemoveChildren(ids) == [id \in DOMAIN children \ ids |-> children[id]]

\* set_child with a new text block, which the client knows nothing of.
NewTextBlock(text) ==
    [text |-> text, location |-> 0,
     hash |-> Unset, client_hash |-> Unset, client_location |-> Unset]

\* set_child: a block that is there under the id already is replaced.
SetChildren(blocks, m) ==
    [id \in DOMAIN blocks \cup m.updated |->
        IF id \in m.updated THEN NewTextBlock(EntryOf(m.layout, id).text)
                            ELSE blocks[id]]

\* child_mut and location
MoveChildren(blocks, m) ==
    [id \in DOMAIN blocks |->
        IF id \in m.moved
        THEN [blocks[id] EXCEPT !.location = EntryOf(m.layout, id).location]
        ELSE blocks[id]]

\* The children after the leftovers were removed, the updated blocks set and
\* the moved ones moved, in that order.
ChildrenAfter(m) ==
    MoveChildren(SetChildren(RemoveChildren(Ids(m.existing) \cup Pruned), m), m)

\* Mutant: the client is not told of the paragraphs that are gone.
UpdateModel_ForgetsRemovals(m) ==
    /\ current_generation' = m.generation
    /\ rendered_paragraphs' = m.slots
    /\ client_layout' = m.layout
    /\ UNCHANGED pending_removal

\* Everything a frame does to the model, and to the list of removals.
UpdateModel(m) ==
    /\ current_generation' = m.generation
    /\ rendered_paragraphs' = m.slots
    /\ client_layout' = m.layout
    /\ pending_removal' = pending_removal \cup
         (DOMAIN children \cap (Ids(m.existing) \cup Pruned))

\* What is in view: lines, empty ones among them, or nothing in a window
\* without height.
Document == UNION {[1 .. n -> Text \cup {NoText}] : n \in 0 .. MaxLines}

\* What matching the lines of one of the documents with the paragraphs comes to.
Matches(blank, documents) == {Matched(blank, lines) : lines \in documents}

\* One frame: pre_update as a whole.
pre_update(blank, documents) ==
    /\ current_generation < MaxGeneration
    /\ \E m \in Matches(blank, documents) :
        UpdateModel(m) /\ children' = ChildrenAfter(m)

\* The next client that connects gets a model of its own.
new_connection ==
    /\ current_generation' = 0
    /\ rendered_paragraphs' = <<>>
    /\ client_layout' = <<>>
    /\ children' = [id \in {} |-> Unset]
    /\ pending_removal' = {}

-----------------------------------------------------------------------------
(* What the frames must keep right.                                        *)

\* The shadow container and the layout are two views of the same paragraphs:
\* no two of them share an id, and each has a block with its text and place.
\* An id handed out twice, or an entry paired with the wrong slot by the two
\* parallel swap_removes, would show one line in the place of another.
ChildrenMatchLayout ==
    /\ \A i, j \in DOMAIN client_layout :
        client_layout[i].id = client_layout[j].id => i = j
    /\ DOMAIN children = Ids(client_layout)
    /\ \A i \in DOMAIN client_layout :
        LET shown == children[client_layout[i].id]
        IN  /\ shown.text = client_layout[i].text
            /\ shown.location = client_layout[i].location

\* The unwraps of the next frame find what they unwrap: a paragraph in use has
\* a slot that is not old enough to be pruned before it is matched, and no
\* slot has become so old that its age cannot be told any more, or is
\* negative (debug_assert!(age >= 0)).
NextFrameUnwraps ==
    /\ \A id \in Ids(client_layout) : rendered_paragraphs[id] = current_generation
    /\ \A id \in Id : rendered_paragraphs[id] # Free =>
        Age(rendered_paragraphs[id]) # NoAge /\ Age(rendered_paragraphs[id]) >= 0

\* The lines of the frames of MAX_AGE + 2 generations.
MaxSlots == MaxLines * (MAX_AGE + 2)

\* "Anything unused for more than max age iterations gets pruned": what is
\* occupied after a frame was used in it or in one of the MAX_AGE + 1 before,
\* and a slot is only added when none is free, so however long a connection
\* lasts, there are never more of them, and ids stay as small.
UnusedIsPruned == Len(rendered_paragraphs) =< MaxSlots

Count(entries, t) == Cardinality({i \in DOMAIN entries : entries[i].text = t})

Smaller(m, n) == IF m < n THEN m ELSE n

TextOf(entries, id) == EntryOf(entries, id).text

Kept(t) == {id \in Ids(client_layout) \cap Ids(client_layout') :
                TextOf(client_layout, id) = t}

KeepsAllItCan ==
    /\ \A t \in Text \cup {NoText} :
        Cardinality(Kept(t)) = Smaller(Count(client_layout, t),
                                       Count(client_layout', t))
    /\ \A id \in Ids(client_layout) \cap Ids(client_layout') :
        TextOf(client_layout', id) = TextOf(client_layout, id)

\* A frame sends as little as it can: "if this entry is found, it is up to
\* date, so there is no reason to update the contents".  Of every text as many
\* blocks are kept as both frames have lines with it, and a block that is kept
\* keeps its text, in spite of ids being given out again.
ReusesAllItCan == [][KeepsAllItCan]_vars
==============================================================================
