------------------------------ MODULE BlockTree ------------------------------
(***************************************************************************)
(* What the client side block manager of helicoid-protocol promises to the *)
(* server that feeds it, without its data structures: a tree of blocks,    *)
(* each with the wire description it shows and the place it was last moved *)
(* to.  BlockManager implements this specification (see MapToTree there).  *)
(*                                                                         *)
(* A Block is a RenderBlockFullId: the id together with its parent path.   *)
(* Hence Parent and Ancestors are functions of the block, fixed for ever;  *)
(* what changes is which blocks are present.                               *)
(***************************************************************************)

CONSTANTS
    Block,          \* the full ids messages may name
    Top,            \* the empty parent path: the block of the client itself
    Parent,         \* the parent of every block: a block or Top
    Ancestors,      \* the proper ancestors of every block, Top left out
    Wire,           \* the values of RenderBlockDescription
    MetaWire,       \* those of them that are MetaBox descriptions
    Absent,         \* "no such block"
    Place,          \* a layer and a location in it
    Unplaced        \* a block that was sent but never moved anywhere

VARIABLES
    shown,          \* the description each block shows, or Absent
    place           \* the place each block has, or Unplaced

vars == <<shown, place>>

Present(b) == shown[b] # Absent

\* The subtree hanging below b, b itself left out.
Below(b) == {c \in Block : b \in Ancestors[c]}

\* Every box on the way to b is there, so a message about b has an addressee.
Addressable(b) == \A a \in Ancestors[b] : shown[a] \in MetaWire

Init ==
    /\ shown = [b \in Block |-> Absent]
    /\ place = [b \in Block |-> Unplaced]

\* A block is put at its full id.  It starts without children, but when one
\* was there before, it takes over that one's place.
Put(b, w) ==
    /\ Addressable(b)
    /\ shown' = [c \in Block |-> IF c = b THEN w
                                 ELSE IF c \in Below(b) THEN Absent
                                 ELSE shown[c]]
    /\ place' = [c \in Block |-> IF c \in Below(b) THEN Unplaced
                                 ELSE place[c]]

\* A block shows something new of the same kind; its children stay.
Change(b, w) ==
    /\ Present(b)
    /\ w \in MetaWire <=> shown[b] \in MetaWire
    /\ shown' = [shown EXCEPT ![b] = w]
    /\ UNCHANGED place

\* A block goes, and its subtree with it.
Remove(b) ==
    /\ Present(b)
    /\ shown' = [c \in Block |-> IF c \in Below(b) \cup {b} THEN Absent
                                 ELSE shown[c]]
    /\ place' = [c \in Block |-> IF c \in Below(b) \cup {b} THEN Unplaced
                                 ELSE place[c]]

\* A block that is there is moved.
Move(b, to) ==
    /\ Present(b)
    /\ place' = [place EXCEPT ![b] = to]
    /\ UNCHANGED shown

Clear ==
    /\ shown' = [b \in Block |-> Absent]
    /\ place' = [b \in Block |-> Unplaced]

Next ==
    \/ \E b \in Block, w \in Wire : Put(b, w)
    \/ \E b \in Block, w \in Wire : Change(b, w)
    \/ \E b \in Block : Remove(b)
    \/ \E b \in Block, to \in Place : Move(b, to)
    \/ Clear

Spec == Init /\ [][Next]_vars
==============================================================================
