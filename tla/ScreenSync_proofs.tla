------------------------- MODULE ScreenSync_proofs -------------------------
(***************************************************************************)
(* Proofs about ScreenSync and ScreenDraw: the screen of the client while  *)
(* frames of the server are on their way to it.                            *)
(*                                                                         *)
(* What a change meets at the client depends on everything that was sent   *)
(* before it and has not arrived, so the properties are not inductive.     *)
(* The invariant ScreenInv relates the three places a block is at: the     *)
(* shadow container of the server (CenterInv, from EditorView_proofs), the *)
(* tree of the client (TreeInv) and, position by position, the channel     *)
(* between them (ChannelInv): what leads a change, what follows a          *)
(* removal, and which text and which place is the last that is said of a   *)
(* paragraph.                                                              *)
(*                                                                         *)
(* A frame is five sequences one after the other: the removals, the new    *)
(* boxes, the new texts, the moves of the boxes and those of the texts.    *)
(* The lemmas on the parts say what each holds, MessagesAre puts them      *)
(* together, and FrameKeepsChannelInv and ReceiveKeepsInv are the two      *)
(* kinds of steps.                                                         *)
(*                                                                         *)
(* The pictures of ScreenDraw are hashed from lists that come before the   *)
(* moves which fill the layers they are drawn from.  AheadInv foresees the *)
(* tree, change by change, through all that is in the channel, and         *)
(* PicturesKept says that every kept picture is one of some tree with the  *)
(* hash it is kept under.                                                  *)
(*                                                                         *)
(* MaxGeneration \in Word says that a connection has no more frames than   *)
(* the generation, a word, can count: the ids of paragraphs are not        *)
(* reclaimed as they should be once it wraps around.                       *)
(***************************************************************************)
EXTENDS ScreenDraw, EditorView_proofs

-----------------------------------------------------------------------------
(* Sequences.                                                              *)

\* A finite set as a sequence has all of its elements.
LEMMA SetToSeqIs ==
    ASSUME NEW S, IsFiniteSet(S)
    PROVE  /\ SetToSeq(S) \in Seq(S)
           /\ \A x \in S : \E i \in DOMAIN SetToSeq(S) : SetToSeq(S)[i] = x
<1> DEFINE n == Cardinality(S)
           f == SetToSeq(S)
<1>1. n \in Nat /\ ExistsBijection(1 .. n, S)
    BY FS_CardinalityType
<1>2. PICK g : g \in Bijection(1 .. n, S)
    BY <1>1 DEF ExistsBijection
<1>3. g \in [1 .. n -> S] /\ IsInjective(g)
    BY <1>2 DEF Bijection, Injection, IsInjective
<1>4. f \in [1 .. n -> S] /\ IsInjective(f)
    <2>1. \E h \in [1 .. n -> S] : IsInjective(h)
        BY <1>3
    <2>. QED
        BY <2>1, Zenon DEF SetToSeq
<1> HIDE DEF f
<1>5. f \in Injection(1 .. n, S)
    BY <1>4 DEF Injection, IsInjective
<1>6. IsFiniteSet(1 .. n) /\ Cardinality(1 .. n) = n
    BY <1>1, FS_Interval
<1>7. f \in Surjection(1 .. n, S)
    BY <1>5, <1>6, FS_Injection
<1>8. f \in Seq(S) /\ DOMAIN f = 1 .. n
    BY <1>1, <1>4
<1>. QED
    BY <1>7, <1>8 DEF Surjection, f

\* Two sequences, one after the other.
LEMMA ConcatIs ==
    ASSUME NEW S, NEW s \in Seq(S), NEW t \in Seq(S)
    PROVE  /\ s \o t \in Seq(S)
           /\ Len(s \o t) = Len(s) + Len(t)
           /\ \A i \in 1 .. Len(s) : (s \o t)[i] = s[i]
           /\ \A i \in 1 .. Len(t) : (s \o t)[Len(s) + i] = t[i]
OBVIOUS

-----------------------------------------------------------------------------
(* The changes on their way.                                               *)

TextWire == Text \cup StatusText \cup {NoText}

Lists == UNION {[ids -> Nat] : ids \in SUBSET Paragraph}

Change_ ==
    [op : {"new"}, block : Boxes \ {Center}, wire : {Box}]
    \cup [op : {"new"}, block : {Center}, wire : {Box}, sub_blocks : Lists]
    \cup [op : {"new"}, block : Block \ Boxes, wire : TextWire]
    \cup [op : {"move"}, block : Block, to : Nat \cup {Home}]
    \cup [op : {"remove"}, block : Paragraph]

At(c, i, op, b) == i \in DOMAIN c /\ c[i].op = op /\ c[i].block = b

LEMMA ChangeIs ==
    ASSUME NEW c \in Change_
    PROVE  /\ c.op \in {"new", "move", "remove"}
           /\ c.block \in Block
           /\ c.op = "new" => \/ c.block \in Boxes /\ c.wire = Box
                              \/ c.block \in Block \ Boxes /\ c.wire \in TextWire
           /\ c.op = "remove" => c.block \in Paragraph
           /\ c.op = "move" => c.to \in Nat \cup {Home}
<1>1. CASE c \in [op : {"new"}, block : Boxes \ {Center}, wire : {Box}]
    BY <1>1 DEF Block, Boxes
<1>2. CASE c \in [op : {"new"}, block : {Center}, wire : {Box}, sub_blocks : Lists]
    BY <1>2 DEF Block, Boxes
<1>3. CASE c \in [op : {"new"}, block : Block \ Boxes, wire : TextWire]
    BY <1>3
<1>4. CASE c \in [op : {"move"}, block : Block, to : Nat \cup {Home}]
    BY <1>4
<1>5. CASE c \in [op : {"remove"}, block : Paragraph]
    BY <1>5 DEF Block
<1>. QED
    BY <1>1, <1>2, <1>3, <1>4, <1>5 DEF Change_

LEMMA BlocksAre ==
    /\ MaxSlots \in Nat
    /\ Paragraph \cap Boxes = {} /\ Status \notin Paragraph /\ Status \notin Boxes
    /\ \A b \in Block : Ancestors[b] \subseteq Boxes
    /\ \A id \in Paragraph : Ancestors[id] = {Enclosure, Editor, Center}
    /\ Box \notin TextWire /\ Absent \notin TextWire /\ Absent # Box
<1>1. MaxSlots \in Nat
    BY BoundsAssumption, AgeAssumption DEF MaxSlots
<1>2. Paragraph \subseteq Nat
    BY <1>1 DEF Paragraph
<1>3. Paragraph \cap Boxes = {} /\ Status \notin Paragraph /\ Status \notin Boxes
    BY <1>2, IdsAssumption DEF Boxes
<1>. QED
    BY <1>1, <1>3, IdsAssumption, ContentsAssumption DEF Ancestors, Boxes, Block, TextWire

LEMMA TailAt ==
    ASSUME NEW c \in Seq(Change_), c # <<>>
    PROVE  /\ Head(c) = c[1] /\ c[1] \in Change_
           /\ Tail(c) \in Seq(Change_)
           /\ Len(Tail(c)) = Len(c) - 1 /\ Len(c) \in Nat \ {0}
           /\ \A i \in DOMAIN Tail(c) : i + 1 \in DOMAIN c /\ Tail(c)[i] = c[i + 1]
           /\ \A i \in DOMAIN c : i # 1 => i - 1 \in DOMAIN Tail(c) /\ Tail(c)[i - 1] = c[i]
OBVIOUS

\* Five sequences, one after the other.
Joined(c, r, b, t, u, v) ==
    /\ Len(c) = Len(r) + Len(b) + Len(t) + Len(u) + Len(v)
    /\ \A i \in 1 .. Len(r) : c[i] = r[i]
    /\ \A i \in 1 .. Len(b) : c[Len(r) + i] = b[i]
    /\ \A i \in 1 .. Len(t) : c[Len(r) + Len(b) + i] = t[i]
    /\ \A i \in 1 .. Len(u) : c[Len(r) + Len(b) + Len(t) + i] = u[i]
    /\ \A i \in 1 .. Len(v) : c[Len(r) + Len(b) + Len(t) + Len(u) + i] = v[i]

LEMMA FiveParts ==
    ASSUME NEW S, NEW r \in Seq(S), NEW b \in Seq(S), NEW t \in Seq(S),
           NEW u \in Seq(S), NEW v \in Seq(S)
    PROVE  /\ r \o b \o t \o u \o v \in Seq(S)
           /\ Joined(r \o b \o t \o u \o v, r, b, t, u, v)
<1> DEFINE rb == r \o b
           rbt == rb \o t
           rbtu == rbt \o u
           all == rbtu \o v
<1>1. /\ rb \in Seq(S) /\ Len(rb) = Len(r) + Len(b)
      /\ \A i \in 1 .. Len(r) : rb[i] = r[i]
      /\ \A i \in 1 .. Len(b) : rb[Len(r) + i] = b[i]
    BY ConcatIs
<1> HIDE DEF rb
<1>2. /\ rbt \in Seq(S) /\ Len(rbt) = Len(rb) + Len(t)
      /\ \A i \in 1 .. Len(rb) : rbt[i] = rb[i]
      /\ \A i \in 1 .. Len(t) : rbt[Len(rb) + i] = t[i]
    <2>1. rb \in Seq(S)
        BY <1>1
    <2>. QED
        BY <2>1, ConcatIs
<1> HIDE DEF rbt
<1>3. /\ rbtu \in Seq(S) /\ Len(rbtu) = Len(rbt) + Len(u)
      /\ \A i \in 1 .. Len(rbt) : rbtu[i] = rbt[i]
      /\ \A i \in 1 .. Len(u) : rbtu[Len(rbt) + i] = u[i]
    <2>1. rbt \in Seq(S)
        BY <1>2
    <2>. QED
        BY <2>1, ConcatIs
<1> HIDE DEF rbtu
<1>4. /\ all \in Seq(S) /\ Len(all) = Len(rbtu) + Len(v)
      /\ \A i \in 1 .. Len(rbtu) : all[i] = rbtu[i]
      /\ \A i \in 1 .. Len(v) : all[Len(rbtu) + i] = v[i]
    <2>1. rbtu \in Seq(S)
        BY <1>3
    <2>. QED
        BY <2>1, ConcatIs
<1> HIDE DEF all
<1>5. /\ Len(r) \in Nat /\ Len(b) \in Nat /\ Len(t) \in Nat
      /\ Len(u) \in Nat /\ Len(v) \in Nat
    OBVIOUS
<1>6. /\ all \in Seq(S)
      /\ Len(all) = Len(r) + Len(b) + Len(t) + Len(u) + Len(v)
    BY <1>1, <1>2, <1>3, <1>4, <1>5
<1>. /\ Len(rb) = Len(r) + Len(b)
     /\ Len(rbt) = Len(r) + Len(b) + Len(t)
     /\ Len(rbtu) = Len(r) + Len(b) + Len(t) + Len(u)
    BY <1>1, <1>2, <1>3, <1>5
<1>7. ASSUME NEW i \in 1 .. Len(r) PROVE all[i] = r[i]
    <2>1. rb[i] = r[i]
        BY <1>1, <1>5
    <2>2. i \in 1 .. Len(rb)
        BY <1>5
    <2>3. rbt[i] = rb[i]
        BY <2>2, <1>2
    <2>4. i \in 1 .. Len(rbt)
        BY <1>5
    <2>5. rbtu[i] = rbt[i]
        BY <2>4, <1>3
    <2>6. i \in 1 .. Len(rbtu)
        BY <1>5
    <2>7. all[i] = rbtu[i]
        BY <2>6, <1>4
    <2>. QED
        BY <2>1, <2>3, <2>5, <2>7
<1>8. ASSUME NEW i \in 1 .. Len(b) PROVE all[Len(r) + i] = b[i]
    <2>1. rb[Len(r) + i] = b[i]
        BY <1>1, <1>5
    <2>2. Len(r) + i \in 1 .. Len(rb)
        BY <1>5
    <2>3. rbt[Len(r) + i] = rb[Len(r) + i]
        BY <2>2, <1>2
    <2>4. Len(r) + i \in 1 .. Len(rbt)
        BY <1>5
    <2>5. rbtu[Len(r) + i] = rbt[Len(r) + i]
        BY <2>4, <1>3
    <2>6. Len(r) + i \in 1 .. Len(rbtu)
        BY <1>5
    <2>7. all[Len(r) + i] = rbtu[Len(r) + i]
        BY <2>6, <1>4
    <2>. QED
        BY <2>1, <2>3, <2>5, <2>7
<1>9. ASSUME NEW i \in 1 .. Len(t) PROVE all[Len(r) + Len(b) + i] = t[i]
    <2>1. rbt[Len(r) + Len(b) + i] = t[i]
        BY <1>2, <1>5
    <2>2. Len(r) + Len(b) + i \in 1 .. Len(rbt)
        BY <1>5
    <2>3. rbtu[Len(r) + Len(b) + i] = rbt[Len(r) + Len(b) + i]
        BY <2>2, <1>3
    <2>4. Len(r) + Len(b) + i \in 1 .. Len(rbtu)
        BY <1>5
    <2>5. all[Len(r) + Len(b) + i] = rbtu[Len(r) + Len(b) + i]
        BY <2>4, <1>4
    <2>. QED
        BY <2>1, <2>3, <2>5
<1>10. ASSUME NEW i \in 1 .. Len(u) PROVE all[Len(r) + Len(b) + Len(t) + i] = u[i]
    <2>1. rbtu[Len(r) + Len(b) + Len(t) + i] = u[i]
        BY <1>3, <1>5
    <2>2. Len(r) + Len(b) + Len(t) + i \in 1 .. Len(rbtu)
        BY <1>5
    <2>3. all[Len(r) + Len(b) + Len(t) + i] = rbtu[Len(r) + Len(b) + Len(t) + i]
        BY <2>2, <1>4
    <2>. QED
        BY <2>1, <2>3
<1>11. ASSUME NEW i \in 1 .. Len(v) PROVE all[Len(r) + Len(b) + Len(t) + Len(u) + i] = v[i]
    <2>1. all[Len(r) + Len(b) + Len(t) + Len(u) + i] = v[i]
        BY <1>4, <1>5
    <2>. QED
        BY <2>1
<1>. QED
    BY <1>6, <1>7, <1>8, <1>9, <1>10, <1>11 DEF all, rbtu, rbt, rb, Joined

-----------------------------------------------------------------------------
(* The changes a frame sends.                                              *)

Blocks_ == UNION {[ids -> TextBlock_(Text \cup {NoText})] : ids \in SUBSET Paragraph}

\* First what is removed, then what is new, then what is moved.
InOrder(c, first, last) ==
    \A i \in DOMAIN c : /\ c[i].op = "remove" <=> i =< first
                        /\ c[i].op = "move" <=> last < i

\* Removed is what is to be, and texts and places are those of the blocks.
SaysRemoved(c, removed) ==
    /\ \A i \in DOMAIN c : c[i].op = "remove" => c[i].block \in removed
    /\ \A id \in removed : \E i \in DOMAIN c : At(c, i, "remove", id)

SaysTexts(c, blocks) ==
    /\ \A i \in DOMAIN c : c[i].op = "new" /\ c[i].block \in Paragraph =>
        c[i].block \in DOMAIN blocks /\ c[i].wire = blocks[c[i].block].text
    /\ \A id \in DOMAIN blocks :
        UpToDate(blocks[id]) \/ \E i \in DOMAIN c : At(c, i, "new", id)

SaysPlaces(c, blocks) ==
    /\ \A i \in DOMAIN c : c[i].op = "move" /\ c[i].block \in Paragraph =>
        c[i].block \in DOMAIN blocks /\ c[i].to = blocks[c[i].block].location
    /\ \A id \in DOMAIN blocks :
        UpToDate(blocks[id]) \/ \E i \in DOMAIN c : At(c, i, "move", id)

\* What is moved is also sent.
MovesAreNew(c) ==
    \A i \in DOMAIN c : c[i].op = "move" =>
        \E j \in DOMAIN c : At(c, j, "new", c[i].block)

\* All boxes are sent, each after the boxes around it.
BoxesLead(c) ==
    /\ \A b \in Boxes : \E i \in DOMAIN c : At(c, i, "new", b)
    /\ \A i \in DOMAIN c : \A a \in Ancestors[c[i].block] :
        \E j \in 1 .. i - 1 : At(c, j, "new", a)

\* The list for the center is that of the blocks, and leads their texts.
Locations(blocks) == [id \in DOMAIN blocks |-> blocks[id].location]

ListsLead(c, list) ==
    /\ \E i \in DOMAIN c : At(c, i, "new", Center)
    /\ \A i \in DOMAIN c : At(c, i, "new", Center) =>
        /\ c[i].sub_blocks = list
        /\ \A j \in DOMAIN c : c[j].op = "new" /\ c[j].block \in Paragraph => i < j

\* What is sent is also moved, to its home unless it is a paragraph.
NewsAreMoved(c) ==
    /\ \A j \in DOMAIN c : c[j].op = "new" =>
        \E i \in DOMAIN c : At(c, i, "move", c[j].block)
    /\ \A i \in DOMAIN c : c[i].op = "move" /\ c[i].block \notin Paragraph => c[i].to = Home

IsFrame(c, blocks, removed) ==
    /\ c \in Seq(Change_)
    /\ \E first, last \in Nat : InOrder(c, first, last)
    /\ SaysRemoved(c, removed)
    /\ SaysTexts(c, blocks)
    /\ SaysPlaces(c, blocks)
    /\ MovesAreNew(c)
    /\ ListsLead(c, Locations(blocks))
    /\ NewsAreMoved(c)
    /\ ~enclosed /\ removed = {} => BoxesLead(c)

LEMMA BoxesSentAre ==
    ASSUME NEW resized \in BOOLEAN, enclosed \in BOOLEAN
    PROVE  /\ BoxesSent(resized) \in Seq(Boxes)
           /\ ~enclosed => BoxesSent(resized) = <<Enclosure, Editor, StatusLine, Center>>
           /\ \E i \in DOMAIN BoxesSent(resized) : BoxesSent(resized)[i] = Center
<1>1. <<Editor, StatusLine, Center>> \in Seq(Boxes)
      /\ <<Enclosure, Editor, StatusLine, Center>> \in Seq(Boxes)
    BY DEF Boxes
<1>2. /\ 3 \in DOMAIN <<Editor, StatusLine, Center>>
      /\ <<Editor, StatusLine, Center>>[3] = Center
      /\ 4 \in DOMAIN <<Enclosure, Editor, StatusLine, Center>>
      /\ <<Enclosure, Editor, StatusLine, Center>>[4] = Center
    OBVIOUS
<1>. QED
    BY <1>1, <1>2 DEF BoxesSent

LEMMA TextsSentAre ==
    ASSUME NEW blocks \in Blocks_, NEW st
    PROVE  /\ TextsSent(blocks, st) \in Seq({Status} \cup DOMAIN blocks)
           /\ \A id \in DOMAIN blocks :
                \/ UpToDate(blocks[id])
                \/ \E i \in DOMAIN TextsSent(blocks, st) : TextsSent(blocks, st)[i] = id
           /\ \/ UpToDate(st)
              \/ \E i \in DOMAIN TextsSent(blocks, st) : TextsSent(blocks, st)[i] = Status
<1> DEFINE out == {id \in DOMAIN blocks : ~UpToDate(blocks[id])}
           back == IF UpToDate(st) THEN <<>> ELSE <<Status>>
           S == {Status} \cup DOMAIN blocks
<1>1. IsFiniteSet(out)
    <2>1. out \subseteq 1 .. MaxSlots
        BY DEF Blocks_, Paragraph
    <2>2. IsFiniteSet(1 .. MaxSlots)
        BY BlocksAre, FS_Interval
    <2>. QED
        BY <2>1, <2>2, FS_Subset
<1>2. /\ SetToSeq(out) \in Seq(out)
      /\ \A id \in out : \E i \in DOMAIN SetToSeq(out) : SetToSeq(out)[i] = id
    BY <1>1, SetToSeqIs
<1> DEFINE front == SetToSeq(out)
<1>3. TextsSent(blocks, st) = front \o back
    BY DEF TextsSent
<1>4. back \in Seq(S)
    <2>1. <<>> \in Seq(S) /\ <<Status>> \in Seq(S)
        OBVIOUS
    <2>. QED
        BY <2>1
<1>5. front \in Seq(S)
    <2>1. out \subseteq S
        OBVIOUS
    <2>. QED
        BY <1>2, <2>1
<1>6. ASSUME NEW id \in DOMAIN blocks, ~UpToDate(blocks[id])
      PROVE  \E i \in DOMAIN (front \o back) : (front \o back)[i] = id
    <2>1. id \in out
        BY <1>6
    <2>2. PICK i \in DOMAIN front : front[i] = id
        BY <1>2, <2>1
    <2> HIDE DEF front, back, S
    <2>3. i \in DOMAIN (front \o back) /\ (front \o back)[i] = id
        BY <2>2, <1>4, <1>5
    <2>. QED
        BY <2>3
<1>7. ASSUME ~UpToDate(st)
      PROVE  \E i \in DOMAIN (front \o back) : (front \o back)[i] = Status
    <2>1. 1 \in DOMAIN back /\ back[1] = Status
        BY <1>7
    <2> HIDE DEF front, back, S
    <2>2. Len(front) + 1 \in DOMAIN (front \o back) /\ (front \o back)[Len(front) + 1] = Status
        BY <2>1, <1>4, <1>5
    <2>. QED
        BY <2>2
<1> HIDE DEF out, front, back, S
<1>8. front \o back \in Seq(S)
    BY <1>4, <1>5
<1>. QED
    BY <1>3, <1>6, <1>7, <1>8 DEF S

\* The five parts of a frame, one by one.
LEMMA RemovalsAre ==
    ASSUME NEW removed \in SUBSET Paragraph
    PROVE  /\ Removals(removed) \in Seq(Change_)
           /\ \A i \in DOMAIN Removals(removed) :
                /\ Removals(removed)[i].op = "remove"
                /\ Removals(removed)[i].block \in removed
           /\ \A id \in removed : \E i \in DOMAIN Removals(removed) :
                Removals(removed)[i].block = id
<1> DEFINE gone == SetToSeq(removed)
           r == Removals(removed)
<1>1. IsFiniteSet(removed)
    <2>1. IsFiniteSet(1 .. MaxSlots) /\ removed \subseteq 1 .. MaxSlots
        BY BlocksAre, FS_Interval DEF Paragraph
    <2>. QED
        BY <2>1, FS_Subset
<1>2. /\ gone \in Seq(removed)
      /\ \A id \in removed : \E i \in DOMAIN gone : gone[i] = id
    BY <1>1, SetToSeqIs
<1>3. r = [i \in DOMAIN gone |-> RemoveChange(gone[i])]
    BY DEF Removals
<1> HIDE DEF gone, r
<1>4. DOMAIN gone = 1 .. Len(gone) /\ Len(gone) \in Nat
    BY <1>2
<1>5. ASSUME NEW i \in DOMAIN gone
      PROVE  /\ r[i] \in Change_ /\ r[i].op = "remove" /\ r[i].block = gone[i]
             /\ gone[i] \in removed
    <2>1. gone[i] \in removed
        BY <1>2
    <2>2. r[i] = [op |-> "remove", block |-> gone[i]]
        BY <1>3 DEF RemoveChange
    <2>3. r[i] \in [op : {"remove"}, block : Paragraph]
        BY <2>1, <2>2
    <2>. QED
        BY <2>1, <2>2, <2>3 DEF Change_
<1>6. DOMAIN r = DOMAIN gone
    BY <1>3
<1>7. r \in Seq(Change_)
    BY <1>3, <1>4, <1>5
<1>. QED
    BY <1>2, <1>5, <1>6, <1>7 DEF r

LEMMA NewBoxesAre ==
    ASSUME NEW boxes \in Seq(Boxes), NEW blocks \in Blocks_
    PROVE  /\ NewBoxes(boxes, blocks) \in Seq(Change_)
           /\ Len(NewBoxes(boxes, blocks)) = Len(boxes)
           /\ \A i \in DOMAIN boxes : /\ NewBoxes(boxes, blocks)[i].op = "new"
                                     /\ NewBoxes(boxes, blocks)[i].block = boxes[i]
           /\ \A i \in DOMAIN boxes : boxes[i] = Center =>
                NewBoxes(boxes, blocks)[i].sub_blocks = Locations(blocks)
<1> DEFINE b == NewBoxes(boxes, blocks)
<1>1. b = [i \in DOMAIN boxes |-> BoxChange(boxes[i], blocks)]
    BY DEF NewBoxes
<1>2. DOMAIN boxes = 1 .. Len(boxes) /\ Len(boxes) \in Nat
    OBVIOUS
<1> HIDE DEF b
<1>3. ASSUME NEW i \in DOMAIN boxes
      PROVE  /\ b[i] \in Change_ /\ b[i].op = "new" /\ b[i].block = boxes[i]
             /\ boxes[i] = Center => b[i].sub_blocks = Locations(blocks)
    <2>1. boxes[i] \in Boxes
        OBVIOUS
    <2>2. CASE boxes[i] = Center
        <3> DEFINE list == Locations(blocks)
        <3>1. b[i] = [op |-> "new", block |-> Center, wire |-> Box, sub_blocks |-> list]
            BY <1>1, <2>2 DEF BoxChange, Locations
        <3>2. list \in [DOMAIN blocks -> Nat] /\ DOMAIN blocks \in SUBSET Paragraph
            BY DEF Blocks_, TextBlock_, Locations
        <3> HIDE DEF list
        <3>3. list \in Lists
            BY <3>2, Zenon DEF Lists
        <3>. QED
            BY <2>2, <3>1, <3>3 DEF Change_, list
    <2>3. CASE boxes[i] # Center
        <3>1. b[i] = [op |-> "new", block |-> boxes[i], wire |-> Box]
            BY <1>1, <2>3 DEF BoxChange, NewChange
        <3>. QED
            BY <2>1, <2>3, <3>1 DEF Change_
    <2>. QED
        BY <2>2, <2>3
<1>4. b \in Seq(Change_) /\ Len(b) = Len(boxes)
    BY <1>1, <1>2, <1>3
<1>. QED
    BY <1>3, <1>4 DEF b

LEMMA NewTextsAre ==
    ASSUME NEW blocks \in Blocks_, NEW texts \in Seq({Status} \cup DOMAIN blocks),
           NEW st, st.text \in StatusText
    PROVE  /\ NewTexts(texts, blocks, st) \in Seq(Change_)
           /\ Len(NewTexts(texts, blocks, st)) = Len(texts)
           /\ \A i \in DOMAIN texts :
                /\ NewTexts(texts, blocks, st)[i].op = "new"
                /\ NewTexts(texts, blocks, st)[i].block = texts[i]
                /\ texts[i] # Status =>
                    /\ texts[i] \in DOMAIN blocks
                    /\ NewTexts(texts, blocks, st)[i].wire = blocks[texts[i]].text
<1> DEFINE t == NewTexts(texts, blocks, st)
<1>1. t = [i \in DOMAIN texts |->
            [op |-> "new", block |-> texts[i],
             wire |-> TextBlock(texts[i], blocks, st).text]]
    BY DEF NewTexts, NewChange
<1>2. DOMAIN texts = 1 .. Len(texts) /\ Len(texts) \in Nat
    OBVIOUS
<1> HIDE DEF t
<1>3. ASSUME NEW i \in DOMAIN texts
      PROVE  /\ t[i] \in Change_ /\ t[i].op = "new" /\ t[i].block = texts[i]
             /\ texts[i] # Status =>
                    texts[i] \in DOMAIN blocks /\ t[i].wire = blocks[texts[i]].text
    <2>1. texts[i] \in {Status} \cup DOMAIN blocks
        OBVIOUS
    <2>2. DOMAIN blocks \subseteq Paragraph
          /\ \A id \in DOMAIN blocks : blocks[id].text \in Text \cup {NoText}
        BY DEF Blocks_, TextBlock_
    <2>3. texts[i] \in Block \ Boxes
        BY <2>1, <2>2, BlocksAre DEF Block
    <2>4. TextBlock(texts[i], blocks, st).text \in TextWire
        BY <2>1, <2>2, BlocksAre DEF TextBlock, TextWire
    <2>5. t[i] \in [op : {"new"}, block : Block \ Boxes, wire : TextWire]
        BY <1>1, <2>3, <2>4
    <2>6. texts[i] # Status => TextBlock(texts[i], blocks, st) = blocks[texts[i]]
        BY DEF TextBlock
    <2>. QED
        BY <1>1, <2>1, <2>5, <2>6 DEF Change_
<1>4. t \in Seq(Change_) /\ Len(t) = Len(texts)
    BY <1>1, <1>2, <1>3
<1>. QED
    BY <1>3, <1>4 DEF t

LEMMA MovesAre ==
    ASSUME NEW blocks \in Blocks_, NEW boxes \in Seq(Boxes),
           NEW texts \in Seq({Status} \cup DOMAIN blocks),
           NEW st, st.location = Home
    PROVE  /\ BoxMoves(boxes) \in Seq(Change_)
           /\ Len(BoxMoves(boxes)) = Len(boxes)
           /\ \A i \in DOMAIN boxes : /\ BoxMoves(boxes)[i].op = "move"
                                     /\ BoxMoves(boxes)[i].block = boxes[i]
                                     /\ BoxMoves(boxes)[i].to = Home
           /\ TextMoves(texts, blocks, st) \in Seq(Change_)
           /\ Len(TextMoves(texts, blocks, st)) = Len(texts)
           /\ \A i \in DOMAIN texts :
                /\ TextMoves(texts, blocks, st)[i].op = "move"
                /\ TextMoves(texts, blocks, st)[i].block = texts[i]
                /\ texts[i] = Status => TextMoves(texts, blocks, st)[i].to = Home
                /\ texts[i] # Status =>
                    /\ texts[i] \in DOMAIN blocks
                    /\ TextMoves(texts, blocks, st)[i].to = blocks[texts[i]].location
<1> DEFINE u == BoxMoves(boxes)
           v == TextMoves(texts, blocks, st)
<1>1. u = [i \in DOMAIN boxes |-> [op |-> "move", block |-> boxes[i], to |-> Home]]
    BY DEF BoxMoves, MoveChange
<1>2. v = [i \in DOMAIN texts |->
            [op |-> "move", block |-> texts[i],
             to |-> TextBlock(texts[i], blocks, st).location]]
    BY DEF TextMoves, MoveChange
<1>3. DOMAIN boxes = 1 .. Len(boxes) /\ Len(boxes) \in Nat
    OBVIOUS
<1>4. DOMAIN texts = 1 .. Len(texts) /\ Len(texts) \in Nat
    OBVIOUS
<1> HIDE DEF u, v
<1>5. ASSUME NEW i \in DOMAIN boxes
      PROVE  /\ u[i] \in Change_ /\ u[i].op = "move" /\ u[i].block = boxes[i]
             /\ u[i].to = Home
    <2>1. boxes[i] \in Boxes
        OBVIOUS
    <2>2. u[i] \in [op : {"move"}, block : Block, to : Nat \cup {Home}]
        BY <1>1, <2>1 DEF Block
    <2>. QED
        BY <1>1, <2>2 DEF Change_
<1>6. ASSUME NEW i \in DOMAIN texts
      PROVE  /\ v[i] \in Change_ /\ v[i].op = "move" /\ v[i].block = texts[i]
             /\ texts[i] = Status => v[i].to = Home
             /\ texts[i] # Status =>
                    texts[i] \in DOMAIN blocks /\ v[i].to = blocks[texts[i]].location
    <2>1. texts[i] \in {Status} \cup DOMAIN blocks
        OBVIOUS
    <2>2. DOMAIN blocks \subseteq Paragraph
          /\ \A id \in DOMAIN blocks : blocks[id].location \in Nat
        BY DEF Blocks_, TextBlock_
    <2>3. texts[i] \in Block
        BY <2>1, <2>2 DEF Block
    <2>4. TextBlock(texts[i], blocks, st).location \in Nat \cup {Home}
        BY <2>1, <2>2, BlocksAre DEF TextBlock
    <2>5. v[i] \in [op : {"move"}, block : Block, to : Nat \cup {Home}]
        BY <1>2, <2>3, <2>4
    <2>6. /\ texts[i] # Status => TextBlock(texts[i], blocks, st) = blocks[texts[i]]
          /\ texts[i] = Status => TextBlock(texts[i], blocks, st) = st
        BY DEF TextBlock
    <2>. QED
        BY <1>2, <2>1, <2>5, <2>6 DEF Change_
<1>7. u \in Seq(Change_) /\ Len(u) = Len(boxes)
    BY <1>1, <1>3, <1>5
<1>8. v \in Seq(Change_) /\ Len(v) = Len(texts)
    BY <1>2, <1>4, <1>6
<1>. QED
    BY <1>5, <1>6, <1>7, <1>8 DEF u, v

LEMMA MessagesAre ==
    ASSUME NEW blocks \in Blocks_, NEW removed \in SUBSET Paragraph,
           NEW st, st.text \in StatusText, st.location = Home,
           NEW resized \in BOOLEAN, enclosed \in BOOLEAN
    PROVE  /\ IsFrame(Messages(blocks, removed, st, resized), blocks, removed)
           /\ \/ UpToDate(st)
              \/ \E i \in DOMAIN Messages(blocks, removed, st, resized) :
                    At(Messages(blocks, removed, st, resized), i, "new", Status)
<1> DEFINE boxes == BoxesSent(resized)
           texts == TextsSent(blocks, st)
           r == Removals(removed)
           b == NewBoxes(boxes, blocks)
           t == NewTexts(texts, blocks, st)
           u == BoxMoves(boxes)
           v == TextMoves(texts, blocks, st)
           c == Messages(blocks, removed, st, resized)
           nr == Len(r)
           nb == Len(boxes)
           nt == Len(texts)
<1>1. /\ boxes \in Seq(Boxes)
      /\ ~enclosed => boxes = <<Enclosure, Editor, StatusLine, Center>>
      /\ \E i \in DOMAIN boxes : boxes[i] = Center
    BY BoxesSentAre
<1>2. /\ texts \in Seq({Status} \cup DOMAIN blocks)
      /\ \A id \in DOMAIN blocks :
            UpToDate(blocks[id]) \/ \E i \in DOMAIN texts : texts[i] = id
      /\ UpToDate(st) \/ \E i \in DOMAIN texts : texts[i] = Status
    BY TextsSentAre
<1>3. c = r \o b \o t \o u \o v
    BY DEF Messages
<1> HIDE DEF boxes, texts, c
<1>4. /\ r \in Seq(Change_)
      /\ \A i \in DOMAIN r : r[i].op = "remove" /\ r[i].block \in removed
      /\ \A id \in removed : \E i \in DOMAIN r : r[i].block = id
    BY RemovalsAre
<1>5. /\ b \in Seq(Change_) /\ Len(b) = nb
      /\ \A i \in DOMAIN boxes : b[i].op = "new" /\ b[i].block = boxes[i]
      /\ \A i \in DOMAIN boxes : boxes[i] = Center => b[i].sub_blocks = Locations(blocks)
    <2>1. boxes \in Seq(Boxes)
        BY <1>1
    <2> HIDE DEF nb
    <2>2. /\ b \in Seq(Change_) /\ Len(b) = Len(boxes)
          /\ \A i \in DOMAIN boxes : b[i].op = "new" /\ b[i].block = boxes[i]
        BY <2>1, NewBoxesAre
    <2>3. \A i \in DOMAIN boxes : boxes[i] = Center => b[i].sub_blocks = Locations(blocks)
        BY <2>1, NewBoxesAre
    <2>. QED
        BY <2>2, <2>3 DEF nb
<1>6. /\ t \in Seq(Change_) /\ Len(t) = nt
      /\ \A i \in DOMAIN texts :
            /\ t[i].op = "new" /\ t[i].block = texts[i]
            /\ texts[i] # Status =>
                texts[i] \in DOMAIN blocks /\ t[i].wire = blocks[texts[i]].text
    BY <1>2, NewTextsAre
<1>7. /\ u \in Seq(Change_) /\ Len(u) = nb
      /\ \A i \in DOMAIN boxes :
            u[i].op = "move" /\ u[i].block = boxes[i] /\ u[i].to = Home
      /\ v \in Seq(Change_) /\ Len(v) = nt
      /\ \A i \in DOMAIN texts :
            /\ v[i].op = "move" /\ v[i].block = texts[i]
            /\ texts[i] = Status => v[i].to = Home
            /\ texts[i] # Status =>
                texts[i] \in DOMAIN blocks /\ v[i].to = blocks[texts[i]].location
    BY <1>1, <1>2, MovesAre
<1> HIDE DEF r, b, t, u, v
<1>8. nr \in Nat /\ nb \in Nat /\ nt \in Nat
    BY <1>1, <1>2, <1>4
<1>9. DOMAIN r = 1 .. nr /\ DOMAIN boxes = 1 .. nb /\ DOMAIN texts = 1 .. nt
    BY <1>1, <1>2, <1>4
<1>10. /\ r \in Seq(Change_) /\ b \in Seq(Change_) /\ t \in Seq(Change_)
       /\ u \in Seq(Change_) /\ v \in Seq(Change_)
    BY <1>4, <1>5, <1>6, <1>7
<1>p. /\ c \in Seq(Change_)
      /\ Len(c) = Len(r) + Len(b) + Len(t) + Len(u) + Len(v)
      /\ \A i \in 1 .. Len(r) : c[i] = r[i]
      /\ \A i \in 1 .. Len(b) : c[Len(r) + i] = b[i]
      /\ \A i \in 1 .. Len(t) : c[Len(r) + Len(b) + i] = t[i]
      /\ \A i \in 1 .. Len(u) : c[Len(r) + Len(b) + Len(t) + i] = u[i]
      /\ \A i \in 1 .. Len(v) : c[Len(r) + Len(b) + Len(t) + Len(u) + i] = v[i]
    <2>1. c \in Seq(Change_) /\ Joined(c, r, b, t, u, v)
        BY <1>3, <1>10, FiveParts
    <2>. QED
        BY <2>1 DEF Joined
<1>l. Len(r) = nr /\ Len(b) = nb /\ Len(t) = nt /\ Len(u) = nb /\ Len(v) = nt
    BY <1>5, <1>6, <1>7
<1> HIDE DEF nr, nb, nt
<1>c. c \in Seq(Change_) /\ Len(c) = nr + nb + nt + nb + nt
    BY <1>p, <1>l
<1>r. \A i \in 1 .. nr : c[i] = r[i]
    BY <1>p, <1>l
<1>b. \A i \in 1 .. nb : c[nr + i] = b[i]
    BY <1>p, <1>l
<1>t. \A i \in 1 .. nt : c[nr + nb + i] = t[i]
    BY <1>p, <1>l
<1>u. \A i \in 1 .. nb : c[nr + nb + nt + i] = u[i]
    BY <1>p, <1>l
<1>v. \A i \in 1 .. nt : c[nr + nb + nt + nb + i] = v[i]
    BY <1>p, <1>l
<1>d. DOMAIN c = 1 .. nr + nb + nt + nb + nt
    BY <1>c
<1>11. ASSUME NEW i \in 1 .. nr PROVE c[i].op = "remove" /\ c[i].block \in removed
    BY <1>4, <1>9, <1>r
<1>12. ASSUME NEW k \in 1 .. nb
       PROVE  /\ nr + k \in DOMAIN c
              /\ c[nr + k].op = "new" /\ c[nr + k].block = boxes[k]
              /\ boxes[k] = Center => c[nr + k].sub_blocks = Locations(blocks)
    <2>1. nr + k \in DOMAIN c
        BY <1>8, <1>d
    <2>. QED
        BY <2>1, <1>5, <1>9, <1>b
<1>13. ASSUME NEW k \in 1 .. nt
       PROVE  /\ nr + nb + k \in DOMAIN c
              /\ c[nr + nb + k].op = "new" /\ c[nr + nb + k].block = texts[k]
              /\ texts[k] # Status =>
                    texts[k] \in DOMAIN blocks
                    /\ c[nr + nb + k].wire = blocks[texts[k]].text
    <2>1. nr + nb + k \in DOMAIN c
        BY <1>8, <1>d
    <2>. QED
        BY <2>1, <1>6, <1>9, <1>t
<1>14. ASSUME NEW k \in 1 .. nb
       PROVE  /\ nr + nb + nt + k \in DOMAIN c
              /\ c[nr + nb + nt + k].op = "move" /\ c[nr + nb + nt + k].block = boxes[k]
              /\ c[nr + nb + nt + k].to = Home
    <2>1. nr + nb + nt + k \in DOMAIN c
        BY <1>8, <1>d
    <2>. QED
        BY <2>1, <1>7, <1>9, <1>u
<1>15. ASSUME NEW k \in 1 .. nt
       PROVE  /\ nr + nb + nt + nb + k \in DOMAIN c
              /\ c[nr + nb + nt + nb + k].op = "move"
              /\ c[nr + nb + nt + nb + k].block = texts[k]
              /\ texts[k] = Status => c[nr + nb + nt + nb + k].to = Home
              /\ texts[k] # Status =>
                    texts[k] \in DOMAIN blocks
                    /\ c[nr + nb + nt + nb + k].to = blocks[texts[k]].location
    <2>1. nr + nb + nt + nb + k \in DOMAIN c
        BY <1>8, <1>d
    <2>. QED
        BY <2>1, <1>7, <1>9, <1>v
\* Every change is in one of the parts.
<1>16. ASSUME NEW i \in DOMAIN c
       PROVE  \/ i \in 1 .. nr
              \/ \E k \in 1 .. nb : i = nr + k
              \/ \E k \in 1 .. nt : i = nr + nb + k
              \/ \E k \in 1 .. nb : i = nr + nb + nt + k
              \/ \E k \in 1 .. nt : i = nr + nb + nt + nb + k
    <2>1. i \in 1 .. nr + nb + nt + nb + nt
        BY <1>d
    <2>2. CASE i =< nr
        BY <2>1, <2>2
    <2>3. CASE nr < i /\ i =< nr + nb
        <3>1. i - nr \in 1 .. nb /\ i = nr + (i - nr)
            BY <1>8, <2>1, <2>3
        <3>. QED
            BY <3>1
    <2>4. CASE nr + nb < i /\ i =< nr + nb + nt
        <3>1. i - nr - nb \in 1 .. nt /\ i = nr + nb + (i - nr - nb)
            BY <1>8, <2>1, <2>4
        <3>. QED
            BY <3>1
    <2>5. CASE nr + nb + nt < i /\ i =< nr + nb + nt + nb
        <3>1. i - nr - nb - nt \in 1 .. nb /\ i = nr + nb + nt + (i - nr - nb - nt)
            BY <1>8, <2>1, <2>5
        <3>. QED
            BY <3>1
    <2>6. CASE nr + nb + nt + nb < i
        <3>1. i - nr - nb - nt - nb \in 1 .. nt
              /\ i = nr + nb + nt + nb + (i - nr - nb - nt - nb)
            BY <1>8, <2>1, <2>6
        <3>. QED
            BY <3>1
    <2>. QED
        BY <1>8, <2>1, <2>2, <2>3, <2>4, <2>5, <2>6
<1>17. InOrder(c, nr, nr + nb + nt)
    <2>1. ASSUME NEW i \in DOMAIN c
          PROVE  /\ c[i].op = "remove" <=> i =< nr
                 /\ c[i].op = "move" <=> nr + nb + nt < i
        <3>1. CASE i \in 1 .. nr
            BY <3>1, <1>8, <1>11
        <3>2. CASE \E k \in 1 .. nb : i = nr + k
            <4>1. PICK k \in 1 .. nb : i = nr + k
                BY <3>2
            <4>2. c[i].op = "new"
                BY <4>1, <1>12
            <4>. QED
                BY <4>1, <4>2, <1>8
        <3>3. CASE \E k \in 1 .. nt : i = nr + nb + k
            <4>1. PICK k \in 1 .. nt : i = nr + nb + k
                BY <3>3
            <4>2. c[i].op = "new"
                BY <4>1, <1>13
            <4>. QED
                BY <4>1, <4>2, <1>8
        <3>4. CASE \E k \in 1 .. nb : i = nr + nb + nt + k
            <4>1. PICK k \in 1 .. nb : i = nr + nb + nt + k
                BY <3>4
            <4>2. c[i].op = "move"
                BY <4>1, <1>14
            <4>. QED
                BY <4>1, <4>2, <1>8
        <3>5. CASE \E k \in 1 .. nt : i = nr + nb + nt + nb + k
            <4>1. PICK k \in 1 .. nt : i = nr + nb + nt + nb + k
                BY <3>5
            <4>2. c[i].op = "move"
                BY <4>1, <1>15
            <4>. QED
                BY <4>1, <4>2, <1>8
        <3>. QED
            BY <3>1, <3>2, <3>3, <3>4, <3>5, <1>16
    <2>. QED
        BY <2>1 DEF InOrder
<1>18. SaysRemoved(c, removed)
    <2>1. ASSUME NEW i \in DOMAIN c, c[i].op = "remove" PROVE c[i].block \in removed
        <3>1. i \in 1 .. nr
            BY <2>1, <1>17, <1>d, <1>8 DEF InOrder
        <3>. QED
            BY <3>1, <1>11
    <2>2. ASSUME NEW id \in removed PROVE \E i \in DOMAIN c : At(c, i, "remove", id)
        <3>1. PICK i \in 1 .. nr : r[i].block = id
            BY <1>4, <1>9
        <3>2. i \in DOMAIN c /\ c[i].op = "remove" /\ c[i].block = id
            <4>1. i \in DOMAIN c
                BY <1>8, <1>d
            <4>. QED
                BY <3>1, <4>1, <1>r, <1>11
        <3>. QED
            BY <3>2 DEF At
    <2>. QED
        BY <2>1, <2>2 DEF SaysRemoved
<1>19. DOMAIN blocks \subseteq Paragraph /\ Paragraph \cap Boxes = {} /\ Status \notin Paragraph
    BY BlocksAre DEF Blocks_
<1>20. \A k \in 1 .. nb : boxes[k] \in Boxes
    <2>1. boxes \in Seq(Boxes)
        BY <1>1
    <2>2. \A k \in DOMAIN boxes : boxes[k] \in Boxes
        BY <2>1
    <2>. QED
        BY <2>2, <1>9
<1>21. SaysTexts(c, blocks)
    <2>1. ASSUME NEW i \in DOMAIN c, c[i].op = "new", c[i].block \in Paragraph
          PROVE  c[i].block \in DOMAIN blocks /\ c[i].wire = blocks[c[i].block].text
        <3>1. ~(i =< nr) /\ ~(nr + nb + nt < i)
            BY <2>1, <1>17 DEF InOrder
        <3>2. (\E k \in 1 .. nb : i = nr + k) \/ (\E k \in 1 .. nt : i = nr + nb + k)
            BY <3>1, <1>8, <1>16
        <3>3. CASE \E k \in 1 .. nb : i = nr + k
            BY <3>3, <2>1, <1>12, <1>19, <1>20
        <3>4. CASE \E k \in 1 .. nt : i = nr + nb + k
            BY <3>4, <2>1, <1>13, <1>19
        <3>. QED
            BY <3>2, <3>3, <3>4
    <2>2. ASSUME NEW id \in DOMAIN blocks, ~UpToDate(blocks[id])
          PROVE  \E i \in DOMAIN c : At(c, i, "new", id)
        <3>1. PICK k \in 1 .. nt : texts[k] = id
            BY <2>2, <1>2, <1>9
        <3>2. At(c, nr + nb + k, "new", id)
            BY <3>1, <1>13 DEF At
        <3>. QED
            BY <3>2 DEF At
    <2>. QED
        BY <2>1, <2>2 DEF SaysTexts
<1>22. SaysPlaces(c, blocks)
    <2>1. ASSUME NEW i \in DOMAIN c, c[i].op = "move", c[i].block \in Paragraph
          PROVE  c[i].block \in DOMAIN blocks /\ c[i].to = blocks[c[i].block].location
        <3>1. nr + nb + nt < i
            BY <2>1, <1>17 DEF InOrder
        <3>2. \/ \E k \in 1 .. nb : i = nr + nb + nt + k
              \/ \E k \in 1 .. nt : i = nr + nb + nt + nb + k
            BY <3>1, <1>8, <1>16
        <3>3. CASE \E k \in 1 .. nb : i = nr + nb + nt + k
            BY <3>3, <2>1, <1>14, <1>19, <1>20
        <3>4. CASE \E k \in 1 .. nt : i = nr + nb + nt + nb + k
            BY <3>4, <2>1, <1>15, <1>19
        <3>. QED
            BY <3>2, <3>3, <3>4
    <2>2. ASSUME NEW id \in DOMAIN blocks, ~UpToDate(blocks[id])
          PROVE  \E i \in DOMAIN c : At(c, i, "move", id)
        <3>1. PICK k \in 1 .. nt : texts[k] = id
            BY <2>2, <1>2, <1>9
        <3>2. At(c, nr + nb + nt + nb + k, "move", id)
            BY <3>1, <1>15 DEF At
        <3>. QED
            BY <3>2 DEF At
    <2>. QED
        BY <2>1, <2>2 DEF SaysPlaces
<1>23. MovesAreNew(c)
    <2>1. ASSUME NEW i \in DOMAIN c, c[i].op = "move"
          PROVE  \E j \in DOMAIN c : At(c, j, "new", c[i].block)
        <3>1. nr + nb + nt < i
            BY <2>1, <1>17 DEF InOrder
        <3>2. \/ \E k \in 1 .. nb : i = nr + nb + nt + k
              \/ \E k \in 1 .. nt : i = nr + nb + nt + nb + k
            BY <3>1, <1>8, <1>16
        <3>3. ASSUME NEW k \in 1 .. nb, i = nr + nb + nt + k
              PROVE  At(c, nr + k, "new", c[i].block)
            BY <3>3, <1>12, <1>14 DEF At
        <3>4. ASSUME NEW k \in 1 .. nt, i = nr + nb + nt + nb + k
              PROVE  At(c, nr + nb + k, "new", c[i].block)
            BY <3>4, <1>13, <1>15 DEF At
        <3>. QED
            BY <3>2, <3>3, <3>4 DEF At
    <2>. QED
        BY <2>1 DEF MovesAreNew
<1>24. ASSUME ~enclosed, removed = {} PROVE BoxesLead(c)
    <2>1. boxes = <<Enclosure, Editor, StatusLine, Center>>
        BY <1>1, <1>24
    <2>2. nb = 4
        BY <2>1 DEF nb
    <2>3. nr = 0
        <3>1. DOMAIN r = {}
            BY <1>24, <1>4
        <3>2. CASE nr > 0
            BY <3>1, <3>2, <1>8, <1>9
        <3>. QED
            BY <3>2, <1>8
    <2>4. /\ At(c, 1, "new", Enclosure) /\ At(c, 2, "new", Editor)
          /\ At(c, 3, "new", StatusLine) /\ At(c, 4, "new", Center)
        BY <2>1, <2>2, <2>3, <1>12 DEF At
    <2>5. \A x \in Boxes : \E i \in DOMAIN c : At(c, i, "new", x)
        BY <2>4 DEF Boxes, At
    <2>6. ASSUME NEW i \in DOMAIN c, NEW a \in Ancestors[c[i].block]
          PROVE  \E j \in 1 .. i - 1 : At(c, j, "new", a)
        <3>1. i \in Nat /\ i >= 1
            BY <1>8, <1>d
        <3>2. c[i].block \in Block
            BY <1>c, ChangeIs
        <3>3. CASE i = 1
            <4>1. c[i].block = Enclosure
                BY <3>3, <2>4 DEF At
            <4>2. Ancestors[Enclosure] = {}
                BY IdsAssumption DEF Ancestors, Block, Boxes
            <4>. QED
                BY <4>1, <4>2
        <3>4. CASE i = 2
            <4>1. a = Enclosure
                BY <3>4, <2>4, IdsAssumption DEF At, Ancestors, Block, Boxes
            <4>. QED
                BY <3>4, <4>1, <2>4
        <3>5. CASE i \in {3, 4}
            <4>1. a \in {Enclosure, Editor}
                BY <3>5, <2>4, IdsAssumption DEF At, Ancestors, Block, Boxes
            <4>. QED
                BY <3>5, <4>1, <2>4
        <3>6. CASE i > 4
            <4>1. a \in Boxes
                BY <3>2, BlocksAre
            <4>2. 1 \in 1 .. i - 1 /\ 2 \in 1 .. i - 1 /\ 3 \in 1 .. i - 1 /\ 4 \in 1 .. i - 1
                BY <3>1, <3>6
            <4>. QED
                BY <4>1, <4>2, <2>4 DEF Boxes
        <3>. QED
            BY <3>1, <3>3, <3>4, <3>5, <3>6
    <2>. QED
        BY <2>5, <2>6 DEF BoxesLead
<1>25. nr \in Nat /\ nr + nb + nt \in Nat
    BY <1>8
\* What is new is a box or a text.
<1>26. ASSUME NEW i \in DOMAIN c, c[i].op = "new"
       PROVE  (\E k \in 1 .. nb : i = nr + k) \/ (\E k \in 1 .. nt : i = nr + nb + k)
    <2>1. ~(i =< nr) /\ ~(nr + nb + nt < i)
        BY <1>26, <1>17 DEF InOrder
    <2>. QED
        BY <2>1, <1>8, <1>16
<1>27. \A k \in 1 .. nt : texts[k] \in {Status} \cup DOMAIN blocks
    <2>1. \A k \in DOMAIN texts : texts[k] \in {Status} \cup DOMAIN blocks
        BY <1>2
    <2>. QED
        BY <2>1, <1>9
<1>28. Status \notin Boxes /\ Center \in Boxes
    BY BlocksAre DEF Boxes
<1>29. ListsLead(c, Locations(blocks))
    <2>1. \E i \in DOMAIN c : At(c, i, "new", Center)
        <3>1. PICK k \in 1 .. nb : boxes[k] = Center
            BY <1>1, <1>9
        <3>2. At(c, nr + k, "new", Center)
            BY <3>1, <1>12 DEF At
        <3>. QED
            BY <3>2 DEF At
    <2>2. ASSUME NEW i \in DOMAIN c, At(c, i, "new", Center)
          PROVE  \E k \in 1 .. nb : i = nr + k /\ boxes[k] = Center
        <3>1. c[i].op = "new" /\ c[i].block = Center
            BY <2>2 DEF At
        <3>2. ~ \E k \in 1 .. nt : i = nr + nb + k
            BY <3>1, <1>13, <1>19, <1>27, <1>28
        <3>. QED
            BY <3>1, <3>2, <1>12, <1>26
    <2>3. ASSUME NEW j \in DOMAIN c, c[j].op = "new", c[j].block \in Paragraph
          PROVE  \E k \in 1 .. nt : j = nr + nb + k
        <3>1. ~ \E k \in 1 .. nb : j = nr + k
            BY <2>3, <1>12, <1>19, <1>20
        <3>. QED
            BY <3>1, <2>3, <1>26
    <2>4. ASSUME NEW i \in DOMAIN c, At(c, i, "new", Center)
          PROVE  /\ c[i].sub_blocks = Locations(blocks)
                 /\ \A j \in DOMAIN c : c[j].op = "new" /\ c[j].block \in Paragraph => i < j
        <3>1. PICK k \in 1 .. nb : i = nr + k /\ boxes[k] = Center
            BY <2>2, <2>4
        <3>2. c[i].sub_blocks = Locations(blocks)
            BY <3>1, <1>12
        <3>3. ASSUME NEW j \in DOMAIN c, c[j].op = "new", c[j].block \in Paragraph
              PROVE  i < j
            <4>1. PICK q \in 1 .. nt : j = nr + nb + q
                BY <2>3, <3>3
            <4>. QED
                BY <3>1, <4>1, <1>8
        <3>. QED
            BY <3>2, <3>3
    <2>. QED
        BY <2>1, <2>4 DEF ListsLead
<1>30. NewsAreMoved(c)
    <2>1. ASSUME NEW j \in DOMAIN c, c[j].op = "new"
          PROVE  \E i \in DOMAIN c : At(c, i, "move", c[j].block)
        <3>1. ASSUME NEW k \in 1 .. nb, j = nr + k
              PROVE  At(c, nr + nb + nt + k, "move", c[j].block)
            BY <3>1, <1>12, <1>14 DEF At
        <3>2. ASSUME NEW k \in 1 .. nt, j = nr + nb + k
              PROVE  At(c, nr + nb + nt + nb + k, "move", c[j].block)
            BY <3>2, <1>13, <1>15 DEF At
        <3>. QED
            BY <2>1, <3>1, <3>2, <1>26 DEF At
    <2>2. ASSUME NEW i \in DOMAIN c, c[i].op = "move", c[i].block \notin Paragraph
          PROVE  c[i].to = Home
        <3>1. nr + nb + nt < i
            BY <2>2, <1>17 DEF InOrder
        <3>2. \/ \E k \in 1 .. nb : i = nr + nb + nt + k
              \/ \E k \in 1 .. nt : i = nr + nb + nt + nb + k
            BY <3>1, <1>8, <1>16
        <3>3. CASE \E k \in 1 .. nb : i = nr + nb + nt + k
            BY <3>3, <1>14
        <3>4. CASE \E k \in 1 .. nt : i = nr + nb + nt + nb + k
            BY <3>4, <2>2, <1>15, <1>19, <1>27
        <3>. QED
            BY <3>2, <3>3, <3>4
    <2>. QED
        BY <2>1, <2>2 DEF NewsAreMoved
<1>31. UpToDate(st) \/ \E i \in DOMAIN c : At(c, i, "new", Status)
    <2>1. ASSUME NEW k \in DOMAIN texts, texts[k] = Status
          PROVE  At(c, nr + nb + k, "new", Status)
        <3>1. k \in 1 .. nt
            BY <1>9
        <3>. QED
            BY <2>1, <3>1, <1>13 DEF At
    <2>2. CASE UpToDate(st)
        BY <2>2
    <2>3. CASE \E k \in DOMAIN texts : texts[k] = Status
        <3>1. PICK k \in DOMAIN texts : texts[k] = Status
            BY <2>3
        <3>2. At(c, nr + nb + k, "new", Status)
            BY <2>1, <3>1
        <3>. QED
            BY <3>2 DEF At
    <2>. QED
        BY <1>2, <2>2, <2>3
<1>32. IsFrame(c, blocks, removed)
    BY <1>c, <1>17, <1>18, <1>21, <1>22, <1>23, <1>24, <1>25, <1>29, <1>30 DEF IsFrame
<1>. QED
    BY <1>31, <1>32 DEF c

-----------------------------------------------------------------------------
(* The invariant.                                                          *)

\* The shadow container takes every one of its blocks for sent, as it is.
AllSent ==
    \A id \in DOMAIN children :
        /\ children[id].hash = children[id].text
        /\ children[id].client_hash = children[id].text
        /\ children[id].client_location = children[id].location

\* The text block of the status line.
StatusBlock ==
    [text : StatusText, location : {Home}, hash : StatusText \cup {Unset},
     client_hash : StatusText \cup {Unset}, client_location : {Home, Unset}]

CenterInv ==
    /\ FrameInv(Text \cup {NoText})
    /\ FewInEach(rendered_paragraphs)
    /\ UnusedIsPruned
    /\ AllSent
    /\ DOMAIN children \subseteq Paragraph
    /\ pending_removal \subseteq Paragraph
    /\ status \in StatusBlock
    /\ enclosed \in BOOLEAN
    /\ ~enclosed => /\ DOMAIN children = {} /\ pending_removal = {}
                    /\ status.client_location = Unset

\* The tree of the client has no block without the boxes around it.
TreeInv ==
    /\ shown \in [Block -> TextWire \cup {Box, Absent}]
    /\ place \in [Block -> Nat \cup {Home, Unset}]
    /\ \A b \in Boxes : shown[b] \in {Box, Absent}
    /\ \A b \in Block \ Boxes : shown[b] # Box
    /\ \A b \in Block : Client!Present(b) => \A a \in Ancestors[b] : Client!Present(a)
    /\ \A b \in Block : ~Client!Present(b) => place[b] = Unset

\* Every change comes after the boxes around its block.
Led ==
    \A i \in DOMAIN channel : \A a \in Ancestors[channel[i].block] :
        \/ Client!Present(a)
        \/ \E j \in 1 .. i - 1 : At(channel, j, "new", a)

\* Every move comes after its block, which is not removed in between.
Unremoved(b, first, last) ==
    \A k \in first .. last : ~At(channel, k, "remove", b)

MovesFollow ==
    \A i \in DOMAIN channel : channel[i].op = "move" =>
        LET b == channel[i].block
        IN  \/ Client!Present(b) /\ Unremoved(b, 1, i - 1)
            \/ \E j \in 1 .. i - 1 :
                At(channel, j, "new", b) /\ Unremoved(b, j + 1, i - 1)

\* Once the enclosure was sent, so were all boxes.
BoxesCome ==
    enclosed => \A b \in Boxes :
        Client!Present(b) \/ \E i \in DOMAIN channel : At(channel, i, "new", b)

\* Only what was removed from the shadow container is removed from the tree.
RemovalsAreOld ==
    \A i \in DOMAIN channel :
        channel[i].op = "remove" => channel[i].block \in pending_removal

\* The last that is said of a paragraph is right, unless that is that it goes.
LastTextIsRight ==
    \A i \in DOMAIN channel :
        LET id == channel[i].block
        IN  /\ channel[i].op = "new" /\ id \in Paragraph
            /\ \A k \in i + 1 .. Len(channel) :
                    ~At(channel, k, "new", id) /\ ~At(channel, k, "remove", id)
            => id \in DOMAIN children /\ channel[i].wire = children[id].text

\* A paragraph that never was removed has its text and its place, or gets them.
TextsCome ==
    \A id \in DOMAIN children \ pending_removal :
        \/ shown[id] = children[id].text
        \/ \E i \in DOMAIN channel : At(channel, i, "new", id)

LastPlaceIsRight ==
    \A i \in DOMAIN channel :
        LET id == channel[i].block
        IN  /\ channel[i].op = "move" /\ id \in DOMAIN children \ pending_removal
            /\ \A k \in i + 1 .. Len(channel) : ~At(channel, k, "move", id)
            => channel[i].to = children[id].location

PlacesCome ==
    \A id \in DOMAIN children \ pending_removal :
        \/ place[id] = children[id].location
        \/ \E i \in DOMAIN channel : At(channel, i, "move", id)

\* What is said first of a line that an earlier connection has left is that it is
\* new, or that it goes.
LeftoverIsNew ==
    \A i \in DOMAIN channel : channel[i].op = "move" /\ channel[i].block \in leftover =>
        \E j \in 1 .. i - 1 : At(channel, j, "new", channel[i].block)

ChannelInv ==
    /\ Led
    /\ MovesFollow
    /\ LeftoverIsNew
    /\ BoxesCome
    /\ RemovalsAreOld
    /\ LastTextIsRight
    /\ StaleLinesGoAway
    /\ TextsCome
    /\ LastPlaceIsRight
    /\ PlacesCome

ScreenInv ==
    /\ CenterInv
    /\ channel \in Seq(Change_)
    /\ TreeInv
    /\ ChannelInv

-----------------------------------------------------------------------------
(* The server.                                                             *)

\* What a text block is after it was sent.
LEMMA TransferIs ==
    ASSUME NEW tb \in TextBlock_(Text \cup {NoText}), tb.hash \in {Unset, tb.text}
    PROVE  /\ Transfer(tb) \in TextBlock_(Text \cup {NoText})
           /\ Transfer(tb).text = tb.text
           /\ Transfer(tb).location = tb.location
           /\ Transfer(tb).hash = tb.text
           /\ Transfer(tb).client_hash = tb.text
           /\ Transfer(tb).client_location = tb.location
           /\ UpToDate(tb) => tb.client_hash = tb.text /\ tb.client_location = tb.location
<1> DEFINE h == Hashed(tb)
<1>1. /\ h \in TextBlock_(Text \cup {NoText})
      /\ h.text = tb.text /\ h.location = tb.location /\ h.hash = tb.text
      /\ h.client_hash = tb.client_hash /\ h.client_location = tb.client_location
    BY DEF Hashed, TextBlock_
<1> HIDE DEF h
<1>2. UpToDate(tb) <=> h.hash = tb.client_hash /\ tb.location = tb.client_location
    BY DEF UpToDate, h
<1>3. Transfer(tb) = IF UpToDate(tb) THEN h
                     ELSE [h EXCEPT !.client_hash = h.hash, !.client_location = tb.location]
    BY DEF Transfer, h
<1>4. CASE UpToDate(tb)
    BY <1>1, <1>2, <1>3, <1>4
<1>5. CASE ~UpToDate(tb)
    <2>1. tb.location \in Nat
        BY DEF TextBlock_
    <2>2. Transfer(tb) = [h EXCEPT !.client_hash = h.hash, !.client_location = tb.location]
        BY <1>3, <1>5
    <2>. QED
        BY <1>1, <1>5, <2>1, <2>2 DEF TextBlock_
<1>. QED
    BY <1>4, <1>5

\* Every block after a frame is a new one or an old one in another place.
IsNew(tb) == tb.hash = Unset /\ tb.client_hash = Unset

IsOld(tb, old) ==
    /\ tb.text = old.text /\ tb.hash = old.hash
    /\ tb.client_hash = old.client_hash /\ tb.client_location = old.client_location

LEMMA ChildrenAfterAre ==
    ASSUME NEW m, Blocks(Text \cup {NoText})
    PROVE  /\ \A id \in DOMAIN ChildrenAfter(m) :
                \/ IsNew(ChildrenAfter(m)[id])
                \/ id \in DOMAIN children /\ IsOld(ChildrenAfter(m)[id], children[id])
           /\ \A id \in DOMAIN children \ DOMAIN ChildrenAfter(m) :
                id \in Ids(m.existing) \cup Pruned
<1> DEFINE gone == Ids(m.existing) \cup Pruned
           kept == RemoveChildren(gone)
           set == SetChildren(kept, m)
           after == MoveChildren(set, m)
<1>1. ChildrenAfter(m) = after
    BY DEF ChildrenAfter
<1>2. /\ DOMAIN kept = DOMAIN children \ gone
      /\ \A id \in DOMAIN kept : kept[id] = children[id]
    BY DEF RemoveChildren
<1> HIDE DEF kept, gone
<1>3. /\ DOMAIN set = DOMAIN kept \cup m.updated
      /\ \A id \in DOMAIN set :
            set[id] = IF id \in m.updated THEN NewTextBlock(EntryOf(m.layout, id).text)
                                          ELSE kept[id]
    BY DEF SetChildren
<1> HIDE DEF set
<1>4. /\ DOMAIN after = DOMAIN set
      /\ \A id \in DOMAIN set :
            \/ after[id] = set[id]
            \/ \E to : after[id] = [set[id] EXCEPT !.location = to]
    BY DEF MoveChildren
<1> HIDE DEF after
<1>5. ASSUME NEW id \in DOMAIN after
      PROVE  IsNew(after[id]) \/ (id \in DOMAIN children /\ IsOld(after[id], children[id]))
    <2>1. CASE id \in m.updated
        <3>1. set[id] = NewTextBlock(EntryOf(m.layout, id).text)
            BY <1>3, <1>4, <2>1
        <3>. QED
            BY <3>1, <1>4 DEF NewTextBlock, IsNew
    <2>2. CASE id \notin m.updated
        <3>1. id \in DOMAIN children /\ set[id] = children[id]
            BY <1>2, <1>3, <1>4, <2>2
        <3>2. children[id] \in TextBlock_(Text \cup {NoText})
            BY <3>1 DEF Blocks
        <3>. QED
            BY <3>1, <3>2, <1>4 DEF IsOld, TextBlock_
    <2>. QED
        BY <2>1, <2>2
<1>6. ASSUME NEW id \in DOMAIN children \ DOMAIN after PROVE id \in gone
    BY <1>2, <1>3, <1>4
<1>. QED
    BY <1>1, <1>5, <1>6 DEF gone

\* A block is what it was.
Same(id) ==
    /\ id \in DOMAIN children
    /\ children'[id].text = children[id].text
    /\ children'[id].location = children[id].location

\* What a frame does to the channel, as seen from the blocks after it.
Sends(c) ==
    /\ channel' = channel \o c
    /\ c \in Seq(Change_)
    /\ \E first, last \in Nat : InOrder(c, first, last)
    /\ SaysRemoved(c, pending_removal')
    /\ \A i \in DOMAIN c : c[i].op = "new" /\ c[i].block \in Paragraph =>
        c[i].block \in DOMAIN children' /\ c[i].wire = children'[c[i].block].text
    /\ \A i \in DOMAIN c : c[i].op = "move" /\ c[i].block \in Paragraph =>
        c[i].block \in DOMAIN children' /\ c[i].to = children'[c[i].block].location
    /\ \A id \in DOMAIN children' :
        \/ Same(id)
        \/ /\ \E i \in DOMAIN c : At(c, i, "new", id)
           /\ \E i \in DOMAIN c : At(c, i, "move", id)
    /\ MovesAreNew(c)
    /\ ListsLead(c, Locations(children'))
    /\ NewsAreMoved(c)
    /\ ~enclosed => BoxesLead(c) /\ \E i \in DOMAIN c : At(c, i, "new", Status)

LEMMA FrameIs ==
    ASSUME MaxGeneration \in Word, CenterInv,
           NEW text \in StatusText, NEW resized \in BOOLEAN, sync_screen(text, resized)
    PROVE  /\ CenterInv'
           /\ \E c : Sends(c)
           /\ pending_removal \subseteq pending_removal'
           /\ DOMAIN children \ DOMAIN children' \subseteq pending_removal'
           /\ enclosed' = TRUE
           /\ UNCHANGED <<clientVars, history>>
<1> DEFINE texts == Text \cup {NoText}
<1>1. PICK m \in Matches(NoText, Document) :
        /\ UpdateModel(m)
        /\ \E blocks \in {ChildrenAfter(m)}, st \in {render_string(status, text)} :
            /\ children' = [id \in DOMAIN blocks |-> Transfer(blocks[id])]
            /\ status' = Transfer(st)
            /\ channel' = channel \o Messages(blocks, pending_removal', st, resized)
    BY DEF sync_screen
<1>2. PICK lines \in Document : m = Matched(NoText, lines)
    BY DEF Matches
<1>3. lines \in Seq(texts) /\ Len(lines) \in 0 .. MaxLines
    BY BoundsAssumption DEF Document
<1> DEFINE entries == OfflineLayout(NoText, lines)
           blocks == ChildrenAfter(m)
           st == render_string(status, text)
           c == Messages(blocks, pending_removal', st, resized)
<1>4. /\ FrameInv(texts) /\ Typed(texts) /\ InUse /\ Young /\ Blocks(texts)
      /\ FewInEach(rendered_paragraphs) /\ UnusedIsPruned
    BY DEF CenterInv, FrameInv
<1>5. /\ children' = [id \in DOMAIN blocks |-> Transfer(blocks[id])]
      /\ status' = Transfer(st)
      /\ channel' = channel \o c
    BY <1>1
<1>6. /\ enclosed' = TRUE /\ UNCHANGED <<clientVars, history>>
      /\ current_generation < MaxGeneration
    BY DEF sync_screen
<1> HIDE DEF entries, blocks, c
<1>7. Matching(m, texts, entries, Len(lines))
    BY <1>2, <1>3, <1>4, MatchedIs DEF entries
<1>8. UpdateModel(m)
    BY <1>1
<1>9. Typed(texts)' /\ InUse' /\ Young'
    BY <1>3, <1>4, <1>7, <1>8, FrameKeepsSlots
<1>10. FewInEach(rendered_paragraphs)' /\ UnusedIsPruned'
    <2>1. current_generation + 1 \in Word
        BY <1>4, <1>6, QuarterAssumption DEF Typed, Word
    <2>. QED
        BY <1>3, <1>4, <1>7, <1>8, <2>1, FrameAddsFew
<1>11. blocks \in [DOMAIN blocks -> TextBlock_(texts)] /\ Show(blocks, m.layout)
    BY <1>3, <1>4, <1>7, FrameKeepsBlocks DEF blocks
<1>12. /\ client_layout' = m.layout
       /\ pending_removal' = pending_removal \cup
            (DOMAIN children \cap (Ids(m.existing) \cup Pruned))
    BY <1>8 DEF UpdateModel
<1>13. /\ DOMAIN children' = DOMAIN blocks
       /\ \A id \in DOMAIN blocks : children'[id] = Transfer(blocks[id])
    BY <1>5
<1>14. /\ \A id \in DOMAIN blocks :
            \/ IsNew(blocks[id])
            \/ id \in DOMAIN children /\ IsOld(blocks[id], children[id])
       /\ \A id \in DOMAIN children \ DOMAIN blocks : id \in Ids(m.existing) \cup Pruned
    BY <1>4, ChildrenAfterAre DEF blocks
<1>15. AllSent /\ DOMAIN children \subseteq Paragraph /\ pending_removal \subseteq Paragraph
    BY DEF CenterInv
<1>16. ASSUME NEW id \in DOMAIN blocks
       PROVE  /\ blocks[id] \in TextBlock_(texts) /\ blocks[id].hash \in {Unset, blocks[id].text}
              /\ children'[id] \in TextBlock_(texts)
              /\ children'[id].text = blocks[id].text
              /\ children'[id].location = blocks[id].location
              /\ children'[id].hash = blocks[id].text
              /\ children'[id].client_hash = blocks[id].text
              /\ children'[id].client_location = blocks[id].location
              /\ UpToDate(blocks[id]) =>
                    /\ blocks[id].client_hash = blocks[id].text
                    /\ blocks[id].client_location = blocks[id].location
    <2>1. blocks[id] \in TextBlock_(texts)
        BY <1>11
    <2>2. blocks[id].hash \in {Unset, blocks[id].text}
        BY <1>14, <1>15 DEF IsNew, IsOld, AllSent
    <2>. QED
        BY <2>1, <2>2, <1>13, TransferIs
<1>17. Blocks(texts)'
    <2>1. children' \in [DOMAIN children' -> TextBlock_(texts)]
        BY <1>13, <1>16, <1>5
    <2>2. Show(children', client_layout')
        <3>1. \A id : id \in DOMAIN children' <=> id \in Ids(client_layout')
            BY <1>11, <1>12, <1>13 DEF Show
        <3>2. ASSUME NEW i \in DOMAIN client_layout'
              PROVE  /\ children'[client_layout'[i].id].text = client_layout'[i].text
                     /\ children'[client_layout'[i].id].location = client_layout'[i].location
            <4>1. client_layout'[i].id \in DOMAIN blocks
                BY <3>1, <1>13 DEF Ids
            <4>. QED
                BY <4>1, <1>11, <1>12, <1>16 DEF Show
        <3>. QED
            BY <3>1, <3>2 DEF Show
    <2>. QED
        BY <2>1, <2>2 DEF Blocks
<1>18. DOMAIN children' \subseteq Paragraph
    <2>1. ASSUME NEW id \in DOMAIN children' PROVE id \in Paragraph
        <3>1. id \in Ids(client_layout')
            BY <1>17 DEF Blocks, Show
        <3>2. id \in 1 .. Len(rendered_paragraphs')
            BY <3>1, <1>9 DEF InUse, Id
        <3>3. rendered_paragraphs' \in Seq(Slot) /\ Len(rendered_paragraphs') =< MaxSlots
            BY <1>9, <1>10 DEF Typed, UnusedIsPruned
        <3>. QED
            BY <3>2, <3>3, BlocksAre DEF Paragraph
    <2>. QED
        BY <2>1
<1>19. pending_removal' \subseteq Paragraph /\ pending_removal \subseteq pending_removal'
    BY <1>12, <1>15
<1>20. DOMAIN children \ DOMAIN children' \subseteq pending_removal'
    BY <1>12, <1>13, <1>14
<1>21. AllSent'
    BY <1>13, <1>16 DEF AllSent
<1>22. /\ st.text \in StatusText /\ st.location = Home
       /\ status' \in StatusBlock
       /\ ~enclosed => ~UpToDate(st)
    <2>1. status \in StatusBlock /\ (~enclosed => status.client_location = Unset)
        BY DEF CenterInv
    <2>2. st = [status EXCEPT !.text = text, !.location = Home]
        BY <2>1 DEF render_string, set_wire, StatusBlock
    <2>3. st \in StatusBlock /\ st.text = text
        BY <2>1, <2>2 DEF StatusBlock
    <2>4. Hashed(st) \in StatusBlock
        BY <2>3 DEF Hashed, StatusBlock
    <2>5. Transfer(st) \in StatusBlock
        BY <2>3, <2>4 DEF Transfer, StatusBlock
    <2>6. st.client_location = status.client_location /\ st.location = Home /\ Home # Unset
        BY <2>1, <2>2, ContentsAssumption DEF StatusBlock
    <2>7. ~enclosed => ~UpToDate(st)
        BY <2>1, <2>6 DEF UpToDate
    <2>. QED
        BY <2>3, <2>5, <2>7, <1>5 DEF StatusBlock
<1> HIDE DEF st
<1>23. CenterInv'
    <2>1. FrameInv(texts)'
        BY <1>9, <1>17 DEF FrameInv
    <2>2. status' \in StatusBlock
        BY <1>22
    <2>3. enclosed' = TRUE
        BY <1>6
    <2>. QED
        BY <2>1, <2>2, <2>3, <1>10, <1>18, <1>19, <1>21 DEF CenterInv
<1>24. /\ IsFrame(c, blocks, pending_removal')
       /\ ~enclosed => \E i \in DOMAIN c : At(c, i, "new", Status)
    <2>1. blocks \in Blocks_
        BY <1>11, <1>13, <1>18, Zenon DEF Blocks_
    <2>2. enclosed \in BOOLEAN
        BY DEF CenterInv
    <2>3. pending_removal' \in SUBSET Paragraph
        BY <1>19
    <2>4. st.text \in StatusText /\ st.location = Home /\ (~enclosed => ~UpToDate(st))
        BY <1>22
    <2>5. /\ IsFrame(Messages(blocks, pending_removal', st, resized), blocks, pending_removal')
          /\ \/ UpToDate(st)
             \/ \E i \in DOMAIN Messages(blocks, pending_removal', st, resized) :
                    At(Messages(blocks, pending_removal', st, resized), i, "new", Status)
        BY <2>1, <2>2, <2>3, <2>4, MessagesAre
    <2>. QED
        BY <2>4, <2>5 DEF c
<1>25. ~enclosed => pending_removal' = {}
    BY <1>12 DEF CenterInv
<1>26. ASSUME NEW id \in DOMAIN blocks, UpToDate(blocks[id]) PROVE Same(id)
    <2>1. ~IsNew(blocks[id])
        BY <1>16, <1>26, ContentsAssumption DEF IsNew, TextBlock_
    <2>2. id \in DOMAIN children /\ IsOld(blocks[id], children[id])
        BY <2>1, <1>14
    <2>. QED
        BY <2>2, <1>15, <1>16, <1>26 DEF Same, IsOld, AllSent
<1>27. Sends(c)
    <2>1. /\ c \in Seq(Change_)
          /\ \E first, last \in Nat : InOrder(c, first, last)
          /\ SaysRemoved(c, pending_removal')
          /\ SaysTexts(c, blocks)
          /\ SaysPlaces(c, blocks)
          /\ MovesAreNew(c)
          /\ ListsLead(c, Locations(blocks))
          /\ NewsAreMoved(c)
          /\ ~enclosed => BoxesLead(c) /\ \E i \in DOMAIN c : At(c, i, "new", Status)
        BY <1>24, <1>25 DEF IsFrame
    <2>2. \A i \in DOMAIN c : c[i].op = "new" /\ c[i].block \in Paragraph =>
            c[i].block \in DOMAIN children' /\ c[i].wire = children'[c[i].block].text
        BY <2>1, <1>13, <1>16 DEF SaysTexts
    <2>3. \A i \in DOMAIN c : c[i].op = "move" /\ c[i].block \in Paragraph =>
            c[i].block \in DOMAIN children' /\ c[i].to = children'[c[i].block].location
        BY <2>1, <1>13, <1>16 DEF SaysPlaces
    <2>4. \A id \in DOMAIN children' :
            \/ Same(id)
            \/ /\ \E i \in DOMAIN c : At(c, i, "new", id)
               /\ \E i \in DOMAIN c : At(c, i, "move", id)
        BY <2>1, <1>13, <1>26 DEF SaysTexts, SaysPlaces
    <2>5. ListsLead(c, Locations(children'))
        <3>1. Locations(children') = Locations(blocks)
            BY <1>13, <1>16 DEF Locations
        <3>. QED
            BY <2>1, <3>1
    <2>. QED
        BY <2>1, <2>2, <2>3, <2>4, <2>5, <1>5 DEF Sends
<1>. QED
    BY <1>6, <1>19, <1>20, <1>23, <1>27

-----------------------------------------------------------------------------
(* A frame.                                                                *)

\* What is at a place in the channel after something is put on it.
Extends(new, old, c) ==
    /\ new \in Seq(Change_)
    /\ \A i \in DOMAIN old : i \in DOMAIN new /\ new[i] = old[i]
    /\ \A k \in DOMAIN c : Len(old) + k \in DOMAIN new /\ new[Len(old) + k] = c[k]
    /\ \A i \in DOMAIN new : i \in DOMAIN old \/ \E k \in DOMAIN c : i = Len(old) + k

LEMMA ExtendedIs ==
    ASSUME NEW old \in Seq(Change_), NEW c \in Seq(Change_)
    PROVE  Extends(old \o c, old, c)
<1> DEFINE new == old \o c
<1>1. /\ new \in Seq(Change_) /\ Len(new) = Len(old) + Len(c)
      /\ \A i \in 1 .. Len(old) : new[i] = old[i]
      /\ \A i \in 1 .. Len(c) : new[Len(old) + i] = c[i]
    BY ConcatIs
<1>2. Len(old) \in Nat /\ Len(c) \in Nat /\ DOMAIN old = 1 .. Len(old) /\ DOMAIN c = 1 .. Len(c)
    OBVIOUS
<1> HIDE DEF new
<1>3. DOMAIN new = 1 .. Len(old) + Len(c)
    BY <1>1
<1>4. \A i \in DOMAIN old : i \in DOMAIN new /\ new[i] = old[i]
    BY <1>1, <1>2, <1>3
<1>5. \A k \in DOMAIN c : Len(old) + k \in DOMAIN new /\ new[Len(old) + k] = c[k]
    BY <1>1, <1>2, <1>3
<1>6. ASSUME NEW i \in DOMAIN new, i \notin DOMAIN old
      PROVE  \E k \in DOMAIN c : i = Len(old) + k
    <2>1. i - Len(old) \in DOMAIN c /\ i = Len(old) + (i - Len(old))
        BY <1>2, <1>3, <1>6
    <2>. QED
        BY <2>1
<1>. QED
    BY <1>1, <1>4, <1>5, <1>6 DEF Extends, new

LEMMA FrameKeepsChannelInv ==
    ASSUME MaxGeneration \in Word, ScreenInv,
           NEW text \in StatusText, NEW resized \in BOOLEAN, sync_screen(text, resized)
    PROVE  ScreenInv'
<1>1. /\ CenterInv /\ channel \in Seq(Change_) /\ TreeInv
      /\ Led /\ MovesFollow /\ LeftoverIsNew /\ BoxesCome /\ RemovalsAreOld /\ LastTextIsRight
      /\ StaleLinesGoAway /\ TextsCome /\ LastPlaceIsRight /\ PlacesCome
    BY DEF ScreenInv, ChannelInv
<1>2. /\ CenterInv'
      /\ \E c : Sends(c)
      /\ pending_removal \subseteq pending_removal'
      /\ DOMAIN children \ DOMAIN children' \subseteq pending_removal'
      /\ enclosed' = TRUE
      /\ UNCHANGED <<clientVars, history>>
    BY <1>1, FrameIs
<1>3. PICK c : Sends(c)
    BY <1>2
<1> DEFINE n == Len(channel)
<1>4. /\ channel' = channel \o c
      /\ c \in Seq(Change_)
      /\ \E first, last \in Nat : InOrder(c, first, last)
      /\ SaysRemoved(c, pending_removal')
      /\ MovesAreNew(c)
      /\ ~enclosed => BoxesLead(c)
    BY <1>3 DEF Sends
<1>5. Extends(channel', channel, c)
    BY <1>1, <1>4, ExtendedIs
<1>6. /\ n \in Nat /\ DOMAIN channel = 1 .. n
      /\ DOMAIN c = 1 .. Len(c) /\ Len(c) \in Nat
    BY <1>1, <1>4
<1> HIDE DEF n
<1>7. channel' \in Seq(Change_)
    BY <1>5 DEF Extends
<1>8. ASSUME NEW i \in DOMAIN channel
      PROVE  /\ i \in DOMAIN channel' /\ channel'[i] = channel[i]
             /\ \A op, b : At(channel', i, op, b) <=> At(channel, i, op, b)
    BY <1>5 DEF Extends, At
<1>9. ASSUME NEW k \in DOMAIN c
      PROVE  /\ n + k \in DOMAIN channel' /\ channel'[n + k] = c[k]
             /\ \A op, b : At(channel', n + k, op, b) <=> At(c, k, op, b)
    BY <1>5 DEF Extends, At, n
<1>10. ASSUME NEW i \in DOMAIN channel', i \notin DOMAIN channel
       PROVE  \E k \in DOMAIN c : i = n + k
    BY <1>5, <1>10 DEF Extends, n
<1>11. shown' = shown /\ place' = place /\ leftover' = leftover
    BY <1>2 DEF clientVars, history
<1>12. TreeInv'
    BY <1>1, <1>11 DEF TreeInv, Client!Present
<1>13. \A op, b : \A i \in DOMAIN channel : At(channel, i, op, b) => At(channel', i, op, b)
    BY <1>8
<1>14. \A op, b : \A k \in DOMAIN c : At(c, k, op, b) => At(channel', n + k, op, b)
    BY <1>9
<1>15. Led'
    <2>1. ASSUME NEW i \in DOMAIN channel', NEW a \in Ancestors[channel'[i].block],
                 shown[a] = Absent
          PROVE  \E j \in 1 .. i - 1 : At(channel', j, "new", a)
        <3>1. CASE i \in DOMAIN channel
            <4>1. a \in Ancestors[channel[i].block]
                BY <3>1, <1>8
            <4>2. PICK j \in 1 .. i - 1 : At(channel, j, "new", a)
                BY <3>1, <4>1, <2>1, <1>1 DEF Led, Client!Present
            <4>3. j \in DOMAIN channel
                BY <4>2 DEF At
            <4>. QED
                BY <4>2, <4>3, <1>8
        <3>2. CASE i \notin DOMAIN channel
            <4>1. PICK k \in DOMAIN c : i = n + k
                BY <3>2, <1>10
            <4>2. a \in Ancestors[c[k].block]
                BY <4>1, <1>9
            <4>3. c[k] \in Change_
                BY <1>4
            <4>4. a \in Boxes
                BY <4>2, <4>3, ChangeIs, BlocksAre
            <4>5. CASE enclosed
                <5>1. PICK j \in DOMAIN channel : At(channel, j, "new", a)
                    BY <4>4, <4>5, <2>1, <1>1 DEF BoxesCome, Client!Present
                <5>2. j \in 1 .. i - 1
                    BY <4>1, <1>6
                <5>. QED
                    BY <5>1, <5>2, <1>8
            <4>6. CASE ~enclosed
                <5>1. PICK j \in 1 .. k - 1 : At(c, j, "new", a)
                    BY <4>2, <4>6, <1>4 DEF BoxesLead
                <5>2. n + j \in 1 .. i - 1 /\ j \in DOMAIN c
                    BY <4>1, <1>6, <5>1 DEF At
                <5>. QED
                    BY <5>1, <5>2, <1>9
            <4>. QED
                BY <4>5, <4>6
        <3>. QED
            BY <3>1, <3>2
    <2>. QED
        BY <2>1, <1>11 DEF Led, Client!Present
<1>16. MovesFollow'
    <2>1. ASSUME NEW i \in DOMAIN channel', channel'[i].op = "move", NEW b,
                 b = channel'[i].block
          PROVE  \/ shown[b] # Absent /\ \A k \in 1 .. i - 1 : ~At(channel', k, "remove", b)
                 \/ \E j \in 1 .. i - 1 : /\ At(channel', j, "new", b)
                        /\ \A k \in j + 1 .. i - 1 : ~At(channel', k, "remove", b)
        <3>1. CASE i \in DOMAIN channel
            <4>1. \A k \in 1 .. i - 1 : k \in DOMAIN channel
                BY <3>1, <1>6
            <4>2. \/ shown[b] # Absent /\ \A k \in 1 .. i - 1 : ~At(channel, k, "remove", b)
                  \/ \E j \in 1 .. i - 1 : /\ At(channel, j, "new", b)
                        /\ \A k \in j + 1 .. i - 1 : ~At(channel, k, "remove", b)
                BY <3>1, <2>1, <1>1, <1>8 DEF MovesFollow, Unremoved, Client!Present
            <4>3. \A j \in 1 .. i - 1 : \A k \in j + 1 .. i - 1 : k \in 1 .. i - 1
                BY <3>1, <1>6
            <4>. QED
                BY <4>1, <4>2, <4>3, <1>8
        <3>2. CASE i \notin DOMAIN channel
            <4>1. PICK k \in DOMAIN c : i = n + k
                BY <3>2, <1>10
            <4>2. c[k].op = "move" /\ c[k].block = b
                BY <4>1, <2>1, <1>9
            <4>3. PICK j \in DOMAIN c : At(c, j, "new", b)
                BY <4>2, <1>4 DEF MovesAreNew
            <4>4. PICK first, last \in Nat : InOrder(c, first, last)
                BY <1>4
            <4>5. c[j].op = "new"
                BY <4>3 DEF At
            <4>6. first < j /\ j =< last /\ last < k
                BY <4>2, <4>4, <4>5, <1>6 DEF InOrder
            <4>7. n + j \in 1 .. i - 1 /\ At(channel', n + j, "new", b)
                BY <4>1, <4>3, <4>6, <1>6, <1>9
            <4>8. ASSUME NEW q \in n + j + 1 .. i - 1 PROVE ~At(channel', q, "remove", b)
                <5>0. n \in Nat /\ k \in 1 .. Len(c) /\ j \in 1 .. Len(c) /\ Len(c) \in Nat
                    BY <1>6
                <5>1. q \in Int /\ n + j + 1 =< q /\ q =< n + k - 1
                    BY <4>1, <5>0
                <5>2. PICK p \in Int : p = q - n
                    BY <5>0, <5>1
                <5>3. p \in 1 .. Len(c) /\ q = n + p /\ first < p
                    <6> DEFINE l == Len(c)
                    <6>0. n \in Int /\ j \in Int /\ k \in Int /\ l \in Int /\ 1 =< j /\ k =< l
                        BY <5>0
                    <6> HIDE DEF l
                    <6>1. j + 1 =< p /\ p =< k - 1 /\ q = n + p
                        BY <5>1, <5>2, <6>0
                    <6>2. p \in 1 .. l
                        BY <6>0, <6>1
                    <6>3. first \in Nat /\ j \in Nat /\ p \in Int
                        BY <5>0
                    <6>4. first < p
                        BY <6>1, <6>3, <4>6
                    <6>. QED
                        BY <6>1, <6>2, <6>4 DEF l
                <5>4. p \in DOMAIN c /\ ~(p =< first)
                    BY <5>3, <1>6
                <5>5. c[p].op # "remove"
                    BY <5>4, <4>4 DEF InOrder
                <5>. QED
                    BY <5>3, <5>4, <5>5, <1>9 DEF At
            <4>. QED
                BY <4>7, <4>8
        <3>. QED
            BY <3>1, <3>2
    <2>. QED
        BY <2>1, <1>11, Zenon DEF MovesFollow, Unremoved, Client!Present
<1>17. BoxesCome'
    <2>1. ASSUME NEW b \in Boxes, shown[b] = Absent
          PROVE  \E i \in DOMAIN channel' : At(channel', i, "new", b)
        <3>1. CASE enclosed
            BY <3>1, <2>1, <1>1, <1>8 DEF BoxesCome, Client!Present
        <3>2. CASE ~enclosed
            BY <3>2, <1>4, <1>9 DEF BoxesLead
        <3>. QED
            BY <3>1, <3>2
    <2>. QED
        BY <2>1, <1>11 DEF BoxesCome, Client!Present
<1>18. RemovalsAreOld'
    <2>1. ASSUME NEW i \in DOMAIN channel', channel'[i].op = "remove"
          PROVE  channel'[i].block \in pending_removal'
        <3>1. CASE i \in DOMAIN channel
            BY <3>1, <2>1, <1>1, <1>2, <1>8 DEF RemovalsAreOld
        <3>2. CASE i \notin DOMAIN channel
            BY <3>2, <2>1, <1>4, <1>9, <1>10 DEF SaysRemoved
        <3>. QED
            BY <3>1, <3>2
    <2>. QED
        BY <2>1 DEF RemovalsAreOld
\* A block that is not there any more is removed in the frame.
<1>19. ASSUME NEW id \in DOMAIN children, id \notin DOMAIN children'
       PROVE  \E k \in DOMAIN c : At(c, k, "remove", id)
    BY <1>2, <1>4, <1>19 DEF SaysRemoved
<1>20. ASSUME NEW id \in DOMAIN children'
       PROVE  \/ Same(id)
              \/ /\ \E k \in DOMAIN c : At(c, k, "new", id)
                 /\ \E k \in DOMAIN c : At(c, k, "move", id)
    BY <1>3 DEF Sends
<1>21. ASSUME NEW i \in DOMAIN channel, NEW op, NEW id,
              \A k \in i + 1 .. Len(channel') : ~At(channel', k, op, id)
       PROVE  /\ \A k \in i + 1 .. Len(channel) : ~At(channel, k, op, id)
              /\ \A k \in DOMAIN c : ~At(c, k, op, id)
    <2>1. DOMAIN channel' = 1 .. Len(channel') /\ Len(channel') \in Nat
        BY <1>7
    <2>2. ASSUME NEW k \in i + 1 .. Len(channel) PROVE ~At(channel, k, op, id)
        <3>1. k \in DOMAIN channel
            BY <1>6 DEF n
        <3>2. k \in DOMAIN channel'
            BY <3>1, <1>8
        <3>3. k \in i + 1 .. Len(channel')
            BY <2>1, <3>2
        <3>. QED
            BY <3>1, <3>3, <1>8, <1>21
    <2>3. ASSUME NEW k \in DOMAIN c PROVE ~At(c, k, op, id)
        <3>1. n + k \in DOMAIN channel'
            BY <1>9
        <3>2. n + k \in i + 1 .. Len(channel')
            BY <2>1, <3>1, <1>6
        <3>. QED
            BY <3>2, <1>9, <1>21
    <2>. QED
        BY <2>2, <2>3
<1>22. LastTextIsRight'
    <2>1. ASSUME NEW i \in DOMAIN channel', NEW id \in Paragraph,
                 id = channel'[i].block, channel'[i].op = "new",
                 \A k \in i + 1 .. Len(channel') : ~At(channel', k, "new", id),
                 \A k \in i + 1 .. Len(channel') : ~At(channel', k, "remove", id)
          PROVE  id \in DOMAIN children' /\ channel'[i].wire = children'[id].text
        <3>1. CASE i \in DOMAIN channel
            <4>1. \A k \in i + 1 .. Len(channel) :
                    ~At(channel, k, "new", id) /\ ~At(channel, k, "remove", id)
                BY <3>1, <2>1, <1>21
            <4>2. channel[i].block = id /\ channel[i].op = "new" /\ channel'[i].wire = channel[i].wire
                BY <3>1, <2>1, <1>8
            <4>3. id \in DOMAIN children /\ channel[i].wire = children[id].text
                BY <3>1, <4>1, <4>2, <1>1 DEF LastTextIsRight
            <4>4. /\ \A k \in DOMAIN c : ~At(c, k, "remove", id)
                  /\ \A k \in DOMAIN c : ~At(c, k, "new", id)
                BY <3>1, <2>1, <1>21
            <4>5. id \in DOMAIN children'
                BY <4>3, <4>4, <1>19
            <4>6. Same(id)
                BY <4>4, <4>5, <1>20
            <4>. QED
                BY <4>2, <4>3, <4>5, <4>6 DEF Same
        <3>2. CASE i \notin DOMAIN channel
            <4>1. PICK k \in DOMAIN c : i = n + k
                BY <3>2, <1>10
            <4>2. c[k] = channel'[i]
                BY <4>1, <1>9
            <4>. QED
                BY <4>2, <2>1, <1>3 DEF Sends
        <3>. QED
            BY <3>1, <3>2
    <2>. QED
        BY <2>1 DEF LastTextIsRight
<1>23. StaleLinesGoAway'
    <2>1. ASSUME NEW id \in Paragraph \ leftover, shown[id] # Absent
          PROVE  \/ id \in DOMAIN children' /\ shown[id] = children'[id].text
                 \/ \E i \in DOMAIN channel' :
                    channel'[i].block = id /\ channel'[i].op \in {"new", "remove"}
        <3>1. CASE id \in DOMAIN children /\ shown[id] = children[id].text
            <4>1. CASE id \notin DOMAIN children'
                BY <3>1, <4>1, <1>9, <1>19 DEF At
            <4>2. CASE id \in DOMAIN children'
                <5>1. CASE Same(id)
                    BY <3>1, <4>2, <5>1 DEF Same
                <5>2. CASE \E k \in DOMAIN c : At(c, k, "new", id)
                    BY <5>2, <1>9 DEF At
                <5>. QED
                    BY <4>2, <5>1, <5>2, <1>20
            <4>. QED
                BY <4>1, <4>2
        <3>2. CASE \E i \in DOMAIN channel :
                    channel[i].block = id /\ channel[i].op \in {"new", "remove"}
            BY <3>2, <1>8
        <3>. QED
            BY <3>1, <3>2, <2>1, <1>1 DEF StaleLinesGoAway, Client!Present
    <2>. QED
        BY <2>1, <1>11 DEF StaleLinesGoAway, Client!Present
<1>24. TextsCome'
    <2>1. ASSUME NEW id \in DOMAIN children', id \notin pending_removal'
          PROVE  \/ shown[id] = children'[id].text
                 \/ \E i \in DOMAIN channel' : At(channel', i, "new", id)
        <3>1. CASE Same(id)
            <4>1. id \in DOMAIN children \ pending_removal /\ children'[id].text = children[id].text
                BY <3>1, <2>1, <1>2 DEF Same
            <4>. QED
                BY <4>1, <1>1, <1>8 DEF TextsCome
        <3>2. CASE \E k \in DOMAIN c : At(c, k, "new", id)
            BY <3>2, <1>9
        <3>. QED
            BY <3>1, <3>2, <1>20
    <2>. QED
        BY <2>1, <1>11 DEF TextsCome
<1>25. LastPlaceIsRight'
    <2>1. ASSUME NEW i \in DOMAIN channel', NEW id \in DOMAIN children',
                 id \notin pending_removal', id = channel'[i].block, channel'[i].op = "move",
                 \A k \in i + 1 .. Len(channel') : ~At(channel', k, "move", id)
          PROVE  channel'[i].to = children'[id].location
        <3>1. CASE i \in DOMAIN channel
            <4>1. /\ \A k \in i + 1 .. Len(channel) : ~At(channel, k, "move", id)
                  /\ \A k \in DOMAIN c : ~At(c, k, "move", id)
                BY <3>1, <2>1, <1>21
            <4>2. Same(id)
                BY <4>1, <1>20
            <4>3. id \in DOMAIN children \ pending_removal
                  /\ children'[id].location = children[id].location
                BY <4>2, <2>1, <1>2 DEF Same
            <4>4. channel'[i] = channel[i]
                BY <3>1, <1>8
            <4>. QED
                BY <3>1, <4>1, <4>3, <4>4, <2>1, <1>1 DEF LastPlaceIsRight
        <3>2. CASE i \notin DOMAIN channel
            <4>1. PICK k \in DOMAIN c : i = n + k
                BY <3>2, <1>10
            <4>2. c[k] = channel'[i]
                BY <4>1, <1>9
            <4>3. id \in Paragraph
                BY <1>2 DEF CenterInv
            <4>. QED
                BY <4>2, <4>3, <2>1, <1>3 DEF Sends
        <3>. QED
            BY <3>1, <3>2
    <2>. QED
        BY <2>1 DEF LastPlaceIsRight
<1>26. PlacesCome'
    <2>1. ASSUME NEW id \in DOMAIN children', id \notin pending_removal'
          PROVE  \/ place[id] = children'[id].location
                 \/ \E i \in DOMAIN channel' : At(channel', i, "move", id)
        <3>1. CASE Same(id)
            <4>1. id \in DOMAIN children \ pending_removal
                  /\ children'[id].location = children[id].location
                BY <3>1, <2>1, <1>2 DEF Same
            <4>. QED
                BY <4>1, <1>1, <1>8 DEF PlacesCome
        <3>2. CASE \E k \in DOMAIN c : At(c, k, "move", id)
            BY <3>2, <1>9
        <3>. QED
            BY <3>1, <3>2, <1>20
    <2>. QED
        BY <2>1, <1>11 DEF PlacesCome
<1>27. LeftoverIsNew'
    <2>1. ASSUME NEW i \in DOMAIN channel', channel'[i].op = "move",
                 channel'[i].block \in leftover
          PROVE  \E j \in 1 .. i - 1 : At(channel', j, "new", channel'[i].block)
        <3>1. CASE i \in DOMAIN channel
            <4>1. PICK j \in 1 .. i - 1 : At(channel, j, "new", channel[i].block)
                BY <3>1, <2>1, <1>1, <1>8 DEF LeftoverIsNew
            <4>2. j \in DOMAIN channel
                BY <4>1 DEF At
            <4>. QED
                BY <4>1, <4>2, <3>1, <1>8
        <3>2. CASE i \notin DOMAIN channel
            <4>1. PICK k \in DOMAIN c : i = n + k
                BY <3>2, <1>10
            <4>2. c[k].op = "move" /\ channel'[i].block = c[k].block
                BY <4>1, <2>1, <1>9
            <4>3. PICK j \in DOMAIN c : At(c, j, "new", c[k].block)
                BY <4>2, <1>4 DEF MovesAreNew
            <4>4. PICK first, last \in Nat : InOrder(c, first, last)
                BY <1>4
            <4>5. c[j].op = "new"
                BY <4>3 DEF At
            <4>6. j =< last /\ last < k
                BY <4>2, <4>4, <4>5, <1>6 DEF InOrder
            <4>7. n + j \in 1 .. i - 1 /\ At(channel', n + j, "new", c[k].block)
                BY <4>1, <4>3, <4>6, <1>6, <1>9
            <4>. QED
                BY <4>2, <4>7
        <3>. QED
            BY <3>1, <3>2
    <2>. QED
        BY <2>1, <1>11 DEF LeftoverIsNew
<1>. QED
    BY <1>2, <1>7, <1>12, <1>15, <1>16, <1>17, <1>18, <1>22, <1>23, <1>24, <1>25, <1>26,
       <1>27
       DEF ScreenInv, ChannelInv

-----------------------------------------------------------------------------
(* The client takes in a change.                                           *)

LEMMA ServerRests ==
    ASSUME CenterInv, UNCHANGED serverVars
    PROVE  CenterInv'
<1>1. /\ current_generation' = current_generation
      /\ rendered_paragraphs' = rendered_paragraphs
      /\ client_layout' = client_layout /\ children' = children
      /\ pending_removal' = pending_removal /\ status' = status /\ enclosed' = enclosed
    BY DEF serverVars, vars
<1>2. FrameInv(Text \cup {NoText})'
    BY <1>1 DEF CenterInv, FrameInv, Typed, InUse, Young, Blocks, Id
<1>3. FewInEach(rendered_paragraphs)' /\ UnusedIsPruned' /\ AllSent'
    BY <1>1 DEF CenterInv, UnusedIsPruned, AllSent
<1>. QED
    BY <1>1, <1>2, <1>3 DEF CenterInv

\* What the tree is after a change.
TakesIn(c) ==
    /\ shown' = [b \in Block |-> shown'[b]]
    /\ place' = [b \in Block |-> place'[b]]
    /\ \A b \in Block \ {c.block} : shown'[b] = shown[b] /\ place'[b] = place[b]
    /\ c.op = "new" =>
        /\ shown'[c.block] = c.wire /\ place'[c.block] = place[c.block]
        /\ \A a \in Ancestors[c.block] : shown[a] # Absent
    /\ c.op = "remove" => shown'[c.block] = Absent /\ place'[c.block] = Unset
    /\ c.op = "move" =>
        /\ shown[c.block] # Absent
        /\ shown'[c.block] = shown[c.block] /\ place'[c.block] = c.to

ReceiveAny ==
    ReceiveNew \/ ReceiveUpdate \/ ReceiveRemove \/ ReceiveMove \/ ReceiveInVain

LEMMA HeadIs ==
    ASSUME ScreenInv, channel # <<>>
    PROVE  /\ Client!Addressable(channel[1].block)
           /\ channel[1].op = "move" => Client!Present(channel[1].block)
<1>1. /\ channel \in Seq(Change_) /\ TreeInv /\ Led /\ MovesFollow
    BY DEF ScreenInv, ChannelInv
<1>2. channel[1] \in Change_ /\ 1 \in DOMAIN channel
    BY <1>1
<1>3. ASSUME NEW a \in Ancestors[channel[1].block] PROVE shown[a] \in {Box}
    <2>1. a \in Boxes
        BY <1>2, ChangeIs, BlocksAre
    <2>2. shown[a] # Absent
        BY <1>1, <1>2 DEF Led, Client!Present
    <2>. QED
        BY <2>1, <2>2, <1>1 DEF TreeInv
<1>4. channel[1].op = "move" => Client!Present(channel[1].block)
    BY <1>1, <1>2 DEF MovesFollow
<1>. QED
    BY <1>3, <1>4 DEF Client!Addressable

LEMMA ReceiveIs ==
    ASSUME ScreenInv, ReceiveAny
    PROVE  /\ channel # <<>> /\ channel' = Tail(channel)
           /\ UNCHANGED serverVars
           /\ leftover' = leftover \ {channel[1].block}
           /\ TakesIn(channel[1])
<1> DEFINE c == channel[1]
           b == c.block
<1>1. /\ channel # <<>> /\ channel' = Tail(channel) /\ UNCHANGED serverVars
      /\ leftover' = leftover \ {Head(channel).block}
    BY DEF ReceiveAny, ReceiveNew, ReceiveUpdate, ReceiveRemove, ReceiveMove,
           ReceiveInVain, Receive
<1>2. channel \in Seq(Change_) /\ TreeInv
    BY DEF ScreenInv
<1>3. Head(channel) = c /\ c \in Change_
    BY <1>1, <1>2
<1>4. HeadBlock = b
    BY <1>3 DEF HeadBlock
<1>5. /\ Client!Addressable(b)
      /\ c.op = "move" => Client!Present(b)
    BY <1>1, HeadIs
<1> HIDE DEF c
<1>6. b \in Block
    BY <1>3, ChangeIs
<1>7. \A a \in Ancestors[b] : shown[a] # Absent
    BY <1>5, ContentsAssumption DEF Client!Addressable
<1>8. /\ DOMAIN shown = Block /\ DOMAIN place = Block
      /\ shown = [x \in Block |-> shown[x]] /\ place = [x \in Block |-> place[x]]
    BY <1>2 DEF TreeInv
<1>9. CASE ReceiveNew
    <2>1. c.op = "new" /\ shown[b] = Absent /\ Client!Put(b, c.wire)
        BY <1>3, <1>4, <1>9 DEF ReceiveNew, Receive, Client!Present
    <2>2. /\ shown' = [x \in Block |-> IF x = b THEN c.wire
                                       ELSE IF x \in Client!Below(b) THEN Absent
                                       ELSE shown[x]]
          /\ place' = [x \in Block |-> IF x \in Client!Below(b) THEN Unset ELSE place[x]]
        BY <2>1 DEF Client!Put
    <2>3. ASSUME NEW x \in Client!Below(b)
          PROVE  x \in Block /\ shown[x] = Absent /\ place[x] = Unset
        BY <2>1, <1>2 DEF Client!Below, TreeInv, Client!Present
    <2>4. \A x \in Block : /\ x # b => shown'[x] = shown[x]
                           /\ place'[x] = place[x]
        BY <2>2, <2>3
    <2>5. shown'[b] = c.wire
        BY <2>2, <1>6
    <2>6. shown' = [x \in Block |-> shown'[x]] /\ place' = [x \in Block |-> place'[x]]
        BY <2>2
    <2>. QED
        <3>1. /\ \A x \in Block \ {b} : shown'[x] = shown[x] /\ place'[x] = place[x]
              /\ shown'[b] = c.wire /\ place'[b] = place[b]
            BY <1>6, <2>4, <2>5
        <3>2. TakesIn(c)
            BY <1>7, <2>1, <2>6, <3>1, Zenon DEF TakesIn
        <3>. QED
            BY <1>1, <3>2 DEF c
<1>10. CASE ReceiveUpdate
    <2>1. c.op = "new" /\ shown' = [shown EXCEPT ![b] = c.wire] /\ place' = place
        BY <1>3, <1>4, <1>10 DEF ReceiveUpdate, Receive, Client!Change
    <2>. QED
        BY <1>1, <1>6, <1>7, <1>8, <2>1 DEF TakesIn, c
<1>11. CASE ReceiveRemove
    <2>1. c.op = "remove" /\ Client!Remove(b)
        BY <1>3, <1>4, <1>11 DEF ReceiveRemove, Receive
    <2>2. b \in Paragraph
        BY <2>1, <1>3, ChangeIs
    <2>3. Client!Below(b) = {}
        BY <2>2, BlocksAre DEF Client!Below
    <2>4. /\ shown' = [x \in Block |-> IF x \in Client!Below(b) \cup {b} THEN Absent
                                       ELSE shown[x]]
          /\ place' = [x \in Block |-> IF x \in Client!Below(b) \cup {b} THEN Unset
                                       ELSE place[x]]
        BY <2>1 DEF Client!Remove
    <2>. QED
        BY <1>1, <1>6, <2>1, <2>3, <2>4 DEF TakesIn, c
<1>12. CASE ReceiveMove
    <2>1. /\ c.op = "move" /\ shown[b] # Absent
          /\ place' = [place EXCEPT ![b] = c.to] /\ shown' = shown
        BY <1>3, <1>4, <1>12 DEF ReceiveMove, Receive, Client!Move, Client!Present
    <2>. QED
        BY <1>1, <1>6, <1>8, <2>1 DEF TakesIn, c
<1>13. CASE ReceiveInVain
    <2>1. /\ c.op \in {"new", "move", "remove"} /\ shown[b] = Absent
          /\ c.op = "new" => ~Client!Addressable(b)
          /\ shown' = shown /\ place' = place
        BY <1>3, <1>4, <1>13 DEF ReceiveInVain, Receive, Client!Present, clientVars
    <2>2. c.op = "remove"
        BY <2>1, <1>5 DEF Client!Present
    <2>3. place[b] = Unset
        BY <2>1, <1>2, <1>6 DEF TreeInv, Client!Present
    <2>. QED
        BY <1>1, <1>6, <1>8, <2>1, <2>2, <2>3 DEF TakesIn, c
<1>. QED
    BY <1>9, <1>10, <1>11, <1>12, <1>13 DEF ReceiveAny

LEMMA ReceiveKeepsInv ==
    ASSUME ScreenInv, ReceiveAny
    PROVE  ScreenInv'
<1> DEFINE c == channel[1]
           b == c.block
<1>1. /\ CenterInv /\ channel \in Seq(Change_) /\ TreeInv
      /\ Led /\ MovesFollow /\ LeftoverIsNew /\ BoxesCome /\ RemovalsAreOld /\ LastTextIsRight
      /\ StaleLinesGoAway /\ TextsCome /\ LastPlaceIsRight /\ PlacesCome
    BY DEF ScreenInv, ChannelInv
<1>2. /\ channel # <<>> /\ channel' = Tail(channel)
      /\ UNCHANGED serverVars
      /\ leftover' = leftover \ {b}
      /\ TakesIn(c)
    BY ReceiveIs
<1>3. CenterInv'
    BY <1>1, <1>2, ServerRests
<1>4. /\ children' = children /\ pending_removal' = pending_removal /\ enclosed' = enclosed
    BY <1>2 DEF serverVars, vars
<1>5. /\ c \in Change_ /\ channel' \in Seq(Change_)
      /\ Len(channel') = Len(channel) - 1 /\ Len(channel) \in Nat \ {0}
      /\ \A i \in DOMAIN channel' : i + 1 \in DOMAIN channel /\ channel'[i] = channel[i + 1]
      /\ \A i \in DOMAIN channel :
            i # 1 => i - 1 \in DOMAIN channel' /\ channel'[i - 1] = channel[i]
    BY <1>1, <1>2, TailAt
<1> HIDE DEF c
<1>6. DOMAIN channel = 1 .. Len(channel) /\ DOMAIN channel' = 1 .. Len(channel')
    BY <1>1, <1>5
<1>7. ASSUME NEW i \in DOMAIN channel'
      PROVE  /\ i \in Nat /\ i + 1 \in DOMAIN channel /\ channel'[i] = channel[i + 1]
             /\ \A op, x : At(channel', i, op, x) <=> At(channel, i + 1, op, x)
    BY <1>5, <1>6 DEF At
<1>8. ASSUME NEW i \in DOMAIN channel, i # 1
      PROVE  /\ i \in Nat /\ i > 1 /\ i - 1 \in DOMAIN channel' /\ channel'[i - 1] = channel[i]
             /\ \A op, x : At(channel', i - 1, op, x) <=> At(channel, i, op, x)
    BY <1>5, <1>6, <1>8 DEF At
<1>9. ASSUME NEW op, NEW x, At(channel, 1, op, x) PROVE c.op = op /\ b = x
    BY <1>9 DEF At, c
<1>10. /\ c.op \in {"new", "move", "remove"} /\ b \in Block
       /\ c.op = "new" => \/ b \in Boxes /\ c.wire = Box
                          \/ b \in Block \ Boxes /\ c.wire \in TextWire
       /\ c.op = "remove" => b \in Paragraph
       /\ c.op = "move" => c.to \in Nat \cup {Home}
    BY <1>5, ChangeIs
<1>11. /\ \A x \in Block \ {b} : shown'[x] = shown[x] /\ place'[x] = place[x]
       /\ c.op = "new" => /\ shown'[b] = c.wire /\ place'[b] = place[b]
                          /\ \A a \in Ancestors[b] : shown[a] # Absent
       /\ c.op = "remove" => shown'[b] = Absent /\ place'[b] = Unset
       /\ c.op = "move" => /\ shown[b] # Absent
                           /\ shown'[b] = shown[b] /\ place'[b] = c.to
    BY <1>2 DEF TakesIn
<1>12. shown' = [x \in Block |-> shown'[x]] /\ place' = [x \in Block |-> place'[x]]
    BY <1>2 DEF TakesIn
<1>13. Absent \notin TextWire /\ Absent # Box /\ Box \notin TextWire
    BY BlocksAre
\* What is there stays, unless it is removed.
<1>14. ASSUME NEW x \in Block, shown[x] # Absent, ~(c.op = "remove" /\ b = x)
       PROVE  shown'[x] # Absent
    BY <1>10, <1>11, <1>13, <1>14
<1>15. ASSUME NEW x \in Block, c.op = "new", b = x PROVE shown'[x] # Absent
    BY <1>10, <1>11, <1>13, <1>15
<1>16. ASSUME NEW a \in Boxes PROVE a \in Block /\ ~(c.op = "remove" /\ b = a)
    BY <1>10, BlocksAre DEF Block
<1>17. TreeInv'
    <2>1. ASSUME NEW x \in Block
          PROVE  /\ shown'[x] \in TextWire \cup {Box, Absent}
                 /\ x \in Boxes => shown'[x] \in {Box, Absent}
                 /\ x \notin Boxes => shown'[x] # Box
        <3>1. /\ shown[x] \in TextWire \cup {Box, Absent}
              /\ x \in Boxes => shown[x] \in {Box, Absent}
              /\ x \notin Boxes => shown[x] # Box
            BY <1>1 DEF TreeInv
        <3>2. CASE x # b
            BY <3>1, <3>2, <1>11
        <3>3. CASE x = b
            BY <3>1, <3>3, <1>10, <1>11, <1>13
        <3>. QED
            BY <3>2, <3>3
    <2>2. ASSUME NEW x \in Block PROVE place'[x] \in Nat \cup {Home, Unset}
        <3>1. place[x] \in Nat \cup {Home, Unset}
            BY <1>1 DEF TreeInv
        <3>. QED
            BY <3>1, <1>10, <1>11
    <2>3. ASSUME NEW x \in Block, shown'[x] # Absent, NEW a \in Ancestors[x]
          PROVE  shown'[a] # Absent
        <3>1. a \in Boxes
            BY BlocksAre
        <3>2. shown[a] # Absent
            <4>1. CASE shown[x] # Absent
                BY <4>1, <1>1 DEF TreeInv, Client!Present
            <4>2. CASE shown[x] = Absent
                BY <4>2, <2>3, <1>10, <1>11
            <4>. QED
                BY <4>1, <4>2
        <3>. QED
            BY <3>1, <3>2, <1>14, <1>16
    <2>4. ASSUME NEW x \in Block, shown'[x] = Absent PROVE place'[x] = Unset
        <3>1. CASE x # b
            BY <3>1, <2>4, <1>1, <1>11 DEF TreeInv, Client!Present
        <3>2. CASE x = b
            BY <3>2, <2>4, <1>10, <1>11, <1>15
        <3>. QED
            BY <3>1, <3>2
    <2>5. shown' \in [Block -> TextWire \cup {Box, Absent}]
        BY <2>1, <1>12, Zenon
    <2>6. place' \in [Block -> Nat \cup {Home, Unset}]
        BY <2>2, <1>12, Zenon
    <2>7. Boxes \subseteq Block
        BY <1>16
    <2>. QED
        BY <2>1, <2>3, <2>4, <2>5, <2>6, <2>7 DEF TreeInv, Client!Present
<1>18. Led'
    <2>1. ASSUME NEW i \in DOMAIN channel', NEW a \in Ancestors[channel'[i].block],
                 shown'[a] = Absent
          PROVE  \E j \in 1 .. i - 1 : At(channel', j, "new", a)
        <3>1. /\ i \in Nat /\ i + 1 \in DOMAIN channel /\ a \in Ancestors[channel[i + 1].block]
              /\ channel[i + 1] \in Change_
            BY <1>1, <1>7
        <3>2. a \in Boxes
            BY <3>1, ChangeIs, BlocksAre
        <3>3. shown[a] = Absent
            BY <3>2, <2>1, <1>14, <1>16
        <3>4. PICK j \in 1 .. (i + 1) - 1 : At(channel, j, "new", a)
            BY <3>1, <3>3, <1>1 DEF Led, Client!Present
        <3>5. j # 1
            BY <3>2, <3>4, <2>1, <1>9, <1>15, <1>16
        <3>6. j \in DOMAIN channel
            BY <3>4 DEF At
        <3>7. j - 1 \in 1 .. i - 1 /\ At(channel', j - 1, "new", a)
            BY <3>1, <3>4, <3>5, <3>6, <1>8
        <3>. QED
            BY <3>7
    <2>. QED
        BY <2>1 DEF Led, Client!Present
<1>19. MovesFollow'
    <2>1. ASSUME NEW i \in DOMAIN channel', channel'[i].op = "move", NEW x,
                 x = channel'[i].block
          PROVE  \/ shown'[x] # Absent /\ \A k \in 1 .. i - 1 : ~At(channel', k, "remove", x)
                 \/ \E j \in 1 .. i - 1 : /\ At(channel', j, "new", x)
                        /\ \A k \in j + 1 .. i - 1 : ~At(channel', k, "remove", x)
        <3>1. /\ i \in Nat /\ i + 1 \in DOMAIN channel
              /\ channel[i + 1].op = "move" /\ channel[i + 1].block = x
              /\ channel[i + 1] \in Change_
            BY <1>1, <1>7, <2>1
        <3>2. x \in Block
            BY <3>1, ChangeIs
        <3>3. \/ shown[x] # Absent /\ \A k \in 1 .. i : ~At(channel, k, "remove", x)
              \/ \E j \in 1 .. i : /\ At(channel, j, "new", x)
                                  /\ \A k \in j + 1 .. i : ~At(channel, k, "remove", x)
            <4>1. (i + 1) - 1 = i
                BY <3>1
            <4>. QED
                BY <3>1, <4>1, <1>1 DEF MovesFollow, Unremoved, Client!Present
        <3>4. \A k \in 1 .. i - 1 : k \in DOMAIN channel' /\ k + 1 \in 1 .. i
            BY <3>1, <1>6
        <3>5. CASE shown[x] # Absent /\ \A k \in 1 .. i : ~At(channel, k, "remove", x)
            <4>1. ~(c.op = "remove" /\ b = x)
                <5>1. ~At(channel, 1, "remove", x) /\ 1 \in DOMAIN channel
                    BY <3>1, <3>5, <1>5, <1>6
                <5>. QED
                    BY <5>1 DEF At, c
            <4>2. shown'[x] # Absent
                BY <3>2, <3>5, <4>1, <1>14
            <4>3. \A k \in 1 .. i - 1 : ~At(channel', k, "remove", x)
                BY <3>4, <3>5, <1>7
            <4>. QED
                BY <4>2, <4>3
        <3>6. ASSUME NEW j \in 1 .. i, At(channel, j, "new", x),
                     \A k \in j + 1 .. i : ~At(channel, k, "remove", x)
              PROVE  \/ shown'[x] # Absent
                            /\ \A k \in 1 .. i - 1 : ~At(channel', k, "remove", x)
                     \/ \E q \in 1 .. i - 1 : /\ At(channel', q, "new", x)
                            /\ \A k \in q + 1 .. i - 1 : ~At(channel', k, "remove", x)
            <4>1. CASE j = 1
                <5>1. shown'[x] # Absent
                    BY <3>2, <3>6, <4>1, <1>9, <1>15
                <5>2. ASSUME NEW k \in 1 .. i - 1 PROVE ~At(channel', k, "remove", x)
                    <6>1. k \in DOMAIN channel' /\ k + 1 \in j + 1 .. i
                        BY <3>1, <3>4, <4>1
                    <6>. QED
                        BY <6>1, <3>6, <1>7
                <5>. QED
                    BY <5>1, <5>2
            <4>2. CASE j # 1
                <5>1. j \in DOMAIN channel
                    BY <3>6 DEF At
                <5>2. j - 1 \in 1 .. i - 1 /\ At(channel', j - 1, "new", x)
                    BY <3>1, <3>6, <4>2, <5>1, <1>8
                <5>3. ASSUME NEW k \in (j - 1) + 1 .. i - 1 PROVE ~At(channel', k, "remove", x)
                    <6>1. k \in 1 .. i - 1 /\ k + 1 \in j + 1 .. i
                        BY <3>1, <5>2
                    <6>. QED
                        BY <6>1, <3>4, <3>6, <1>7
                <5>. QED
                    BY <5>2, <5>3
            <4>. QED
                BY <4>1, <4>2
        <3>. QED
            BY <3>3, <3>5, <3>6
    <2>. QED
        BY <2>1, Zenon DEF MovesFollow, Unremoved, Client!Present
<1>20. BoxesCome'
    <2>1. ASSUME enclosed, NEW a \in Boxes, shown'[a] = Absent
          PROVE  \E i \in DOMAIN channel' : At(channel', i, "new", a)
        <3>1. shown[a] = Absent
            BY <2>1, <1>14, <1>16
        <3>2. PICK i \in DOMAIN channel : At(channel, i, "new", a)
            BY <2>1, <3>1, <1>1 DEF BoxesCome, Client!Present
        <3>3. i # 1
            BY <3>2, <2>1, <1>9, <1>15, <1>16
        <3>. QED
            BY <3>2, <3>3, <1>8
    <2>. QED
        BY <2>1, <1>4 DEF BoxesCome, Client!Present
<1>21. RemovalsAreOld'
    BY <1>1, <1>4, <1>7 DEF RemovalsAreOld
\* What comes after a change comes after it when the channel is shorter, too.
<1>22. ASSUME NEW i \in DOMAIN channel', NEW op, NEW x,
              \A k \in i + 1 .. Len(channel') : ~At(channel', k, op, x)
       PROVE  \A k \in (i + 1) + 1 .. Len(channel) : ~At(channel, k, op, x)
    <2>1. ASSUME NEW k \in (i + 1) + 1 .. Len(channel), At(channel, k, op, x) PROVE FALSE
        <3>1. i \in Nat /\ i >= 1
            BY <1>5, <1>6
        <3>2. k \in DOMAIN channel /\ k # 1 /\ k - 1 \in i + 1 .. Len(channel')
            BY <3>1, <1>5, <1>6
        <3>. QED
            BY <3>2, <2>1, <1>8, <1>22
    <2>. QED
        BY <2>1
<1>23. LastTextIsRight'
    <2>1. ASSUME NEW i \in DOMAIN channel', NEW id \in Paragraph,
                 id = channel'[i].block, channel'[i].op = "new",
                 \A k \in i + 1 .. Len(channel') : ~At(channel', k, "new", id),
                 \A k \in i + 1 .. Len(channel') : ~At(channel', k, "remove", id)
          PROVE  id \in DOMAIN children /\ channel'[i].wire = children[id].text
        <3>1. i + 1 \in DOMAIN channel /\ channel'[i] = channel[i + 1]
            BY <1>7
        <3>2. \A k \in (i + 1) + 1 .. Len(channel) :
                ~At(channel, k, "new", id) /\ ~At(channel, k, "remove", id)
            BY <2>1, <1>22
        <3>. QED
            BY <3>1, <3>2, <2>1, <1>1 DEF LastTextIsRight
    <2>. QED
        BY <2>1, <1>4 DEF LastTextIsRight
\* When the text of a paragraph arrives, it is the right one, or not the last.
<1>24. ASSUME NEW id \in Paragraph, c.op = "new", b = id
       PROVE  \/ id \in DOMAIN children /\ shown'[id] = children[id].text
              \/ \E i \in DOMAIN channel' : At(channel', i, "new", id)
              \/ \E i \in DOMAIN channel' : At(channel', i, "remove", id)
    <2>1. CASE \A k \in 1 + 1 .. Len(channel) :
                ~At(channel, k, "new", id) /\ ~At(channel, k, "remove", id)
        <3>1. 1 \in DOMAIN channel
            BY <1>5, <1>6
        <3>2. id \in DOMAIN children /\ channel[1].wire = children[id].text
            BY <2>1, <3>1, <1>1, <1>24 DEF LastTextIsRight, c
        <3>. QED
            BY <3>2, <1>11, <1>24 DEF c
    <2>2. ASSUME NEW k \in 1 + 1 .. Len(channel),
                 At(channel, k, "new", id) \/ At(channel, k, "remove", id)
          PROVE  \E i \in DOMAIN channel' :
                    At(channel', i, "new", id) \/ At(channel', i, "remove", id)
        <3>1. k \in DOMAIN channel /\ k # 1
            BY <1>5, <1>6
        <3>. QED
            BY <3>1, <2>2, <1>8
    <2>. QED
        BY <2>1, <2>2
<1>25. StaleLinesGoAway'
    <2>1. ASSUME NEW id \in Paragraph \ leftover', shown'[id] # Absent
          PROVE  \/ id \in DOMAIN children /\ shown'[id] = children[id].text
                 \/ \E i \in DOMAIN channel' :
                    channel'[i].block = id /\ channel'[i].op \in {"new", "remove"}
        <3>0. id \in Block
            BY DEF Block
        <3>1. CASE c.op = "new" /\ b = id
            BY <3>1, <1>24 DEF At
        <3>2. CASE ~(c.op = "new" /\ b = id)
            <4>0. id \notin leftover
                <5>1. CASE b # id
                    BY <5>1, <2>1, <1>2
                <5>2. CASE b = id /\ c.op = "move"
                    <6>1. 1 \in DOMAIN channel /\ 1 .. 1 - 1 = {}
                        BY <1>5, <1>6
                    <6>. QED
                        BY <5>2, <6>1, <1>1 DEF LeftoverIsNew, c
                <5>3. CASE b = id /\ c.op = "remove"
                    BY <5>3, <2>1, <1>11
                <5>. QED
                    BY <3>2, <5>1, <5>2, <5>3, <1>10
            <4>1. shown'[id] = shown[id] /\ ~(c.op = "remove" /\ b = id)
                BY <3>0, <3>2, <2>1, <1>10, <1>11
            <4>2. CASE id \in DOMAIN children /\ shown[id] = children[id].text
                BY <4>1, <4>2
            <4>3. CASE \E i \in DOMAIN channel :
                        channel[i].block = id /\ channel[i].op \in {"new", "remove"}
                <5>1. PICK i \in DOMAIN channel :
                        channel[i].block = id /\ channel[i].op \in {"new", "remove"}
                    BY <4>3
                <5>2. i # 1
                    BY <5>1, <3>2, <4>1 DEF c
                <5>. QED
                    BY <5>1, <5>2, <1>8
            <4>. QED
                BY <4>0, <4>1, <4>2, <4>3, <2>1, <1>1 DEF StaleLinesGoAway, Client!Present
        <3>. QED
            BY <3>1, <3>2
    <2>. QED
        BY <2>1, <1>4 DEF StaleLinesGoAway, Client!Present
<1>26. ASSUME NEW id \in DOMAIN children, id \notin pending_removal
       PROVE  /\ id \in Paragraph /\ id \in Block
              /\ \A i \in DOMAIN channel : ~At(channel, i, "remove", id)
              /\ ~(c.op = "remove" /\ b = id)
    <2>1. id \in Paragraph
        BY <1>1 DEF CenterInv
    <2>2. \A i \in DOMAIN channel : ~At(channel, i, "remove", id)
        BY <1>1, <1>26 DEF RemovalsAreOld, At
    <2>3. 1 \in DOMAIN channel
        BY <1>5, <1>6
    <2>. QED
        BY <2>1, <2>2, <2>3 DEF Block, At, c
<1>27. TextsCome'
    <2>1. ASSUME NEW id \in DOMAIN children, id \notin pending_removal
          PROVE  \/ shown'[id] = children[id].text
                 \/ \E i \in DOMAIN channel' : At(channel', i, "new", id)
        <3>1. CASE c.op = "new" /\ b = id
            <4>1. \A i \in DOMAIN channel' : ~At(channel', i, "remove", id)
                BY <2>1, <1>7, <1>26
            <4>. QED
                BY <3>1, <4>1, <2>1, <1>24, <1>26
        <3>2. CASE ~(c.op = "new" /\ b = id)
            <4>1. shown'[id] = shown[id]
                BY <3>2, <2>1, <1>10, <1>11, <1>26
            <4>2. CASE shown[id] = children[id].text
                BY <4>1, <4>2
            <4>3. CASE \E i \in DOMAIN channel : At(channel, i, "new", id)
                <5>1. PICK i \in DOMAIN channel : At(channel, i, "new", id)
                    BY <4>3
                <5>2. i # 1
                    BY <5>1, <3>2, <1>9
                <5>. QED
                    BY <5>1, <5>2, <1>8
            <4>. QED
                BY <4>2, <4>3, <2>1, <1>1 DEF TextsCome
        <3>. QED
            BY <3>1, <3>2
    <2>. QED
        BY <2>1, <1>4 DEF TextsCome
<1>28. LastPlaceIsRight'
    <2>1. ASSUME NEW i \in DOMAIN channel', NEW id \in DOMAIN children,
                 id \notin pending_removal, id = channel'[i].block, channel'[i].op = "move",
                 \A k \in i + 1 .. Len(channel') : ~At(channel', k, "move", id)
          PROVE  channel'[i].to = children[id].location
        <3>1. i + 1 \in DOMAIN channel /\ channel'[i] = channel[i + 1]
            BY <1>7
        <3>2. \A k \in (i + 1) + 1 .. Len(channel) : ~At(channel, k, "move", id)
            BY <2>1, <1>22
        <3>. QED
            BY <3>1, <3>2, <2>1, <1>1 DEF LastPlaceIsRight
    <2>. QED
        BY <2>1, <1>4 DEF LastPlaceIsRight
<1>29. PlacesCome'
    <2>1. ASSUME NEW id \in DOMAIN children, id \notin pending_removal
          PROVE  \/ place'[id] = children[id].location
                 \/ \E i \in DOMAIN channel' : At(channel', i, "move", id)
        <3>1. CASE c.op = "move" /\ b = id
            <4>1. CASE \A k \in 1 + 1 .. Len(channel) : ~At(channel, k, "move", id)
                <5>1. 1 \in DOMAIN channel
                    BY <1>5, <1>6
                <5>2. channel[1].to = children[id].location
                    BY <2>1, <3>1, <4>1, <5>1, <1>1 DEF LastPlaceIsRight, c
                <5>. QED
                    BY <5>2, <3>1, <1>11 DEF c
            <4>2. ASSUME NEW k \in 1 + 1 .. Len(channel), At(channel, k, "move", id)
                  PROVE  \E i \in DOMAIN channel' : At(channel', i, "move", id)
                <5>1. k \in DOMAIN channel /\ k # 1
                    BY <1>5, <1>6
                <5>. QED
                    BY <5>1, <4>2, <1>8
            <4>. QED
                BY <4>1, <4>2
        <3>2. CASE ~(c.op = "move" /\ b = id)
            <4>1. place'[id] = place[id]
                BY <3>2, <2>1, <1>10, <1>11, <1>26
            <4>2. CASE place[id] = children[id].location
                BY <4>1, <4>2
            <4>3. CASE \E i \in DOMAIN channel : At(channel, i, "move", id)
                <5>1. PICK i \in DOMAIN channel : At(channel, i, "move", id)
                    BY <4>3
                <5>2. i # 1
                    BY <5>1, <3>2, <1>9
                <5>. QED
                    BY <5>1, <5>2, <1>8
            <4>. QED
                BY <4>2, <4>3, <2>1, <1>1 DEF PlacesCome
        <3>. QED
            BY <3>1, <3>2
    <2>. QED
        BY <2>1, <1>4 DEF PlacesCome
<1>30. LeftoverIsNew'
    <2>1. ASSUME NEW i \in DOMAIN channel', channel'[i].op = "move",
                 channel'[i].block \in leftover'
          PROVE  \E j \in 1 .. i - 1 : At(channel', j, "new", channel'[i].block)
        <3>1. /\ i + 1 \in DOMAIN channel /\ channel'[i] = channel[i + 1] /\ i \in Nat
              /\ channel'[i].block \in leftover /\ channel'[i].block # b
            BY <2>1, <1>2, <1>7
        <3>2. PICK j \in 1 .. (i + 1) - 1 : At(channel, j, "new", channel'[i].block)
            BY <3>1, <2>1, <1>1 DEF LeftoverIsNew
        <3>3. j # 1 /\ j \in DOMAIN channel
            BY <3>1, <3>2, <1>9 DEF At
        <3>4. j - 1 \in 1 .. i - 1
            BY <3>1, <3>2, <3>3
        <3>. QED
            BY <3>2, <3>3, <3>4, <1>8
    <2>. QED
        BY <2>1 DEF LeftoverIsNew
<1>. QED
    BY <1>3, <1>5, <1>17, <1>18, <1>19, <1>20, <1>21, <1>23, <1>25, <1>27, <1>28, <1>29,
       <1>30
       DEF ScreenInv, ChannelInv

-----------------------------------------------------------------------------
(* The theorems.                                                           *)

\* The server of a new connection has sent nothing, and knows of nothing that is
\* in the tree.
ServerInit ==
    /\ Init
    /\ status \in {NewStatus(t) : t \in StatusText}
    /\ enclosed = FALSE
    /\ channel = <<>>

LEMMA NewServerHasInv ==
    ASSUME ServerInit, TreeInv, \A id \in Paragraph : Client!Present(id) => id \in leftover
    PROVE  ScreenInv
<1>1. /\ current_generation = 0 /\ rendered_paragraphs = <<>>
      /\ client_layout = <<>> /\ children = [id \in {} |-> Unset]
      /\ pending_removal = {} /\ status \in {NewStatus(t) : t \in StatusText}
      /\ enclosed = FALSE /\ channel = <<>>
    BY DEF ServerInit, Init
<1>2. FrameInv(Text \cup {NoText})
    BY <1>1, EmptyModelHasInv
<1>3. FewInEach(rendered_paragraphs) /\ UnusedIsPruned
    BY <1>1, NoSlotsAreFew DEF UnusedIsPruned
<1>4. DOMAIN children = {} /\ DOMAIN channel = {} /\ channel \in Seq(Change_)
    BY <1>1
<1>5. status \in StatusBlock /\ status.client_location = Unset
    BY <1>1 DEF NewStatus, NewTextBlock, StatusBlock
<1>6. CenterInv
    BY <1>1, <1>2, <1>3, <1>4, <1>5 DEF CenterInv, AllSent
<1>7. StaleLinesGoAway
    BY DEF StaleLinesGoAway
<1>8. ChannelInv
    BY <1>1, <1>4, <1>7 DEF ChannelInv, Led, MovesFollow, LeftoverIsNew, BoxesCome,
        RemovalsAreOld, LastTextIsRight, TextsCome, LastPlaceIsRight, PlacesCome
<1>. QED
    BY <1>4, <1>6, <1>8 DEF ScreenInv

LEMMA EmptyScreenHasInv ==
    ASSUME ServerInit, shown = Nothing, place = Nowhere
    PROVE  ScreenInv
<1>1. /\ \A b \in Block : shown[b] = Absent /\ place[b] = Unset
      /\ shown \in [Block -> TextWire \cup {Box, Absent}]
      /\ place \in [Block -> Nat \cup {Home, Unset}]
    BY DEF Nothing, Nowhere
<1>2. Boxes \subseteq Block /\ Paragraph \subseteq Block
    BY DEF Block
<1>3. TreeInv
    BY <1>1, <1>2, BlocksAre DEF TreeInv, Client!Present
<1>4. \A id \in Paragraph : ~Client!Present(id)
    BY <1>1, <1>2 DEF Client!Present
<1>. QED
    BY <1>3, <1>4, NewServerHasInv

LEMMA StepKeepsScreenInv ==
    ASSUME MaxGeneration \in Word, ScreenInv, [ScreenNext]_allVars
    PROVE  ScreenInv'
<1>1. ASSUME NEW text \in update_state, NEW resized \in BOOLEAN, sync_screen(text, resized)
      PROVE  ScreenInv'
    BY <1>1, FrameKeepsChannelInv DEF update_state
<1>2. CASE ReceiveAny
    BY <1>2, ReceiveKeepsInv
<1>3. CASE Reconnect
    <2>1. ServerInit'
        BY <1>3 DEF Reconnect, NextConnection, new_connection, ServerInit, Init
    <2>2. CASE ResetTree
        <3>1. shown' = Nothing /\ place' = Nowhere
            BY <2>2 DEF ResetTree, Client!Clear, Nothing, Nowhere
        <3>2. (shown = Nothing)' /\ (place = Nowhere)'
            BY <3>1 DEF Nothing, Nowhere
        <3>. QED
            BY <2>1, <3>2, EmptyScreenHasInv, PTL
    <2>3. CASE KeepTree
        <3>1. shown' = shown /\ place' = place
              /\ leftover' = {id \in Paragraph : Client!Present(id)}
            BY <2>3 DEF KeepTree, clientVars
        <3>2. TreeInv'
            BY <3>1 DEF ScreenInv, TreeInv, Client!Present
        <3>3. (\A id \in Paragraph : Client!Present(id) => id \in leftover)'
            BY <3>1 DEF Client!Present
        <3>. QED
            BY <2>1, <3>2, <3>3, NewServerHasInv, PTL
    <2>. QED
        BY <1>3, <2>2, <2>3 DEF Reconnect
<1>4. CASE UNCHANGED allVars
    <2>1. /\ UNCHANGED serverVars /\ channel' = channel /\ shown' = shown /\ place' = place
          /\ children' = children /\ pending_removal' = pending_removal /\ enclosed' = enclosed
          /\ leftover' = leftover
        BY <1>4 DEF allVars, serverVars, clientVars, history, vars
    <2>2. CenterInv'
        BY <2>1, ServerRests DEF ScreenInv
    <2>3. TreeInv'
        BY <2>1 DEF ScreenInv, TreeInv, Client!Present
    <2>4. ChannelInv'
        <3>1. Led'
            BY <2>1 DEF ScreenInv, ChannelInv, Led, At, Client!Present
        <3>2. MovesFollow'
            BY <2>1 DEF ScreenInv, ChannelInv, MovesFollow, Unremoved, At, Client!Present
        <3>3. BoxesCome'
            BY <2>1 DEF ScreenInv, ChannelInv, BoxesCome, At, Client!Present
        <3>4. RemovalsAreOld'
            BY <2>1 DEF ScreenInv, ChannelInv, RemovalsAreOld
        <3>5. LastTextIsRight'
            BY <2>1 DEF ScreenInv, ChannelInv, LastTextIsRight, At
        <3>6. StaleLinesGoAway'
            BY <2>1 DEF ScreenInv, ChannelInv, StaleLinesGoAway, Client!Present
        <3>7. TextsCome'
            BY <2>1 DEF ScreenInv, ChannelInv, TextsCome, At
        <3>8. LastPlaceIsRight'
            BY <2>1 DEF ScreenInv, ChannelInv, LastPlaceIsRight, At
        <3>9. PlacesCome'
            BY <2>1 DEF ScreenInv, ChannelInv, PlacesCome, At
        <3>10. LeftoverIsNew'
            BY <2>1 DEF ScreenInv, ChannelInv, LeftoverIsNew, At
        <3>. QED
            BY <3>1, <3>2, <3>3, <3>4, <3>5, <3>6, <3>7, <3>8, <3>9, <3>10 DEF ChannelInv
    <2>. QED
        BY <2>1, <2>2, <2>3, <2>4 DEF ScreenInv
<1>. QED
    BY <1>1, <1>2, <1>3, <1>4 DEF ScreenNext, ReceiveAny

\* Server, channel and client agree on every block in every state: the invariant
\* the theorems below are read from.  Frames may be sent faster than the client
\* takes them, and the connection may be made anew at any time, with a tree that
\* was reset or with the one the connection before has left.
THEOREM ScreenInvariant ==
    ASSUME MaxGeneration \in Word PROVE ScreenSpec => []ScreenInv
<1>1. ScreenInit => ScreenInv
    BY EmptyScreenHasInv DEF ScreenInit, ServerInit
<1>2. ScreenInv /\ [ScreenNext]_allVars => ScreenInv'
    BY StepKeepsScreenInv
<1>. QED
    BY <1>1, <1>2, PTL DEF ScreenSpec

\* Drawing takes nothing from the channel and changes nothing in the tree: the
\* window with its kept pictures is a screen that is synchronised.
THEOREM DrawingOnlyLooks == DrawSpec => ScreenSpec
<1>1. DrawInit => ScreenInit
    BY DEF DrawInit
<1>2. [DrawNext]_drawVars => [ScreenNext]_allVars
    BY DEF DrawNext, Frame, Take, StartAgain, DrawFrame, ScreenNext, Reconnect, drawVars
<1>. QED
    BY <1>1, <1>2, PTL DEF DrawSpec, ScreenSpec

\* A change finds the boxes around its block at the client, and a move finds its
\* block, whatever frames were on their way together and whatever was removed
\* between them: transfer buffers that are filled by kind of change, and by the
\* length of the path, are enough.
THEOREM MessagesFindTheirBlocks ==
    ASSUME MaxGeneration \in Word PROVE DrawSpec => []NothingSentTooEarly
<1>1. ScreenInv => NothingSentTooEarly
    <2>1. ASSUME ScreenInv, channel # <<>>
          PROVE  /\ Client!Addressable(Head(channel).block)
                 /\ Head(channel).op = "move" => Client!Present(Head(channel).block)
        <3>1. Head(channel) = channel[1]
            BY <2>1 DEF ScreenInv
        <3>. QED
            BY <2>1, <3>1, HeadIs
    <2>. QED
        BY <2>1 DEF NothingSentTooEarly
<1>. QED
    BY <1>1, ScreenInvariant, DrawingOnlyLooks, PTL

\* No line of an older document stays on the screen for good, nor under an id
\* that was given out again: as long as it is there and is not so any more, a
\* text or a removal for it is on its way.  The exception is part of the statement:
\* lines that an earlier connection has left in a tree which ensure_connected did
\* not reset, until a change of this connection names them.
THEOREM OldLinesLeave ==
    ASSUME MaxGeneration \in Word PROVE DrawSpec => []StaleLinesGoAway
<1>1. ScreenInv => StaleLinesGoAway
    BY DEF ScreenInv, ChannelInv
<1>. QED
    BY <1>1, ScreenInvariant, DrawingOnlyLooks, PTL

\* When everything has arrived, every line whose id was never removed is on the
\* screen with its text and at its place, although a block is only sent again
\* when its own hash or location says that the client lacks it.
THEOREM NewIdsArrive ==
    ASSUME MaxGeneration \in Word PROVE DrawSpec => []FirstUsesArrive
<1>1. ScreenInv => FirstUsesArrive
    <2>1. ASSUME ScreenInv, channel = <<>>, NEW id \in DOMAIN children \ pending_removal
          PROVE  Arrived(id)
        <3>1. \A i \in DOMAIN channel : FALSE
            BY <2>1
        <3>. QED
            BY <2>1, <3>1 DEF ScreenInv, ChannelInv, TextsCome, PlacesCome, Arrived
    <2>. QED
        BY <2>1 DEF FirstUsesArrive
<1>. QED
    BY <1>1, ScreenInvariant, DrawingOnlyLooks, PTL

-----------------------------------------------------------------------------
(* The pictures.  The functions that ScreenDraw defines down the tree of    *)
(* boxes are what their equations say: the tree is four blocks deep, so     *)
(* there is a function for each, written level by level.                    *)

LEMMA InsideBoxes ==
    ASSUME NEW c \in Block
    PROVE  /\ Parent[c] = Center => c \in Paragraph
           /\ Parent[c] = StatusLine => c = Status
           /\ Parent[c] = Editor => c \in {Center, StatusLine}
           /\ Parent[c] = Enclosure => c = Editor
           /\ c \in Paragraph => Parent[c] = Center
<1>1. Paragraph \cap Boxes = {} /\ Status \notin Paragraph /\ Status \notin Boxes
    BY BlocksAre
<1>2. CASE c \in Boxes
    BY <1>1, <1>2, IdsAssumption DEF Parent, Boxes
<1>3. CASE c = Status
    BY <1>1, <1>3, IdsAssumption DEF Parent, Boxes
<1>4. CASE c \in Paragraph
    <2>1. c \notin {Enclosure, Editor, Center, StatusLine, Status}
        BY <1>1, <1>4 DEF Boxes
    <2>2. Parent[c] = Center
        BY <2>1 DEF Parent
    <2>. QED
        BY <1>4, <2>2, IdsAssumption
<1>. QED
    BY <1>2, <1>3, <1>4 DEF Block

LEMMA LayersAre ==
    /\ InLayers(Center) \subseteq Paragraph
    /\ InLayers(StatusLine) \subseteq {Status}
    /\ InLayers(Editor) \subseteq {Center, StatusLine}
    /\ InLayers(Enclosure) \subseteq {Editor}
    /\ \A b : InLayers(b) \subseteq Block
    BY InsideBoxes DEF InLayers

\* A walk down the layers, which ends at some of the blocks.
Walked(ends, leaf, f) ==
    [c \in Block |-> IF c \in ends THEN leaf[c] ELSE UNION {f[d] : d \in InLayers(c)}]

LEMMA WalksEnd ==
    ASSUME NEW ends, Block \ Boxes \subseteq ends, NEW leaf
    PROVE  \E f : f = Walked(ends, leaf, f)
<1> DEFINE inner == [c \in Block |->
                IF c \in ends THEN leaf[c] ELSE UNION {leaf[d] : d \in InLayers(c)}]
           middle == [c \in Block |->
                IF c \in ends THEN leaf[c] ELSE UNION {inner[d] : d \in InLayers(c)}]
           outer == [c \in Block |->
                IF c \in ends THEN leaf[c] ELSE UNION {middle[d] : d \in InLayers(c)}]
           f == [c \in Block |-> IF c = Enclosure THEN outer[c]
                                 ELSE IF c = Editor THEN middle[c] ELSE inner[c]]
<1>1. Boxes \subseteq Block /\ Status \in Block /\ Status \notin Boxes
      /\ Paragraph \subseteq Block /\ Paragraph \cap Boxes = {}
    BY BlocksAre DEF Block
<1>2. ASSUME NEW c \in Block PROVE f[c] = Walked(ends, leaf, f)[c]
    <2>1. CASE c \in ends
        BY <2>1 DEF Walked
    <2>2. CASE c \notin ends
        <3>0. c \in Boxes
            BY <2>2
        <3>1. Walked(ends, leaf, f)[c] = UNION {f[d] : d \in InLayers(c)}
            BY <2>2 DEF Walked
        <3> HIDE DEF f
        <3>2. CASE c \in {Center, StatusLine}
            <4>1. InLayers(c) \subseteq Block \ Boxes
                BY <3>2, <1>1, LayersAre
            <4>2. \A d \in InLayers(c) : f[d] = leaf[d]
                BY <4>1 DEF f, Boxes
            <4>3. f[c] = UNION {leaf[d] : d \in InLayers(c)}
                BY <3>2, <2>2, IdsAssumption DEF f
            <4>4. {f[d] : d \in InLayers(c)} = {leaf[d] : d \in InLayers(c)}
                BY <4>2
            <4>. QED
                BY <3>1, <4>3, <4>4
        <3>3. CASE c = Editor
            <4>1. InLayers(c) \subseteq {Center, StatusLine} \cap Block
                BY <3>3, LayersAre
            <4>2. \A d \in InLayers(c) : f[d] = inner[d]
                BY <4>1, IdsAssumption DEF f
            <4>3. f[c] = UNION {inner[d] : d \in InLayers(c)}
                BY <3>3, <2>2, IdsAssumption DEF f
            <4> HIDE DEF inner
            <4>4. {f[d] : d \in InLayers(c)} = {inner[d] : d \in InLayers(c)}
                BY <4>2
            <4>. QED
                BY <3>1, <4>3, <4>4
        <3>4. CASE c = Enclosure
            <4>1. InLayers(c) \subseteq {Editor} \cap Block
                BY <3>4, LayersAre
            <4>2. \A d \in InLayers(c) : f[d] = middle[d]
                BY <4>1, IdsAssumption DEF f
            <4>3. f[c] = UNION {middle[d] : d \in InLayers(c)}
                BY <3>4, <2>2 DEF f
            <4> HIDE DEF middle
            <4>4. {f[d] : d \in InLayers(c)} = {middle[d] : d \in InLayers(c)}
                BY <4>2
            <4>. QED
                BY <3>1, <4>3, <4>4
        <3>. QED
            BY <3>0, <3>2, <3>3, <3>4 DEF Boxes
    <2>. QED
        BY <2>1, <2>2
<1>3. f = Walked(ends, leaf, f)
    <2>1. f = [c \in Block |-> f[c]]
        OBVIOUS
    <2>2. Walked(ends, leaf, f) = [c \in Block |-> Walked(ends, leaf, f)[c]]
        BY DEF Walked
    <2> HIDE DEF f
    <2>3. [c \in Block |-> f[c]] = [c \in Block |-> Walked(ends, leaf, f)[c]]
        BY <1>2
    <2>. QED
        BY <2>1, <2>2, <2>3
<1> HIDE DEF f
<1>. QED
    BY <1>3

\* The picture of a box is made of those in its layers.
LEMMA ContentsAre ==
    ASSUME NEW b \in Block
    PROVE  Contents(b) = IF b \in Boxes THEN UNION {Contents(d) : d \in InLayers(b)}
                         ELSE TextPicture(b)
<1> DEFINE leaf == [c \in Block |-> TextPicture(c)]
           ends == Block \ Boxes
           F(f) == [c \in Block |-> IF c \in Boxes THEN UNION {f[d] : d \in InLayers(c)}
                                    ELSE TextPicture(c)]
           picture == CHOOSE f : f = F(f)
<1>1. \A f : Walked(ends, leaf, f) = F(f)
    BY DEF Walked
<1>2. \E f : f = F(f)
    <2> HIDE DEF leaf, F
    <2>1. \E f : f = Walked(ends, leaf, f)
        BY WalksEnd
    <2>. QED
        BY <1>1, <2>1
<1>3. picture = F(picture)
    <2> HIDE DEF F
    <2>. QED
        BY <1>2, Zenon
<1>4. \A c : Contents(c) = picture[c]
    BY DEF Contents
<1> HIDE DEF picture
<1>5. {picture[d] : d \in InLayers(b)} = {Contents(d) : d \in InLayers(b)}
    BY <1>4
<1>6. picture[b] = IF b \in Boxes THEN UNION {picture[d] : d \in InLayers(b)}
                   ELSE TextPicture(b)
    BY <1>3
<1>. QED
    BY <1>4, <1>5, <1>6

\* A text as it is drawn, with its kept picture when that is reused.
TextDrawn(c) == {<<c, place[c], IF Reused(c) THEN rendered[c].image ELSE shown[c]>>}

LEMMA PictureIs ==
    ASSUME NEW b \in Block
    PROVE  Picture(b) = IF b \notin Boxes THEN TextDrawn(b)
                        ELSE IF Reused(b) THEN rendered[b].image
                        ELSE UNION {Picture(d) : d \in InLayers(b)}
<1> DEFINE leaf == [c \in Block |-> IF c \in Boxes THEN rendered[c].image ELSE TextDrawn(c)]
           ends == {c \in Block : Reused(c) \/ c \notin Boxes}
           F(f) == [c \in Block |-> IF c \notin Boxes THEN TextDrawn(c)
                                    ELSE IF Reused(c) THEN rendered[c].image
                                    ELSE UNION {f[d] : d \in InLayers(c)}]
           picture == CHOOSE f : f = F(f)
<1>1. ASSUME NEW f PROVE Walked(ends, leaf, f) = F(f)
    <2>1. ASSUME NEW c \in Block PROVE Walked(ends, leaf, f)[c] = F(f)[c]
        BY DEF Walked
    <2>2. /\ Walked(ends, leaf, f) = [c \in Block |-> Walked(ends, leaf, f)[c]]
          /\ F(f) = [c \in Block |-> F(f)[c]]
        BY DEF Walked
    <2> HIDE DEF F, ends, leaf
    <2>3. [c \in Block |-> Walked(ends, leaf, f)[c]] = [c \in Block |-> F(f)[c]]
        BY <2>1
    <2>. QED
        BY <2>2, <2>3
<1>2. \E f : f = F(f)
    <2>1. Block \ Boxes \subseteq ends
        OBVIOUS
    <2> HIDE DEF leaf, F, ends
    <2>2. \E f : f = Walked(ends, leaf, f)
        BY <2>1, WalksEnd
    <2>. QED
        BY <1>1, <2>2
<1>3. picture = F(picture)
    <2> HIDE DEF F
    <2>. QED
        BY <1>2, Zenon
<1>4. \A c : Picture(c) = picture[c]
    BY DEF Picture, TextDrawn
<1> HIDE DEF picture
<1>5. {picture[d] : d \in InLayers(b)} = {Picture(d) : d \in InLayers(b)}
    BY <1>4
<1>6. picture[b] = IF b \notin Boxes THEN TextDrawn(b)
                   ELSE IF Reused(b) THEN rendered[b].image
                   ELSE UNION {picture[d] : d \in InLayers(b)}
    BY <1>3
<1>. QED
    BY <1>4, <1>5, <1>6

-----------------------------------------------------------------------------
(* The hashes of the boxes, when all boxes are there: what they are made of *)
(* can be read from them.                                                   *)

CenterHash(texts, list) ==
    [description |-> list, contents |-> [id \in DOMAIN list |-> texts[id]]]

StatusHash(texts) ==
    [description |-> [c \in {Status} |-> Home], contents |-> [c \in {Status} |-> texts[c]]]

EditorHash(texts, list) ==
    [description |-> [c \in {StatusLine, Center} |-> Home],
     contents |-> [c \in {StatusLine, Center} |->
                    IF c = Center THEN CenterHash(texts, list) ELSE StatusHash(texts)]]

EnclosureHash(texts, list) ==
    [description |-> [c \in {Editor} |-> Home],
     contents |-> [c \in {Editor} |-> EditorHash(texts, list)]]

BoxHash(b, texts, list) ==
    CASE b = Enclosure  -> EnclosureHash(texts, list)
      [] b = Editor     -> EditorHash(texts, list)
      [] b = StatusLine -> StatusHash(texts)
      [] b = Center     -> CenterHash(texts, list)

LEMMA BoxHashIs ==
    ASSUME NEW texts, NEW list
    PROVE  /\ BoxHash(Enclosure, texts, list) = EnclosureHash(texts, list)
           /\ BoxHash(Editor, texts, list) = EditorHash(texts, list)
           /\ BoxHash(StatusLine, texts, list) = StatusHash(texts)
           /\ BoxHash(Center, texts, list) = CenterHash(texts, list)
    BY IdsAssumption DEF BoxHash

LEMMA SubBlocksAre ==
    /\ SubBlocks(Enclosure) = [c \in {Editor} |-> Home]
    /\ SubBlocks(Editor) = [c \in {StatusLine, Center} |-> Home]
    /\ SubBlocks(StatusLine) = [c \in {Status} |-> Home]
    /\ SubBlocks(Center) = sub_blocks
    BY IdsAssumption DEF SubBlocks

BoxesThere == \A b \in Boxes : shown[b] # Absent

LEMMA HashIs ==
    ASSUME BoxesThere, sub_blocks \in Lists, NEW b \in Block
    PROVE  hash_block_recursively(b)
                = IF b \in Boxes THEN BoxHash(b, shown, sub_blocks) ELSE shown[b]
<1> DEFINE F(f) == [c \in Block |->
                IF c \notin Boxes \/ ~Client!Present(c) THEN shown[c]
                ELSE [description |-> SubBlocks(c),
                      contents |-> [d \in DOMAIN SubBlocks(c) |-> f[d]]]]
           hash == CHOOSE f : f = F(f)
           g == [c \in Block |-> IF c \in Boxes THEN BoxHash(c, shown, sub_blocks)
                                 ELSE shown[c]]
<1>0. /\ Boxes \subseteq Block /\ Status \in Block \ Boxes
      /\ Paragraph \subseteq Block \ Boxes /\ DOMAIN sub_blocks \subseteq Paragraph
    BY BlocksAre DEF Block, Lists
<1>1. ASSUME NEW f, NEW c \in Block
      PROVE  F(f)[c] = IF c \in Boxes
                       THEN [description |-> SubBlocks(c),
                             contents |-> [d \in DOMAIN SubBlocks(c) |-> f[d]]]
                       ELSE shown[c]
    BY DEF BoxesThere, Client!Present
<1> HIDE DEF F
<1>2. ASSUME NEW f, \A c \in Block \ Boxes : f[c] = shown[c]
      PROVE  /\ F(f)[Center] = CenterHash(shown, sub_blocks)
             /\ F(f)[StatusLine] = StatusHash(shown)
    <2>1. /\ [d \in DOMAIN sub_blocks |-> f[d]] = [d \in DOMAIN sub_blocks |-> shown[d]]
          /\ [d \in {Status} |-> f[d]] = [d \in {Status} |-> shown[d]]
        BY <1>0, <1>2
    <2>2. DOMAIN [d \in {Status} |-> Home] = {Status}
        OBVIOUS
    <2>. QED
        BY <1>0, <1>1, <2>1, <2>2, SubBlocksAre DEF CenterHash, StatusHash, Boxes
<1>3. ASSUME NEW f, f[Center] = CenterHash(shown, sub_blocks),
             f[StatusLine] = StatusHash(shown)
      PROVE  F(f)[Editor] = EditorHash(shown, sub_blocks)
    <2>1. [d \in {StatusLine, Center} |-> f[d]] =
            [d \in {StatusLine, Center} |->
                IF d = Center THEN CenterHash(shown, sub_blocks) ELSE StatusHash(shown)]
        BY <1>3, IdsAssumption
    <2>2. DOMAIN [d \in {StatusLine, Center} |-> Home] = {StatusLine, Center}
        OBVIOUS
    <2>. QED
        BY <1>0, <1>1, <2>1, <2>2, SubBlocksAre DEF EditorHash, Boxes
<1>4. ASSUME NEW f, f[Editor] = EditorHash(shown, sub_blocks)
      PROVE  F(f)[Enclosure] = EnclosureHash(shown, sub_blocks)
    <2>1. [d \in {Editor} |-> f[d]] = [d \in {Editor} |-> EditorHash(shown, sub_blocks)]
        BY <1>4
    <2>2. DOMAIN [d \in {Editor} |-> Home] = {Editor}
        OBVIOUS
    <2>. QED
        BY <1>0, <1>1, <2>1, <2>2, SubBlocksAre DEF EnclosureHash, Boxes
<1>5. g = F(g)
    <2>1. /\ \A c \in Block \ Boxes : g[c] = shown[c]
          /\ \A c \in Boxes : g[c] = BoxHash(c, shown, sub_blocks)
        BY <1>0
    <2> HIDE DEF g
    <2>2. ASSUME NEW c \in Block PROVE g[c] = F(g)[c]
        <3>1. CASE c \notin Boxes
            BY <3>1, <2>1, <1>1
        <3>2. g[Center] = F(g)[Center] /\ g[StatusLine] = F(g)[StatusLine]
            BY <2>1, <1>2, BoxHashIs DEF Boxes
        <3>3. g[Editor] = F(g)[Editor]
            BY <2>1, <1>3, BoxHashIs DEF Boxes
        <3>4. g[Enclosure] = F(g)[Enclosure]
            BY <2>1, <1>4, BoxHashIs DEF Boxes
        <3>. QED
            BY <3>1, <3>2, <3>3, <3>4 DEF Boxes
    <2>3. g = [c \in Block |-> g[c]] /\ F(g) = [c \in Block |-> F(g)[c]]
        BY DEF g, F
    <2>. QED
        BY <2>2, <2>3
<1>6. hash = F(hash)
    BY <1>5, Zenon
<1>7. hash_block_recursively(b) = hash[b]
    BY DEF hash_block_recursively, F
<1> HIDE DEF hash, g
<1>8. \A c \in Block \ Boxes : hash[c] = shown[c]
    BY <1>1, <1>6
<1>9. /\ hash[Center] = CenterHash(shown, sub_blocks)
      /\ hash[StatusLine] = StatusHash(shown)
    BY <1>2, <1>6, <1>8
<1>10. hash[Editor] = EditorHash(shown, sub_blocks)
    BY <1>3, <1>6, <1>9
<1>11. hash[Enclosure] = EnclosureHash(shown, sub_blocks)
    BY <1>4, <1>6, <1>10
<1>. QED
    BY <1>7, <1>8, <1>9, <1>10, <1>11, BoxHashIs DEF Boxes

\* Two trees are alike for a box: in the lists, and in the texts on them.
Alike(b, texts, list, texts2, list2) ==
    /\ b # StatusLine => list = list2 /\ \A id \in DOMAIN list : texts[id] = texts2[id]
    /\ b # Center => texts[Status] = texts2[Status]

LEMMA HashesTell ==
    ASSUME NEW b \in Boxes, NEW texts, NEW list, NEW texts2, NEW list2,
           BoxHash(b, texts, list) = BoxHash(b, texts2, list2)
    PROVE  Alike(b, texts, list, texts2, list2)
<1>1. ASSUME CenterHash(texts, list) = CenterHash(texts2, list2)
      PROVE  list = list2 /\ \A id \in DOMAIN list : texts[id] = texts2[id]
    <2>1. /\ CenterHash(texts, list).description = list
          /\ CenterHash(texts2, list2).description = list2
          /\ CenterHash(texts, list).contents = [id \in DOMAIN list |-> texts[id]]
          /\ CenterHash(texts2, list2).contents = [id \in DOMAIN list2 |-> texts2[id]]
        BY DEF CenterHash
    <2>2. /\ list = list2
          /\ [id \in DOMAIN list |-> texts[id]] = [id \in DOMAIN list |-> texts2[id]]
        BY <2>1, <1>1
    <2>3. ASSUME NEW id \in DOMAIN list PROVE texts[id] = texts2[id]
        <3>1. [x \in DOMAIN list |-> texts[x]][id] = [x \in DOMAIN list |-> texts2[x]][id]
            BY <2>2
        <3>. QED
            BY <3>1
    <2>. QED
        BY <2>2, <2>3
<1>2. ASSUME StatusHash(texts) = StatusHash(texts2)
      PROVE  texts[Status] = texts2[Status]
    <2>1. StatusHash(texts).contents[Status] = texts[Status]
          /\ StatusHash(texts2).contents[Status] = texts2[Status]
        BY DEF StatusHash
    <2>. QED
        BY <2>1, <1>2
<1>3. ASSUME EditorHash(texts, list) = EditorHash(texts2, list2)
      PROVE  /\ CenterHash(texts, list) = CenterHash(texts2, list2)
             /\ StatusHash(texts) = StatusHash(texts2)
    <2>1. /\ EditorHash(texts, list).contents[Center] = CenterHash(texts, list)
          /\ EditorHash(texts2, list2).contents[Center] = CenterHash(texts2, list2)
          /\ EditorHash(texts, list).contents[StatusLine] = StatusHash(texts)
          /\ EditorHash(texts2, list2).contents[StatusLine] = StatusHash(texts2)
        BY IdsAssumption DEF EditorHash
    <2>. QED
        BY <2>1, <1>3
<1>4. ASSUME EnclosureHash(texts, list) = EnclosureHash(texts2, list2)
      PROVE  EditorHash(texts, list) = EditorHash(texts2, list2)
    <2>1. /\ EnclosureHash(texts, list).contents[Editor] = EditorHash(texts, list)
          /\ EnclosureHash(texts2, list2).contents[Editor] = EditorHash(texts2, list2)
        BY DEF EnclosureHash
    <2>. QED
        BY <2>1, <1>4
<1>5. CASE b = Center
    BY <1>1, <1>5, BoxHashIs, IdsAssumption DEF Alike
<1>6. CASE b = StatusLine
    BY <1>2, <1>6, BoxHashIs, IdsAssumption DEF Alike
<1>7. CASE b = Editor
    BY <1>1, <1>2, <1>3, <1>7, BoxHashIs DEF Alike
<1>8. CASE b = Enclosure
    BY <1>1, <1>2, <1>3, <1>4, <1>8, BoxHashIs DEF Alike
<1>. QED
    BY <1>5, <1>6, <1>7, <1>8 DEF Boxes

-----------------------------------------------------------------------------
(* What is in a picture.                                                    *)

\* The texts that may be in the picture of a box, and the picture it has when
\* everything is where the lists say.
TextsIn(b, list) ==
    (IF b = StatusLine THEN {} ELSE DOMAIN list) \cup (IF b = Center THEN {} ELSE {Status})

LinesShown(texts, list) ==
    {<<id, list[id], texts[id]>> : id \in {x \in DOMAIN list : texts[x] # Absent}}

StatusShown(texts) ==
    {<<c, Home, texts[c]>> : c \in {x \in {Status} : texts[x] # Absent}}

BoxShows(b, texts, list) ==
    (IF b = StatusLine THEN {} ELSE LinesShown(texts, list))
        \cup (IF b = Center THEN {} ELSE StatusShown(texts))

\* A kept picture is one of a tree with the hash it was kept with: the texts in
\* it are those of that tree, except strays, and when it is of a whole frame, it
\* is all of it.
PictureOf(b, kept, texts, list) ==
    /\ kept.description_hash[2] = BoxHash(b, texts, list)
    /\ \A t \in kept.image :
        \/ t[1] \in TextsIn(b, list) /\ t[3] = texts[t[1]]
        \/ t[1] \in kept.strays
    /\ kept.whole => kept.image = BoxShows(b, texts, list)

PicturesKept ==
    /\ \A b \in Cached : rendered[b] # NotRendered => BoxesThere
    /\ \A b \in Buffered : rendered[b] # NotRendered =>
        \E texts, list : PictureOf(b, rendered[b], texts, list)
    /\ \A b \in Block \ Boxes : rendered[b] # NotRendered =>
        rendered[b].image = rendered[b].description_hash[2]

\* The texts in a picture are those of the blocks: of the listed ones, and of those
\* that were left by another connection.
Says(b, image) ==
    \A t \in image :
        \/ t[3] = shown[t[1]] /\ t[1] \in TextsIn(b, sub_blocks) \cup leftover
        \/ t[1] \in Strays(b)

LEMMA AlikeShow ==
    ASSUME NEW b \in Boxes, NEW texts, NEW list, NEW texts2, NEW list2,
           Alike(b, texts, list, texts2, list2)
    PROVE  /\ TextsIn(b, list) = TextsIn(b, list2)
           /\ \A x \in TextsIn(b, list) : texts[x] = texts2[x]
           /\ BoxShows(b, texts, list) = BoxShows(b, texts2, list2)
<1>1. TextsIn(b, list) = TextsIn(b, list2)
    BY DEF TextsIn, Alike
<1>2. \A x \in TextsIn(b, list) : texts[x] = texts2[x]
    BY DEF TextsIn, Alike
<1>3. b # StatusLine => LinesShown(texts, list) = LinesShown(texts2, list2)
    <2>1. ASSUME list = list2, \A id \in DOMAIN list : texts[id] = texts2[id]
          PROVE  LinesShown(texts, list) = LinesShown(texts2, list2)
        <3>1. {x \in DOMAIN list : texts[x] # Absent}
                = {x \in DOMAIN list2 : texts2[x] # Absent}
            BY <2>1
        <3>. QED
            BY <2>1, <3>1 DEF LinesShown
    <2>. QED
        BY <2>1 DEF Alike
<1>4. b # Center => StatusShown(texts) = StatusShown(texts2)
    <2>1. ASSUME texts[Status] = texts2[Status]
          PROVE  StatusShown(texts) = StatusShown(texts2)
        <3>1. {x \in {Status} : texts[x] # Absent} = {x \in {Status} : texts2[x] # Absent}
            BY <2>1
        <3>. QED
            BY <2>1, <3>1 DEF StatusShown
    <2>. QED
        BY <2>1 DEF Alike
<1>. QED
    BY <1>1, <1>2, <1>3, <1>4 DEF BoxShows

\* A picture that is reused is one of the tree as it is.
LEMMA ReusedIsRight ==
    ASSUME PicturesKept, sub_blocks \in Lists, NEW b \in Boxes, Reused(b)
    PROVE  /\ BoxesThere
           /\ Says(b, rendered[b].image)
           /\ rendered[b].whole => rendered[b].image = BoxShows(b, shown, sub_blocks)
<1>1. /\ b \in Buffered /\ b \in Cached /\ b \in Block
      /\ rendered[b] # NotRendered
      /\ rendered[b].description_hash = description_hash(b)
    BY DEF Reused, Cached, Block
<1>2. BoxesThere
    BY <1>1 DEF PicturesKept
<1>3. PICK texts, list : PictureOf(b, rendered[b], texts, list)
    BY <1>1 DEF PicturesKept
<1>4. description_hash(b)[2] = BoxHash(b, shown, sub_blocks)
    BY <1>1, <1>2, HashIs DEF description_hash
<1>5. BoxHash(b, texts, list) = BoxHash(b, shown, sub_blocks)
    BY <1>1, <1>3, <1>4 DEF PictureOf
<1>6. Alike(b, texts, list, shown, sub_blocks)
    BY <1>1, <1>5, HashesTell
<1>7. /\ TextsIn(b, list) = TextsIn(b, sub_blocks)
      /\ \A x \in TextsIn(b, list) : texts[x] = shown[x]
      /\ BoxShows(b, texts, list) = BoxShows(b, shown, sub_blocks)
    BY <1>1, <1>6, AlikeShow
<1>8. rendered[b].strays \subseteq Strays(b)
    <2>1. b \in ReusedIn(b)
        BY <1>1 DEF ReusedIn
    <2>. QED
        BY <2>1 DEF Strays
<1>9. Says(b, rendered[b].image)
    BY <1>3, <1>7, <1>8 DEF PictureOf, Says
<1>. QED
    BY <1>2, <1>3, <1>7, <1>9 DEF PictureOf

\* A text is drawn as it is, also when a kept picture of it is reused: the hash of
\* a text is that of the text.
LEMMA TextIsDrawn ==
    ASSUME PicturesKept, sub_blocks \in Lists, NEW c \in Block \ Boxes
    PROVE  Picture(c) = TextPicture(c)
<1>1. ASSUME Reused(c) PROVE rendered[c].image = shown[c]
    <2>1. /\ c \in Cached /\ rendered[c] # NotRendered
          /\ rendered[c].description_hash = description_hash(c)
        BY <1>1 DEF Reused
    <2>2. BoxesThere
        BY <2>1 DEF PicturesKept
    <2>3. rendered[c].image = description_hash(c)[2]
        BY <2>1 DEF PicturesKept
    <2>4. hash_block_recursively(c) = shown[c]
        BY <2>2, HashIs
    <2>. QED
        BY <2>3, <2>4 DEF description_hash
<1>2. Picture(c) = TextDrawn(c)
    BY PictureIs
<1>. QED
    BY <1>1, <1>2 DEF TextDrawn, TextPicture

LinesListed ==
    /\ sub_blocks \in Lists
    /\ \A id \in Paragraph : shown[id] # Absent => id \in DOMAIN sub_blocks \cup leftover

\* Boxes around a box.
LEMMA BoxesAround ==
    /\ Ancestors[Enclosure] = {} /\ Ancestors[Editor] = {Enclosure}
    /\ Ancestors[Center] = {Enclosure, Editor} /\ Ancestors[StatusLine] = {Enclosure, Editor}
    BY IdsAssumption DEF Ancestors, Block, Boxes

\* The strays in a box are strays in the box around it.
LEMMA StraysInside ==
    ASSUME NEW b, NEW c \in Boxes, b \in Ancestors[c]
    PROVE  Strays(c) \subseteq Strays(b)
<1>1. ASSUME NEW d \in Boxes, c \in Ancestors[d] PROVE b \in Ancestors[d]
    BY <1>1, BoxesAround, IdsAssumption DEF Boxes
<1>2. ReusedIn(c) \subseteq ReusedIn(b)
    BY <1>1, BufferedAssumption DEF ReusedIn
<1>. QED
    BY <1>2 DEF Strays

\* Every text in a picture is what its block has, whatever is reused for it.
LEMMA PictureSays ==
    ASSUME PicturesKept, LinesListed, NEW b \in Boxes
    PROVE  Says(b, Picture(b))
<1>0. Boxes \subseteq Block /\ Status \in Block /\ Status \notin Boxes
      /\ Paragraph \subseteq Block /\ Paragraph \cap Boxes = {}
    BY BlocksAre DEF Block
\* What is said of what is in a box is said of the box.
<1>1. ASSUME NEW c \in Boxes,
             Reused(c) \/ \A d \in InLayers(c) : Says(c, Picture(d))
      PROVE  Says(c, Picture(c))
    <2>1. CASE Reused(c)
        <3>1. Picture(c) = rendered[c].image
            BY <2>1, <1>0, PictureIs
        <3>. QED
            BY <2>1, <3>1, <1>0, ReusedIsRight DEF LinesListed
    <2>2. CASE ~Reused(c)
        <3>1. Picture(c) = UNION {Picture(d) : d \in InLayers(c)}
            BY <2>2, <1>0, PictureIs
        <3>2. \A d \in InLayers(c) : Says(c, Picture(d))
            BY <2>2, <1>1
        <3>. QED
            BY <3>1, <3>2 DEF Says
    <2>. QED
        BY <2>1, <2>2
<1>2. ASSUME NEW c \in Block \ Boxes PROVE Picture(c) = {<<c, place[c], shown[c]>>}
    BY TextIsDrawn DEF TextPicture, LinesListed
<1>3. Says(Center, Picture(Center))
    <2>1. ASSUME NEW d \in InLayers(Center) PROVE Says(Center, Picture(d))
        <3>1. d \in Paragraph /\ shown[d] # Absent
            BY <2>1, LayersAre DEF InLayers, Client!Present
        <3>2. d \in DOMAIN sub_blocks \cup leftover /\ d \in Block \ Boxes
            BY <3>1, <1>0 DEF LinesListed
        <3>3. d \in TextsIn(Center, sub_blocks) \cup leftover
            BY <3>2, IdsAssumption DEF TextsIn
        <3>. QED
            BY <3>2, <3>3, <1>2 DEF Says
    <2>. QED
        BY <2>1, <1>1 DEF Boxes
<1>4. Says(StatusLine, Picture(StatusLine))
    <2>1. ASSUME NEW d \in InLayers(StatusLine) PROVE Says(StatusLine, Picture(d))
        <3>1. d = Status
            BY <2>1, LayersAre
        <3>2. Status \in TextsIn(StatusLine, sub_blocks)
            BY IdsAssumption DEF TextsIn
        <3>. QED
            BY <3>1, <3>2, <1>0, <1>2 DEF Says
    <2>. QED
        BY <2>1, <1>1 DEF Boxes
<1>5. /\ TextsIn(Center, sub_blocks) \subseteq TextsIn(Editor, sub_blocks)
      /\ TextsIn(StatusLine, sub_blocks) \subseteq TextsIn(Editor, sub_blocks)
      /\ TextsIn(Editor, sub_blocks) \subseteq TextsIn(Enclosure, sub_blocks)
      /\ Strays(Center) \subseteq Strays(Editor) /\ Strays(StatusLine) \subseteq Strays(Editor)
      /\ Strays(Editor) \subseteq Strays(Enclosure)
    BY IdsAssumption, BoxesAround, StraysInside DEF TextsIn, Boxes
<1>6. Says(Editor, Picture(Editor))
    <2>1. \A d \in InLayers(Editor) : Says(Editor, Picture(d))
        BY <1>3, <1>4, <1>5, LayersAre DEF Says
    <2>. QED
        BY <2>1, <1>1 DEF Boxes
<1>7. Says(Enclosure, Picture(Enclosure))
    <2>1. \A d \in InLayers(Enclosure) : Says(Enclosure, Picture(d))
        BY <1>5, <1>6, LayersAre DEF Says
    <2>. QED
        BY <2>1, <1>1 DEF Boxes
<1>. QED
    BY <1>3, <1>4, <1>6, <1>7 DEF Boxes

\* At the end of a frame everything is where the lists say.
InPlace ==
    /\ BoxesThere
    /\ \A b \in Boxes : place[b] = Home
    /\ shown[Status] # Absent => place[Status] = Home
    /\ \A id \in Paragraph : shown[id] # Absent =>
        id \in DOMAIN sub_blocks /\ place[id] = sub_blocks[id]

LEMMA LayersInPlace ==
    ASSUME LinesListed, InPlace
    PROVE  /\ InLayers(Center) = {id \in DOMAIN sub_blocks : shown[id] # Absent}
           /\ InLayers(StatusLine) = {c \in {Status} : shown[c] # Absent}
           /\ InLayers(Editor) = {Center, StatusLine}
           /\ InLayers(Enclosure) = {Editor}
<1>0. Boxes \subseteq Block /\ Status \in Block /\ Status \notin Boxes
      /\ Paragraph \subseteq Block /\ Paragraph \cap Boxes = {}
      /\ DOMAIN sub_blocks \subseteq Paragraph
      /\ \A id \in DOMAIN sub_blocks : sub_blocks[id] \in Nat
    BY BlocksAre DEF Block, LinesListed, Lists
<1>1. Home # Unset /\ \A n \in Nat : n # Unset
    BY ContentsAssumption
<1>2. \A b \in Block : \A c : c \in InLayers(b) <=>
            c \in Block /\ Parent[c] = b /\ shown[c] # Absent /\ place[c] # Unset
    BY DEF InLayers, Client!Present
<1>3. ASSUME NEW id
      PROVE  id \in InLayers(Center) <=> id \in DOMAIN sub_blocks /\ shown[id] # Absent
    <2>1. CASE id \in InLayers(Center)
        BY <2>1, <1>0, <1>2, LayersAre DEF InPlace, Boxes
    <2>2. CASE id \in DOMAIN sub_blocks /\ shown[id] # Absent
        <3>1. id \in Paragraph /\ place[id] = sub_blocks[id]
            BY <2>2, <1>0 DEF InPlace
        <3>2. Parent[id] = Center /\ id \in Block
            BY <3>1, <1>0, InsideBoxes
        <3>. QED
            BY <2>2, <3>1, <3>2, <1>0, <1>1, <1>2 DEF Boxes
    <2>. QED
        BY <2>1, <2>2
<1>4. Parent[Status] = StatusLine /\ Parent[Center] = Editor
      /\ Parent[StatusLine] = Editor /\ Parent[Editor] = Enclosure
    BY <1>0, IdsAssumption DEF Parent, Boxes
<1>5. ASSUME NEW c PROVE c \in InLayers(StatusLine) <=> c = Status /\ shown[c] # Absent
    BY <1>0, <1>1, <1>2, <1>4, LayersAre DEF InPlace, Boxes
<1>6. ASSUME NEW c \in Boxes, c # Enclosure PROVE c \in InLayers(Parent[c])
    <2>1. place[c] # Unset /\ shown[c] # Absent
        BY <1>1 DEF InPlace, BoxesThere
    <2>. QED
        BY <2>1, <1>0 DEF InLayers, Client!Present
<1>7. Center \in InLayers(Editor) /\ StatusLine \in InLayers(Editor)
      /\ Editor \in InLayers(Enclosure)
    BY <1>4, <1>6, IdsAssumption DEF Boxes
<1>. QED
    BY <1>3, <1>5, <1>7, LayersAre

\* The picture of a box is made of those of the boxes in it, and of its texts.
LEMMA PartsShow ==
    ASSUME LinesListed, InPlace
    PROVE  /\ UNION {TextPicture(d) : d \in InLayers(Center)}
                = BoxShows(Center, shown, sub_blocks)
           /\ UNION {TextPicture(d) : d \in InLayers(StatusLine)}
                = BoxShows(StatusLine, shown, sub_blocks)
           /\ BoxShows(Editor, shown, sub_blocks)
                = BoxShows(Center, shown, sub_blocks) \cup BoxShows(StatusLine, shown, sub_blocks)
           /\ BoxShows(Enclosure, shown, sub_blocks) = BoxShows(Editor, shown, sub_blocks)
<1>0. DOMAIN sub_blocks \subseteq Paragraph
    BY DEF LinesListed, Lists
<1>1. /\ BoxShows(Center, shown, sub_blocks) = LinesShown(shown, sub_blocks)
      /\ BoxShows(StatusLine, shown, sub_blocks) = StatusShown(shown)
      /\ BoxShows(Editor, shown, sub_blocks)
            = LinesShown(shown, sub_blocks) \cup StatusShown(shown)
      /\ BoxShows(Enclosure, shown, sub_blocks)
            = LinesShown(shown, sub_blocks) \cup StatusShown(shown)
    BY IdsAssumption DEF BoxShows
<1>2. UNION {TextPicture(d) : d \in InLayers(Center)} = LinesShown(shown, sub_blocks)
    <2> DEFINE ids == {id \in DOMAIN sub_blocks : shown[id] # Absent}
    <2>1. InLayers(Center) = ids
        BY LayersInPlace
    <2>2. \A d \in ids : TextPicture(d) = {<<d, sub_blocks[d], shown[d]>>}
        BY <1>0 DEF TextPicture, InPlace
    <2>3. LinesShown(shown, sub_blocks) = {<<id, sub_blocks[id], shown[id]>> : id \in ids}
        BY DEF LinesShown
    <2> HIDE DEF ids
    <2>4. UNION {TextPicture(d) : d \in ids} = {<<id, sub_blocks[id], shown[id]>> : id \in ids}
        BY <2>2
    <2>. QED
        BY <2>1, <2>3, <2>4
<1>3. UNION {TextPicture(d) : d \in InLayers(StatusLine)} = StatusShown(shown)
    <2> DEFINE ids == {c \in {Status} : shown[c] # Absent}
    <2>1. InLayers(StatusLine) = ids
        BY LayersInPlace
    <2>2. \A d \in ids : TextPicture(d) = {<<d, Home, shown[d]>>}
        BY DEF TextPicture, InPlace
    <2>3. StatusShown(shown) = {<<c, Home, shown[c]>> : c \in ids}
        BY DEF StatusShown
    <2> HIDE DEF ids
    <2>4. UNION {TextPicture(d) : d \in ids} = {<<c, Home, shown[c]>> : c \in ids}
        BY <2>2
    <2>. QED
        BY <2>1, <2>3, <2>4
<1>. QED
    BY <1>1, <1>2, <1>3

LEMMA ContentsShow ==
    ASSUME LinesListed, InPlace, NEW b \in Boxes
    PROVE  Contents(b) = BoxShows(b, shown, sub_blocks)
<1>0. Boxes \subseteq Block /\ InLayers(Center) \subseteq Block \ Boxes
      /\ InLayers(StatusLine) \subseteq Block \ Boxes
    BY BlocksAre, LayersAre DEF Block
<1>1. \A d \in Block \ Boxes : Contents(d) = TextPicture(d)
    BY ContentsAre
<1>2. \A c \in Boxes : Contents(c) = UNION {Contents(d) : d \in InLayers(c)}
    BY <1>0, ContentsAre
<1>3. Contents(Center) = BoxShows(Center, shown, sub_blocks)
    <2>1. {Contents(d) : d \in InLayers(Center)} = {TextPicture(d) : d \in InLayers(Center)}
        BY <1>0, <1>1
    <2>. QED
        BY <2>1, <1>2, PartsShow DEF Boxes
<1>4. Contents(StatusLine) = BoxShows(StatusLine, shown, sub_blocks)
    <2>1. {Contents(d) : d \in InLayers(StatusLine)}
            = {TextPicture(d) : d \in InLayers(StatusLine)}
        BY <1>0, <1>1
    <2>. QED
        BY <2>1, <1>2, PartsShow DEF Boxes
<1>5. Contents(Editor) = BoxShows(Editor, shown, sub_blocks)
    <2>1. UNION {Contents(d) : d \in {Center, StatusLine}}
            = Contents(Center) \cup Contents(StatusLine)
        OBVIOUS
    <2>2. Contents(Editor) = UNION {Contents(d) : d \in {Center, StatusLine}}
        BY <1>2, LayersInPlace DEF Boxes
    <2>. QED
        BY <2>1, <2>2, <1>3, <1>4, PartsShow
<1>6. Contents(Enclosure) = BoxShows(Enclosure, shown, sub_blocks)
    <2>1. UNION {Contents(d) : d \in {Editor}} = Contents(Editor)
        OBVIOUS
    <2>2. Contents(Enclosure) = UNION {Contents(d) : d \in {Editor}}
        BY <1>2, LayersInPlace DEF Boxes
    <2>. QED
        BY <2>1, <2>2, <1>5, PartsShow
<1>. QED
    BY <1>3, <1>4, <1>5, <1>6 DEF Boxes

\* So is a picture for which only pictures of whole frames are reused.
Fresh(b) == Reused(b) => rendered[b].whole

LEMMA WholePictureShows ==
    ASSUME PicturesKept, LinesListed, InPlace, NEW b \in Boxes,
           \A c \in ReusedIn(b) : rendered[c].whole
    PROVE  Picture(b) = BoxShows(b, shown, sub_blocks)
<1>0. Boxes \subseteq Block /\ InLayers(Center) \subseteq Block \ Boxes
      /\ InLayers(StatusLine) \subseteq Block \ Boxes
    BY BlocksAre, LayersAre DEF Block
<1>1. \A d \in Block \ Boxes : Picture(d) = TextPicture(d)
    BY TextIsDrawn DEF LinesListed
<1>2. ASSUME NEW c \in Boxes, Fresh(c)
      PROVE  \/ Picture(c) = BoxShows(c, shown, sub_blocks)
             \/ Picture(c) = UNION {Picture(d) : d \in InLayers(c)}
    <2>1. CASE Reused(c)
        <3>1. Picture(c) = rendered[c].image
            BY <2>1, <1>0, PictureIs
        <3>. QED
            BY <2>1, <3>1, <1>0, <1>2, ReusedIsRight DEF Fresh, LinesListed
    <2>2. CASE ~Reused(c)
        BY <2>2, <1>0, PictureIs
    <2>. QED
        BY <2>1, <2>2
<1>3. ASSUME NEW c \in Boxes, c = b \/ b \in Ancestors[c] PROVE Fresh(c)
    <2>1. ASSUME Reused(c) PROVE c \in ReusedIn(b)
        BY <1>3, <2>1 DEF ReusedIn, Reused, Cached
    <2>. QED
        BY <2>1 DEF Fresh
<1>4. ASSUME Fresh(Center) PROVE Picture(Center) = BoxShows(Center, shown, sub_blocks)
    <2>1. {Picture(d) : d \in InLayers(Center)} = {TextPicture(d) : d \in InLayers(Center)}
        BY <1>0, <1>1
    <2>. QED
        BY <2>1, <1>2, <1>4, PartsShow DEF Boxes
<1>5. ASSUME Fresh(StatusLine)
      PROVE  Picture(StatusLine) = BoxShows(StatusLine, shown, sub_blocks)
    <2>1. {Picture(d) : d \in InLayers(StatusLine)}
            = {TextPicture(d) : d \in InLayers(StatusLine)}
        BY <1>0, <1>1
    <2>. QED
        BY <2>1, <1>2, <1>5, PartsShow DEF Boxes
<1>6. ASSUME Fresh(Editor), Fresh(Center), Fresh(StatusLine)
      PROVE  Picture(Editor) = BoxShows(Editor, shown, sub_blocks)
    <2>1. UNION {Picture(d) : d \in {Center, StatusLine}}
            = Picture(Center) \cup Picture(StatusLine)
        OBVIOUS
    <2>2. InLayers(Editor) = {Center, StatusLine}
        BY LayersInPlace
    <2>3. \/ Picture(Editor) = BoxShows(Editor, shown, sub_blocks)
          \/ Picture(Editor) = UNION {Picture(d) : d \in {Center, StatusLine}}
        BY <2>2, <1>2, <1>6 DEF Boxes
    <2>. QED
        BY <2>1, <2>3, <1>4, <1>5, <1>6, PartsShow
<1>7. ASSUME Fresh(Enclosure), Fresh(Editor), Fresh(Center), Fresh(StatusLine)
      PROVE  Picture(Enclosure) = BoxShows(Enclosure, shown, sub_blocks)
    <2>1. UNION {Picture(d) : d \in {Editor}} = Picture(Editor)
        OBVIOUS
    <2>2. InLayers(Enclosure) = {Editor}
        BY LayersInPlace
    <2>3. \/ Picture(Enclosure) = BoxShows(Enclosure, shown, sub_blocks)
          \/ Picture(Enclosure) = UNION {Picture(d) : d \in {Editor}}
        BY <2>2, <1>2, <1>7 DEF Boxes
    <2>. QED
        BY <2>1, <2>3, <1>6, <1>7, PartsShow
<1>8. /\ Editor \in Ancestors[Center] /\ Editor \in Ancestors[StatusLine]
      /\ Enclosure \in Ancestors[Center] /\ Enclosure \in Ancestors[StatusLine]
      /\ Enclosure \in Ancestors[Editor]
    BY BoxesAround
<1>9. CASE b = Center
    BY <1>3, <1>4, <1>9
<1>10. CASE b = StatusLine
    BY <1>3, <1>5, <1>10
<1>11. CASE b = Editor
    BY <1>3, <1>6, <1>8, <1>11 DEF Boxes
<1>12. CASE b = Enclosure
    BY <1>3, <1>7, <1>8, <1>12 DEF Boxes
<1>. QED
    BY <1>9, <1>10, <1>11, <1>12 DEF Boxes

-----------------------------------------------------------------------------
(* What is to come.  The hash goes through the lists, and a list arrives    *)
(* before the texts and the places on it: what the tree is like at the end  *)
(* of a frame follows from all that is still in the channel.  The tree is   *)
(* foreseen change by change, as far as hashes and layers depend on it:     *)
(* which blocks are there, where, and the list of the center.               *)

TreeNow ==
    [there |-> {b \in Block : shown[b] # Absent}, place |-> place, list |-> sub_blocks,
     unnamed |-> leftover]

After(s, d) ==
    [there |-> IF d.op = "new" THEN s.there \cup {d.block}
               ELSE IF d.op = "remove" THEN s.there \ {d.block} ELSE s.there,
     place |-> [b \in Block |-> IF d.op = "new" \/ b # d.block THEN s.place[b]
                                ELSE IF d.op = "move" THEN d.to ELSE Unset],
     list |-> IF d.op = "new" /\ d.block = Center THEN d.sub_blocks ELSE s.list,
     unnamed |-> s.unnamed \ {d.block}]

\* In every state the paragraphs that are there are listed, or left by another
\* connection, and no box has a place before all boxes are there.
Listed(s) ==
    /\ s.there \subseteq Block /\ s.list \in Lists
    /\ s = [there |-> s.there, place |-> [b \in Block |-> s.place[b]], list |-> s.list,
            unnamed |-> s.unnamed]
    /\ \A id \in Paragraph : id \in s.there => id \in DOMAIN s.list \cup s.unnamed
    /\ \A b \in Boxes : s.place[b] # Unset => Boxes \subseteq s.there

\* At the end of a frame everything this connection has named has the place it has
\* in the list.
Settled(s) ==
    /\ \A id \in Paragraph : id \in s.there /\ id \notin s.unnamed => s.place[id] = s.list[id]
    /\ \A b \in Block \ Paragraph : b \in s.there => s.place[b] = Home

FrameEnd(c, i) == i = Len(c) \/ (c[i].op = "move" /\ c[i + 1].op # "move")

Foresees(h, c, s) ==
    /\ h[0] = s
    /\ \A i \in DOMAIN c : h[i] = After(h[i - 1], c[i])
    /\ \A i \in 0 .. Len(c) : Listed(h[i])
    /\ \A i \in DOMAIN c : FrameEnd(c, i) => Settled(h[i])

\* When everything has arrived, the tree has the list of the server.  A server that
\* has sent nothing may have to do with any tree, half of a frame included.
Agrees(s, sent, blocks) ==
    /\ sent => s.list = Locations(blocks) /\ Boxes \subseteq s.there
    /\ ~sent => \A id \in Paragraph : id \in s.there => id \in s.unnamed

AheadInv ==
    /\ boundary = "frame" => Settled(TreeNow)
    /\ channel = <<>> /\ enclosed => boundary = "frame"
    /\ \E h : Foresees(h, channel, TreeNow) /\ Agrees(h[Len(channel)], enclosed, children)

\* A change is taken, and what was foreseen after it still is.
LEMMA TakingForesees ==
    ASSUME NEW c \in Seq(Change_), c # <<>>, NEW s, NEW h, Foresees(h, c, s)
    PROVE  \E g : /\ Foresees(g, Tail(c), After(s, c[1]))
                  /\ g[Len(Tail(c))] = h[Len(c)]
<1> DEFINE t == Tail(c)
           n == Len(t)
           g == [i \in 0 .. n |-> h[i + 1]]
<1>1. /\ t \in Seq(Change_) /\ Len(t) = Len(c) - 1 /\ Len(c) \in Nat \ {0}
      /\ \A i \in DOMAIN t : i + 1 \in DOMAIN c /\ t[i] = c[i + 1]
    BY TailAt
<1>2. DOMAIN t = 1 .. n /\ DOMAIN c = 1 .. Len(c) /\ n \in Nat /\ Len(c) = n + 1
    BY <1>1
<1> HIDE DEF t, n
<1>3. \A i \in 0 .. n : g[i] = h[i + 1]
    OBVIOUS
<1> HIDE DEF g
<1>4. g[0] = After(s, c[1])
    <2>1. h[1] = After(h[1 - 1], c[1]) /\ h[0] = s
        BY <1>2 DEF Foresees
    <2>. QED
        BY <2>1, <1>2, <1>3
<1>5. ASSUME NEW i \in DOMAIN t PROVE g[i] = After(g[i - 1], t[i])
    <2>1. h[i + 1] = After(h[(i + 1) - 1], c[i + 1])
        BY <1>1 DEF Foresees
    <2>2. i \in 0 .. n /\ i - 1 \in 0 .. n /\ (i - 1) + 1 = i /\ (i + 1) - 1 = i
        BY <1>2
    <2>3. g[i] = h[i + 1] /\ g[i - 1] = h[(i - 1) + 1]
        BY <1>3, <2>2
    <2>. QED
        BY <2>1, <2>2, <2>3, <1>1
<1>6. ASSUME NEW i \in 0 .. n PROVE Listed(g[i])
    <2>1. i + 1 \in 0 .. Len(c)
        BY <1>2
    <2>. QED
        BY <2>1, <1>3 DEF Foresees
<1>7. ASSUME NEW i \in DOMAIN t, FrameEnd(t, i) PROVE Settled(g[i])
    <2>1. i \in 0 .. n /\ i + 1 \in DOMAIN c
        BY <1>1, <1>2
    <2>2. FrameEnd(c, i + 1)
        <3>1. CASE i = n
            BY <3>1, <1>2 DEF FrameEnd
        <3>2. CASE i # n
            <4>1. i + 1 \in DOMAIN t /\ t[i] = c[i + 1] /\ t[i + 1] = c[(i + 1) + 1]
                BY <3>2, <1>1, <1>2
            <4>2. t[i].op = "move" /\ t[i + 1].op # "move"
                BY <3>2, <1>7 DEF FrameEnd, n
            <4>. QED
                BY <4>1, <4>2 DEF FrameEnd
        <3>. QED
            BY <3>1, <3>2
    <2>. QED
        BY <2>1, <2>2, <1>3 DEF Foresees
<1>8. g[n] = h[Len(c)]
    BY <1>2, <1>3
<1>. QED
    BY <1>4, <1>5, <1>6, <1>7, <1>8 DEF Foresees, t, n

\* What is foreseen of one channel and then of another, of both together.
LEMMA MoreIsForeseen ==
    ASSUME NEW c \in Seq(Change_), NEW d \in Seq(Change_), NEW s, NEW h, NEW g,
           Foresees(h, c, s), Foresees(g, d, h[Len(c)]), c # <<>> => Settled(h[Len(c)])
    PROVE  \E f : /\ Foresees(f, c \o d, s)
                  /\ f[Len(c \o d)] = g[Len(d)]
<1> DEFINE n == Len(c)
           m == Len(d)
           e == c \o d
           f == [i \in 0 .. n + m |-> IF i =< n THEN h[i] ELSE g[i - n]]
<1>1. /\ e \in Seq(Change_) /\ Len(e) = n + m
      /\ \A i \in 1 .. n : e[i] = c[i]
      /\ \A i \in 1 .. m : e[n + i] = d[i]
    BY ConcatIs
<1>2. n \in Nat /\ m \in Nat /\ DOMAIN c = 1 .. n /\ DOMAIN d = 1 .. m
    OBVIOUS
<1> HIDE DEF n, m, e
<1>3. DOMAIN e = 1 .. n + m
    BY <1>1
<1>4. /\ h[0] = s /\ g[0] = h[n]
      /\ \A i \in 1 .. n : h[i] = After(h[i - 1], c[i])
      /\ \A i \in 1 .. m : g[i] = After(g[i - 1], d[i])
      /\ \A i \in 0 .. n : Listed(h[i])
      /\ \A i \in 0 .. m : Listed(g[i])
      /\ \A i \in 1 .. n : FrameEnd(c, i) => Settled(h[i])
      /\ \A i \in 1 .. m : FrameEnd(d, i) => Settled(g[i])
      /\ n # 0 => Settled(h[n])
    <2>1. n # 0 => c # <<>>
        BY DEF n
    <2>. QED
        BY <2>1, <1>2 DEF Foresees, n, m
<1>5. /\ \A i \in 0 .. n : f[i] = h[i]
      /\ \A i \in 0 .. m : f[n + i] = g[i]
    <2>1. ASSUME NEW i \in 0 .. n PROVE f[i] = h[i]
        <3>1. i \in 0 .. n + m /\ i =< n
            BY <1>2
        <3>. QED
            BY <3>1
    <2>2. ASSUME NEW i \in 0 .. m PROVE f[n + i] = g[i]
        <3>1. CASE i = 0
            <4>1. n + i = n /\ n \in 0 .. n
                BY <3>1, <1>2
            <4>. QED
                BY <3>1, <4>1, <2>1, <1>4
        <3>2. CASE i # 0
            <4>1. n + i \in 0 .. n + m /\ ~(n + i =< n) /\ (n + i) - n = i
                BY <3>2, <1>2
            <4>. QED
                BY <4>1
        <3>. QED
            BY <3>1, <3>2
    <2>. QED
        BY <2>1, <2>2
<1> HIDE DEF f
<1>6. ASSUME NEW i \in 1 .. n + m
      PROVE  (i \in 1 .. n) \/ \E k \in 1 .. m : i = n + k
    <2>1. CASE i =< n
        BY <2>1, <1>2
    <2>2. CASE ~(i =< n)
        <3>1. i - n \in 1 .. m /\ i = n + (i - n)
            BY <2>2, <1>2
        <3>. QED
            BY <3>1
    <2>. QED
        BY <2>1, <2>2
<1>7. ASSUME NEW i \in 1 .. n + m PROVE f[i] = After(f[i - 1], e[i])
    <2>1. CASE i \in 1 .. n
        <3>1. i \in 0 .. n /\ i - 1 \in 0 .. n
            BY <2>1, <1>2
        <3>. QED
            BY <2>1, <3>1, <1>1, <1>4, <1>5
    <2>2. ASSUME NEW k \in 1 .. m, i = n + k PROVE f[i] = After(f[i - 1], e[i])
        <3>1. k \in 0 .. m /\ k - 1 \in 0 .. m /\ (n + k) - 1 = n + (k - 1)
            BY <1>2
        <3>2. f[n + k] = g[k] /\ f[n + (k - 1)] = g[k - 1] /\ e[n + k] = d[k]
            BY <3>1, <1>1, <1>5
        <3>. QED
            BY <2>2, <3>1, <3>2, <1>4
    <2>. QED
        BY <2>1, <2>2, <1>6
<1>8. ASSUME NEW i \in 0 .. n + m PROVE Listed(f[i])
    <2>1. CASE i \in 0 .. n
        BY <2>1, <1>4, <1>5
    <2>2. CASE i \notin 0 .. n
        <3>1. i - n \in 0 .. m /\ i = n + (i - n)
            BY <2>2, <1>2
        <3>. QED
            BY <3>1, <1>4, <1>5
    <2>. QED
        BY <2>1, <2>2
<1>9. ASSUME NEW i \in 1 .. n + m, FrameEnd(e, i) PROVE Settled(f[i])
    <2>1. CASE i = n
        <3>1. f[i] = h[n] /\ n # 0
            BY <2>1, <1>2, <1>5
        <3>. QED
            BY <3>1, <1>4
    <2>2. CASE i \in 1 .. n /\ i # n
        <3>1. i + 1 \in 1 .. n /\ i \in 0 .. n /\ i # n + m
            BY <2>2, <1>2
        <3>2. e[i] = c[i] /\ e[i + 1] = c[i + 1] /\ f[i] = h[i]
            BY <2>2, <3>1, <1>1, <1>5
        <3>3. e[i].op = "move" /\ e[i + 1].op # "move"
            BY <3>1, <1>1, <1>9 DEF FrameEnd
        <3>4. FrameEnd(c, i)
            BY <3>2, <3>3 DEF FrameEnd
        <3>. QED
            BY <2>2, <3>2, <3>4, <1>4
    <2>3. ASSUME NEW k \in 1 .. m, i = n + k PROVE Settled(f[i])
        <3>0. k \in 0 .. m
            BY <1>2
        <3>1. k \in 0 .. m /\ f[i] = g[k] /\ e[i] = d[k]
            BY <2>3, <3>0, <1>1, <1>5
        <3>2. FrameEnd(d, k)
            <4>1. CASE k = m
                BY <4>1 DEF FrameEnd, m
            <4>2. CASE k # m
                <5>1. k + 1 \in 1 .. m /\ i + 1 = n + (k + 1) /\ i # n + m
                    BY <2>3, <4>2, <1>2
                <5>2. e[i + 1] = d[k + 1]
                    BY <5>1, <1>1
                <5>3. e[i].op = "move" /\ e[i + 1].op # "move"
                    BY <5>1, <1>1, <1>9 DEF FrameEnd
                <5>. QED
                    BY <3>1, <5>2, <5>3 DEF FrameEnd
            <4>. QED
                BY <4>1, <4>2
        <3>. QED
            BY <3>1, <3>2, <1>4
    <2>. QED
        BY <2>1, <2>2, <2>3, <1>6
<1>10. f[0] = s /\ f[n + m] = g[m]
    <2>1. 0 \in 0 .. n /\ m \in 0 .. m
        BY <1>2
    <2>. QED
        BY <2>1, <1>4, <1>5
<1>11. Foresees(f, e, s)
    BY <1>1, <1>3, <1>7, <1>8, <1>9, <1>10 DEF Foresees
<1>. QED
    BY <1>1, <1>10, <1>11 DEF e, m

\* The tree after so many changes of a frame.  No block is removed after it is
\* new, and none is moved to two places.
Told(c, k, op, b) == \E j \in 1 .. k : At(c, j, op, b)

Midway(s, c, k, list) ==
    [there |-> {b \in Block :
                Told(c, k, "new", b) \/ (b \in s.there /\ ~Told(c, k, "remove", b))},
     place |-> [b \in Block |-> IF Told(c, k, "move", b)
                                THEN IF b \in Paragraph THEN list[b] ELSE Home
                                ELSE IF Told(c, k, "remove", b) THEN Unset ELSE s.place[b]],
     list |-> IF Told(c, k, "new", Center) THEN list ELSE s.list,
     unnamed |-> {b \in s.unnamed : \A op \in {"new", "move", "remove"} : ~Told(c, k, op, b)}]

\* A frame, as seen from the list it brings.
IsListing(c, removed, list) ==
    /\ c \in Seq(Change_) /\ list \in Lists
    /\ \E first, last \in Nat : InOrder(c, first, last)
    /\ SaysRemoved(c, removed)
    /\ \A i \in DOMAIN c : c[i].op = "new" /\ c[i].block \in Paragraph =>
        c[i].block \in DOMAIN list
    /\ \A i \in DOMAIN c : c[i].op = "move" /\ c[i].block \in Paragraph =>
        c[i].block \in DOMAIN list /\ c[i].to = list[c[i].block]
    /\ ListsLead(c, list)
    /\ NewsAreMoved(c)

\* What is there before it and not on the list is removed, unless it was left by
\* another connection, and what is on it and not moved is at its place.
Continues(c, removed, list, s) ==
    /\ \A id \in Paragraph : id \in s.there =>
        id \in DOMAIN list \/ id \in removed \/ id \in s.unnamed
    /\ \A id \in Paragraph : id \in s.there /\ id \notin s.unnamed /\ id \in DOMAIN list =>
        s.place[id] = list[id] \/ \E i \in DOMAIN c : At(c, i, "move", id)
    /\ \A b \in Block \ Paragraph : b \in s.there =>
        s.place[b] = Home \/ \E i \in DOMAIN c : At(c, i, "move", b)
    /\ \/ Boxes \subseteq s.there
       \/ BoxesLead(c) /\ \A b \in Boxes : s.place[b] = Unset

LEMMA MidwayStep ==
    ASSUME NEW c, NEW removed, NEW list, IsListing(c, removed, list),
           NEW s, NEW k \in 1 .. Len(c)
    PROVE  Midway(s, c, k, list) = After(Midway(s, c, k - 1, list), c[k])
<1> DEFINE old == Midway(s, c, k - 1, list)
           new == Midway(s, c, k, list)
           d == c[k]
<1>1. /\ c \in Seq(Change_) /\ ListsLead(c, list) /\ NewsAreMoved(c)
      /\ \A i \in DOMAIN c : c[i].op = "move" /\ c[i].block \in Paragraph =>
            c[i].to = list[c[i].block]
    BY DEF IsListing
<1>2. DOMAIN c = 1 .. Len(c) /\ Len(c) \in Nat /\ k \in DOMAIN c /\ d \in Change_
    BY <1>1
<1>3. PICK first, last \in Nat : InOrder(c, first, last)
    BY DEF IsListing
<1>4. d.op \in {"new", "move", "remove"} /\ d.block \in Block
    BY <1>2, ChangeIs
<1> HIDE DEF d
<1>5. ASSUME NEW op, NEW b
      PROVE  Told(c, k, op, b) <=> Told(c, k - 1, op, b) \/ (d.op = op /\ d.block = b)
    <2>1. \A j : j \in 1 .. k <=> j \in 1 .. k - 1 \/ j = k
        BY <1>2
    <2>2. At(c, k, op, b) <=> d.op = op /\ d.block = b
        BY <1>2 DEF At, d
    <2>. QED
        BY <2>1, <2>2 DEF Told
\* Nothing is removed after something is new or moved.
<1>6. ASSUME d.op = "remove", NEW b
      PROVE  ~Told(c, k - 1, "new", b) /\ ~Told(c, k - 1, "move", b)
    <2>1. k =< first
        BY <1>2, <1>3, <1>6 DEF InOrder, d
    <2>2. ASSUME NEW j \in 1 .. k - 1 PROVE j \in DOMAIN c /\ c[j].op = "remove"
        <3>1. j \in DOMAIN c /\ j =< first
            BY <1>2, <2>1
        <3>. QED
            BY <3>1, <1>3 DEF InOrder
    <2>. QED
        BY <2>2 DEF Told, At
<1>7. new.there = After(old, d).there
    <2>1. /\ new.there = {b \in Block :
                Told(c, k, "new", b) \/ (b \in s.there /\ ~Told(c, k, "remove", b))}
          /\ old.there = {b \in Block :
                      Told(c, k - 1, "new", b) \/ (b \in s.there /\ ~Told(c, k - 1, "remove", b))}
        BY DEF Midway
    <2>2. After(old, d).there = IF d.op = "new" THEN old.there \cup {d.block}
                                ELSE IF d.op = "remove" THEN old.there \ {d.block}
                                ELSE old.there
        BY DEF After
    <2> HIDE DEF old, new
    <2>3. ASSUME NEW b PROVE b \in new.there <=> b \in After(old, d).there
        <3>1. CASE d.op = "new"
            BY <3>1, <2>1, <2>2, <1>4, <1>5
        <3>2. CASE d.op = "remove"
            BY <3>2, <2>1, <2>2, <1>5, <1>6
        <3>3. CASE d.op = "move"
            BY <3>3, <2>1, <2>2, <1>5
        <3>. QED
            BY <3>1, <3>2, <3>3, <1>4
    <2>. QED
        BY <2>3
<1>8. new.place = After(old, d).place
    <2>1. /\ new.place = [b \in Block |->
                IF Told(c, k, "move", b) THEN IF b \in Paragraph THEN list[b] ELSE Home
                ELSE IF Told(c, k, "remove", b) THEN Unset ELSE s.place[b]]
          /\ old.place = [b \in Block |->
                IF Told(c, k - 1, "move", b) THEN IF b \in Paragraph THEN list[b] ELSE Home
                ELSE IF Told(c, k - 1, "remove", b) THEN Unset ELSE s.place[b]]
        BY DEF Midway
    <2>2. After(old, d).place =
            [b \in Block |-> IF d.op = "new" \/ b # d.block THEN old.place[b]
                             ELSE IF d.op = "move" THEN d.to ELSE Unset]
        BY DEF After
    <2> HIDE DEF old, new
    <2>3. d.op = "move" => d.to = IF d.block \in Paragraph THEN list[d.block] ELSE Home
        BY <1>1, <1>2 DEF NewsAreMoved, d
    <2>4. ASSUME NEW b \in Block PROVE new.place[b] = After(old, d).place[b]
        <3>1. CASE d.op = "new" \/ b # d.block
            <4>1. /\ Told(c, k, "move", b) <=> Told(c, k - 1, "move", b)
                  /\ Told(c, k, "remove", b) <=> Told(c, k - 1, "remove", b)
                BY <3>1, <1>5
            <4>. QED
                BY <3>1, <4>1, <2>1, <2>2
        <3>2. CASE d.op = "move" /\ b = d.block
            <4>1. Told(c, k, "move", b)
                BY <3>2, <1>5
            <4>. QED
                BY <3>2, <4>1, <2>1, <2>2, <2>3
        <3>3. CASE d.op = "remove" /\ b = d.block
            <4>1. Told(c, k, "remove", b) /\ ~Told(c, k, "move", b)
                BY <3>3, <1>5, <1>6
            <4>. QED
                BY <3>3, <4>1, <2>1, <2>2
        <3>. QED
            BY <3>1, <3>2, <3>3, <1>4
    <2>5. /\ new.place = [b \in Block |-> new.place[b]]
          /\ After(old, d).place = [b \in Block |-> After(old, d).place[b]]
        BY <2>1, <2>2
    <2>6. [b \in Block |-> new.place[b]] = [b \in Block |-> After(old, d).place[b]]
        BY <2>4
    <2>. QED
        BY <2>5, <2>6
<1>9. new.list = After(old, d).list
    <2>1. /\ new.list = IF Told(c, k, "new", Center) THEN list ELSE s.list
          /\ old.list = IF Told(c, k - 1, "new", Center) THEN list ELSE s.list
          /\ After(old, d).list = IF d.op = "new" /\ d.block = Center THEN d.sub_blocks
                                  ELSE old.list
        BY DEF Midway, After
    <2> HIDE DEF old, new
    <2>2. d.op = "new" /\ d.block = Center => d.sub_blocks = list
        BY <1>1, <1>2 DEF ListsLead, At, d
    <2>3. Told(c, k, "new", Center) <=>
            Told(c, k - 1, "new", Center) \/ (d.op = "new" /\ d.block = Center)
        BY <1>5
    <2>. QED
        BY <2>1, <2>2, <2>3
<1>10. new.unnamed = After(old, d).unnamed
    <2>1. /\ \A b : b \in new.unnamed <=>
                b \in s.unnamed /\ \A op \in {"new", "move", "remove"} : ~Told(c, k, op, b)
          /\ \A b : b \in old.unnamed <=>
                b \in s.unnamed /\ \A op \in {"new", "move", "remove"} : ~Told(c, k - 1, op, b)
          /\ After(old, d).unnamed = old.unnamed \ {d.block}
        BY DEF Midway, After
    <2> HIDE DEF old, new
    <2>2. ASSUME NEW b PROVE b \in new.unnamed <=> b \in old.unnamed /\ b # d.block
        BY <2>1, <1>4, <1>5
    <2>. QED
        BY <2>1, <2>2
<1>11. /\ new = [there |-> new.there, place |-> new.place, list |-> new.list,
                 unnamed |-> new.unnamed]
       /\ After(old, d) = [there |-> After(old, d).there, place |-> After(old, d).place,
                           list |-> After(old, d).list, unnamed |-> After(old, d).unnamed]
    BY DEF Midway, After
<1> HIDE DEF old, new
<1>12. new = After(old, d)
    BY <1>7, <1>8, <1>9, <1>10, <1>11
<1>. QED
    BY <1>12 DEF new, old, d

\* What is there midway, and of which list.
LEMMA MidwayIs ==
    ASSUME NEW c, NEW removed, NEW list, IsListing(c, removed, list),
           NEW s, Listed(s), Continues(c, removed, list, s), NEW k \in 0 .. Len(c)
    PROVE  Listed(Midway(s, c, k, list))
<1> DEFINE m == Midway(s, c, k, list)
<1>1. /\ c \in Seq(Change_) /\ list \in Lists /\ ListsLead(c, list)
      /\ SaysRemoved(c, removed)
      /\ \A i \in DOMAIN c : c[i].op = "new" /\ c[i].block \in Paragraph =>
            c[i].block \in DOMAIN list
      /\ \A i \in DOMAIN c : c[i].op = "move" /\ c[i].block \in Paragraph =>
            c[i].block \in DOMAIN list
    BY DEF IsListing
<1>2. DOMAIN c = 1 .. Len(c) /\ Len(c) \in Nat
    BY <1>1
<1>3. PICK first, last \in Nat : InOrder(c, first, last)
    BY DEF IsListing
<1>4. /\ m.there = {b \in Block :
            Told(c, k, "new", b) \/ (b \in s.there /\ ~Told(c, k, "remove", b))}
      /\ m.place = [b \in Block |-> IF Told(c, k, "move", b)
                                THEN IF b \in Paragraph THEN list[b] ELSE Home
                                ELSE IF Told(c, k, "remove", b) THEN Unset ELSE s.place[b]]
      /\ m.list = IF Told(c, k, "new", Center) THEN list ELSE s.list
      /\ m.unnamed = {b \in s.unnamed :
                        \A op \in {"new", "move", "remove"} : ~Told(c, k, op, b)}
      /\ m = [there |-> m.there, place |-> m.place, list |-> m.list, unnamed |-> m.unnamed]
    BY DEF Midway
<1> HIDE DEF m
<1>5. m.there \subseteq Block /\ m.list \in Lists
    BY <1>1, <1>4 DEF Listed
<1>6. m = [there |-> m.there, place |-> [b \in Block |-> m.place[b]], list |-> m.list,
           unnamed |-> m.unnamed]
    <2>1. m.place = [b \in Block |-> m.place[b]]
        BY <1>4
    <2>. QED
        BY <2>1, <1>4
<1>7. ASSUME NEW id \in Paragraph, id \in m.there PROVE id \in DOMAIN m.list \cup m.unnamed
    <2>1. CASE Told(c, k, "new", Center)
        <3>1. PICK i \in 1 .. k : At(c, i, "new", Center)
            BY <2>1 DEF Told
        <3>2. CASE Told(c, k, "new", id) \/ Told(c, k, "move", id)
            <4>1. id \in DOMAIN list
                BY <3>2, <1>1, <1>7 DEF Told, At
            <4>. QED
                BY <2>1, <4>1, <1>4
        <3>3. CASE ~Told(c, k, "new", id) /\ ~Told(c, k, "move", id)
            <4>1. id \in s.there /\ ~Told(c, k, "remove", id)
                BY <3>3, <1>4, <1>7
            <4>2. ASSUME id \notin DOMAIN list, id \notin s.unnamed PROVE FALSE
                <5>1. PICK j \in DOMAIN c : At(c, j, "remove", id)
                    BY <4>1, <4>2, <1>1, <1>7 DEF Continues, SaysRemoved
                <5>2. j =< first
                    BY <5>1, <1>3 DEF InOrder, At
                <5>3. i \in DOMAIN c /\ c[i].op = "new"
                    BY <3>1 DEF At
                <5>4. c[i].op # "remove"
                    BY <5>3
                <5>5. ~(i =< first)
                    BY <5>3, <5>4, <1>3 DEF InOrder
                <5>6. j \in 1 .. k
                    <6>1. i \in Nat /\ j \in Nat /\ j >= 1 /\ i =< k /\ k \in Nat
                        BY <1>2, <3>1, <5>1
                    <6>. QED
                        BY <6>1, <5>2, <5>5
                <5>. QED
                    BY <4>1, <5>1, <5>6 DEF Told
            <4>3. id \in s.unnamed => id \in m.unnamed
                BY <3>3, <4>1, <1>4
            <4>. QED
                BY <2>1, <4>2, <4>3, <1>4
        <3>. QED
            BY <3>2, <3>3
    <2>2. CASE ~Told(c, k, "new", Center)
        <3>1. ~Told(c, k, "new", id)
            <4>1. ASSUME NEW j \in 1 .. k, At(c, j, "new", id) PROVE FALSE
                <5>1. PICK i \in DOMAIN c : At(c, i, "new", Center)
                    BY <1>1 DEF ListsLead
                <5>2. i < j
                    BY <4>1, <5>1, <1>1, <1>7 DEF ListsLead, At
                <5>3. i \in 1 .. k
                    <6>1. i \in Nat /\ i >= 1 /\ j \in Nat /\ j =< k /\ k \in Nat
                        BY <1>2, <4>1, <5>1
                    <6>. QED
                        BY <6>1, <5>2
                <5>. QED
                    BY <2>2, <5>1, <5>3 DEF Told
            <4>. QED
                BY <4>1 DEF Told
        <3>2. id \in s.there /\ ~Told(c, k, "remove", id)
            BY <3>1, <1>4, <1>7
        <3>3. ~Told(c, k, "move", id)
            <4>1. ASSUME NEW j \in 1 .. k, At(c, j, "move", id) PROVE FALSE
                <5>1. PICK i \in DOMAIN c : At(c, i, "new", Center)
                    BY <1>1 DEF ListsLead
                <5>2. last < j /\ ~(last < i)
                    BY <4>1, <5>1, <1>3 DEF InOrder, At
                <5>3. i \in 1 .. k
                    <6>1. i \in Nat /\ i >= 1 /\ j \in Nat /\ j =< k /\ k \in Nat
                        BY <1>2, <4>1, <5>1
                    <6>. QED
                        BY <6>1, <5>2
                <5>. QED
                    BY <2>2, <5>1, <5>3 DEF Told
            <4>. QED
                BY <4>1 DEF Told
        <3>4. id \in DOMAIN s.list \/ id \in s.unnamed
            BY <3>2, <1>7 DEF Listed
        <3>. QED
            BY <2>2, <3>1, <3>2, <3>3, <3>4, <1>4
    <2>. QED
        BY <2>1, <2>2
<1>8. ASSUME NEW b \in Boxes, m.place[b] # Unset, NEW x \in Boxes PROVE x \in m.there
    <2>0. b \in Block /\ x \in Block /\ x \notin Paragraph
        BY BlocksAre DEF Block
    <2>1. CASE Boxes \subseteq s.there
        <3>1. ASSUME NEW j \in DOMAIN c, At(c, j, "remove", x) PROVE FALSE
            <4>1. c[j] \in Change_ /\ c[j].op = "remove" /\ c[j].block = x
                BY <3>1, <1>1 DEF At
            <4>. QED
                BY <4>1, <2>0, ChangeIs
        <3>2. ~Told(c, k, "remove", x)
            BY <3>1 DEF Told, At
        <3>. QED
            BY <2>0, <2>1, <3>2, <1>4
    <2>2. CASE BoxesLead(c) /\ \A y \in Boxes : s.place[y] = Unset
        <3>1. Told(c, k, "move", b)
            BY <2>0, <2>2, <1>4, <1>8
        <3>2. PICK j \in 1 .. k : At(c, j, "move", b)
            BY <3>1 DEF Told
        <3>3. PICK i \in DOMAIN c : At(c, i, "new", x)
            BY <2>2 DEF BoxesLead
        <3>4. last < j
            BY <3>2, <1>3 DEF InOrder, At
        <3>5. c[i].op # "move"
            BY <3>3 DEF At
        <3>6. ~(last < i)
            BY <3>5, <1>3 DEF InOrder
        <3>7. i \in 1 .. k
            <4>1. i \in Nat /\ i >= 1 /\ j \in Nat /\ j =< k /\ k \in Nat
                BY <1>2, <3>2, <3>3
            <4>. QED
                BY <4>1, <3>4, <3>6
        <3>8. Told(c, k, "new", x)
            BY <3>3, <3>7 DEF Told
        <3>. QED
            BY <2>0, <3>8, <1>4
    <2>. QED
        BY <2>1, <2>2 DEF Continues
<1>9. Listed(m)
    BY <1>5, <1>6, <1>7, <1>8 DEF Listed
<1>. QED
    BY <1>9 DEF m

LEMMA FrameSettles ==
    ASSUME NEW c, NEW removed, NEW list, IsListing(c, removed, list),
           NEW s, Listed(s), Continues(c, removed, list, s)
    PROVE  LET m == Midway(s, c, Len(c), list)
           IN  /\ Settled(m)
               /\ m.list = list
               /\ Boxes \subseteq m.there
<1> DEFINE n == Len(c)
           m == Midway(s, c, n, list)
<1>1. /\ c \in Seq(Change_) /\ list \in Lists /\ ListsLead(c, list) /\ NewsAreMoved(c)
      /\ SaysRemoved(c, removed)
    BY DEF IsListing
<1>2. DOMAIN c = 1 .. n /\ n \in Nat
    BY <1>1
<1>3. Listed(m)
    <2>1. n \in 0 .. Len(c)
        BY <1>2
    <2>. QED
        BY <2>1, MidwayIs
<1>4. /\ m.there = {b \in Block : \/ Told(c, n, "new", b)
                                  \/ b \in s.there /\ ~Told(c, n, "remove", b)}
      /\ m.place = [b \in Block |-> IF Told(c, n, "move", b)
                                THEN IF b \in Paragraph THEN list[b] ELSE Home
                                ELSE IF Told(c, n, "remove", b) THEN Unset ELSE s.place[b]]
      /\ m.list = IF Told(c, n, "new", Center) THEN list ELSE s.list
      /\ m.unnamed = {b \in s.unnamed :
                        \A op \in {"new", "move", "remove"} : ~Told(c, n, op, b)}
    BY DEF Midway
<1> HIDE DEF m, n
<1>5. \A op, b : Told(c, n, op, b) <=> \E i \in DOMAIN c : At(c, i, op, b)
    BY <1>2 DEF Told
<1>6. m.list = list
    BY <1>1, <1>4, <1>5 DEF ListsLead
\* What is not moved was not new.
<1>7. ASSUME NEW b, Told(c, n, "new", b) PROVE Told(c, n, "move", b)
    <2>1. PICK j \in DOMAIN c : At(c, j, "new", b)
        BY <1>5, <1>7
    <2>2. \E i \in DOMAIN c : At(c, i, "move", b)
        BY <2>1, <1>1 DEF NewsAreMoved, At
    <2>. QED
        BY <2>2, <1>5
<1>8. ASSUME NEW b \in Block, b \in m.there, ~Told(c, n, "move", b)
      PROVE  /\ b \in s.there /\ m.place[b] = s.place[b]
             /\ b \notin m.unnamed => b \notin s.unnamed
    BY <1>4, <1>7, <1>8
<1>9. ASSUME NEW id \in Paragraph, id \in m.there, id \notin m.unnamed
      PROVE  m.place[id] = m.list[id]
    <2>0. id \in Block
        BY DEF Block
    <2>1. CASE Told(c, n, "move", id)
        BY <2>0, <2>1, <1>4, <1>6, <1>9
    <2>2. CASE ~Told(c, n, "move", id)
        <3>1. id \in s.there /\ m.place[id] = s.place[id] /\ id \notin s.unnamed
            BY <2>0, <2>2, <1>8, <1>9
        <3>2. id \in DOMAIN list
            BY <1>3, <1>6, <1>9 DEF Listed
        <3>3. s.place[id] = list[id]
            BY <2>2, <3>1, <3>2, <1>5 DEF Continues
        <3>. QED
            BY <3>1, <3>3, <1>6
    <2>. QED
        BY <2>1, <2>2
<1>10. ASSUME NEW b \in Block \ Paragraph, b \in m.there PROVE m.place[b] = Home
    <2>1. CASE Told(c, n, "move", b)
        BY <2>1, <1>4
    <2>2. CASE ~Told(c, n, "move", b)
        BY <2>2, <1>5, <1>8, <1>10 DEF Continues
    <2>. QED
        BY <2>1, <2>2
<1>11. ASSUME NEW x \in Boxes PROVE x \in m.there
    <2>0. x \in Block /\ x \notin Paragraph
        BY BlocksAre DEF Block
    <2>1. CASE Boxes \subseteq s.there
        <3>1. ASSUME NEW j \in DOMAIN c, At(c, j, "remove", x) PROVE FALSE
            <4>1. c[j] \in Change_ /\ c[j].op = "remove" /\ c[j].block = x
                BY <3>1, <1>1 DEF At
            <4>. QED
                BY <4>1, <2>0, ChangeIs
        <3>. QED
            BY <2>0, <2>1, <3>1, <1>4, <1>5
    <2>2. CASE BoxesLead(c)
        <3>1. Told(c, n, "new", x)
            BY <2>2, <1>5 DEF BoxesLead
        <3>. QED
            BY <2>0, <3>1, <1>4
    <2>. QED
        BY <2>1, <2>2 DEF Continues
<1>12. Settled(m)
    BY <1>9, <1>10 DEF Settled
<1>. QED
    BY <1>6, <1>11, <1>12 DEF m, n

\* The states in which the changes of a frame leave the tree.
LEMMA FrameForesees ==
    ASSUME NEW c, NEW removed, NEW list, IsListing(c, removed, list),
           NEW s, Listed(s), Continues(c, removed, list, s)
    PROVE  \E g : /\ Foresees(g, c, s)
                  /\ g[Len(c)].list = list
                  /\ Boxes \subseteq g[Len(c)].there
<1> DEFINE n == Len(c)
           g == [k \in 0 .. n |-> Midway(s, c, k, list)]
<1>1. c \in Seq(Change_) /\ n \in Nat /\ DOMAIN c = 1 .. n
    BY DEF IsListing
<1>2. PICK first, last \in Nat : InOrder(c, first, last)
    BY DEF IsListing
<1>3. g[0] = s
    <2>1. g[0] = Midway(s, c, 0, list)
        BY <1>1
    <2>2. ASSUME NEW op, NEW b PROVE ~Told(c, 0, op, b)
        BY DEF Told
    <2>3. Midway(s, c, 0, list) = [there |-> {b \in Block : b \in s.there},
                                   place |-> [b \in Block |-> s.place[b]],
                                   list |-> s.list,
                                   unnamed |-> {b \in s.unnamed : TRUE}]
        BY <2>2 DEF Midway
    <2>4. s.there = {b \in Block : b \in s.there} /\ s.unnamed = {b \in s.unnamed : TRUE}
        BY DEF Listed
    <2>. QED
        BY <2>1, <2>3, <2>4 DEF Listed
<1>4. ASSUME NEW k \in DOMAIN c PROVE g[k] = After(g[k - 1], c[k])
    <2>1. k \in 0 .. n /\ k - 1 \in 0 .. n /\ k \in 1 .. Len(c)
        BY <1>1
    <2>2. Midway(s, c, k, list) = After(Midway(s, c, k - 1, list), c[k])
        BY <2>1, MidwayStep
    <2>. QED
        BY <2>1, <2>2
<1>5. ASSUME NEW k \in 0 .. n PROVE Listed(g[k])
    BY MidwayIs
<1>6. /\ Settled(g[n]) /\ g[n].list = list /\ Boxes \subseteq g[n].there
    <2>1. g[n] = Midway(s, c, Len(c), list)
        BY <1>1
    <2>. QED
        BY <2>1, FrameSettles
<1> HIDE DEF g, n
<1>7. ASSUME NEW k \in DOMAIN c, FrameEnd(c, k) PROVE Settled(g[k])
    <2>1. CASE k = n
        BY <2>1, <1>6
    <2>2. CASE k # n
        <3>1. k + 1 \in DOMAIN c
            BY <2>2, <1>1
        <3>2. c[k].op = "move" /\ c[k + 1].op # "move"
            BY <2>2, <1>7 DEF FrameEnd, n
        <3>3. last < k /\ ~(last < k + 1)
            BY <3>1, <3>2, <1>2 DEF InOrder
        <3>. QED
            BY <3>3, <1>1
    <2>. QED
        BY <2>1, <2>2
<1>8. Foresees(g, c, s)
    BY <1>3, <1>4, <1>5, <1>7 DEF Foresees, n
<1>. QED
    BY <1>6, <1>8 DEF n

-----------------------------------------------------------------------------
(* What is foreseen, from step to step.                                     *)

LEMMA SendsAListing ==
    ASSUME NEW c, Sends(c)
    PROVE  IsListing(c, pending_removal', Locations(children'))
<1>1. /\ c \in Seq(Change_) /\ ListsLead(c, Locations(children')) /\ NewsAreMoved(c)
      /\ \E first, last \in Nat : InOrder(c, first, last)
      /\ SaysRemoved(c, pending_removal')
    BY DEF Sends
<1>2. DOMAIN Locations(children') = DOMAIN children'
      /\ \A id \in DOMAIN children' : Locations(children')[id] = children'[id].location
    BY DEF Locations
<1>3. Locations(children') \in Lists
    <2>1. PICK i \in DOMAIN c : At(c, i, "new", Center)
        BY <1>1 DEF ListsLead
    <2>2. c[i] \in Change_ /\ c[i].op = "new" /\ c[i].block = Center
        BY <1>1, <2>1 DEF At
    <2>3. c[i].sub_blocks \in Lists
        BY <2>2 DEF Change_, Boxes
    <2>. QED
        BY <1>1, <2>1, <2>3 DEF ListsLead
<1>4. \A i \in DOMAIN c : c[i].op = "new" /\ c[i].block \in Paragraph =>
            c[i].block \in DOMAIN Locations(children')
    BY <1>2 DEF Sends
<1>5. \A i \in DOMAIN c : c[i].op = "move" /\ c[i].block \in Paragraph =>
            /\ c[i].block \in DOMAIN Locations(children')
            /\ c[i].to = Locations(children')[c[i].block]
    BY <1>2 DEF Sends
<1>. QED
    BY <1>1, <1>3, <1>4, <1>5 DEF IsListing

\* A frame goes on from the tree that the frames before it leave.
LEMMA SendsWhatContinues ==
    ASSUME NEW c, Sends(c), DOMAIN children \ DOMAIN children' \subseteq pending_removal',
           NEW s, Listed(s), Agrees(s, enclosed, children), enclosed => Settled(s)
    PROVE  Continues(c, pending_removal', Locations(children'), s)
<1>1. /\ DOMAIN Locations(children') = DOMAIN children'
      /\ \A id \in DOMAIN children' : Locations(children')[id] = children'[id].location
      /\ DOMAIN Locations(children) = DOMAIN children
      /\ \A id \in DOMAIN children : Locations(children)[id] = children[id].location
    BY DEF Locations
<1>2. CASE enclosed
    <2>1. s.list = Locations(children) /\ Boxes \subseteq s.there
        BY <1>2 DEF Agrees
    <2>2. ASSUME NEW id \in Paragraph, id \in s.there, id \notin s.unnamed
          PROVE  id \in DOMAIN children /\ s.place[id] = s.list[id]
        BY <2>1, <2>2, <1>1, <1>2 DEF Listed, Settled
    <2>3. ASSUME NEW id \in Paragraph, id \in s.there, id \notin s.unnamed, id \in DOMAIN children'
          PROVE  \/ s.place[id] = Locations(children')[id]
                 \/ \E i \in DOMAIN c : At(c, i, "move", id)
        <3>1. id \in DOMAIN children /\ s.place[id] = s.list[id]
            BY <2>2, <2>3
        <3>2. Same(id) \/ \E i \in DOMAIN c : At(c, i, "move", id)
            BY <2>3 DEF Sends
        <3>3. Same(id) => s.place[id] = Locations(children')[id]
            BY <2>1, <2>3, <3>1, <1>1 DEF Same
        <3>. QED
            BY <3>2, <3>3
    <2>4. \A id \in Paragraph : id \in s.there =>
                id \in DOMAIN Locations(children') \/ id \in pending_removal' \/ id \in s.unnamed
        BY <2>2, <1>1
    <2>5. \A b \in Block \ Paragraph : b \in s.there => s.place[b] = Home
        BY <1>2 DEF Settled
    <2>. QED
        BY <2>1, <2>3, <2>4, <2>5, <1>1 DEF Continues
<1>3. CASE ~enclosed
    <2>1. \A id \in Paragraph : id \in s.there => id \in s.unnamed
        BY <1>3 DEF Agrees
    <2>2. BoxesLead(c) /\ NewsAreMoved(c) /\ \E i \in DOMAIN c : At(c, i, "new", Status)
        BY <1>3 DEF Sends
    <2>3. ASSUME NEW b \in Block \ Paragraph PROVE \E i \in DOMAIN c : At(c, i, "move", b)
        <3>1. \E j \in DOMAIN c : At(c, j, "new", b)
            BY <2>2 DEF BoxesLead, Block
        <3>. QED
            BY <3>1, <2>2 DEF NewsAreMoved, At
    <2>4. Boxes \subseteq s.there \/ \A b \in Boxes : s.place[b] = Unset
        BY DEF Listed
    <2>. QED
        BY <2>1, <2>2, <2>3, <2>4 DEF Continues
<1>. QED
    BY <1>2, <1>3

LEMMA FrameKeepsAhead ==
    ASSUME ScreenInv, AheadInv, NEW c, Sends(c),
           DOMAIN children \ DOMAIN children' \subseteq pending_removal', enclosed' = TRUE,
           shown' = shown, place' = place, sub_blocks' = sub_blocks, boundary' = boundary,
           leftover' = leftover
    PROVE  AheadInv'
<1>1. /\ channel \in Seq(Change_) /\ c \in Seq(Change_) /\ channel' = channel \o c
      /\ ListsLead(c, Locations(children'))
    BY DEF ScreenInv, Sends
<1>2. PICK h : Foresees(h, channel, TreeNow) /\ Agrees(h[Len(channel)], enclosed, children)
    BY DEF AheadInv
<1>3. Listed(h[Len(channel)])
    <2>1. Len(channel) \in 0 .. Len(channel)
        BY <1>1
    <2>. QED
        BY <2>1, <1>2 DEF Foresees
<1>4. channel # <<>> \/ enclosed => Settled(h[Len(channel)])
    <2>1. CASE channel = <<>> /\ enclosed
        <3>1. Settled(TreeNow) /\ Len(channel) = 0
            BY <2>1 DEF AheadInv
        <3>. QED
            BY <3>1, <1>2 DEF Foresees
    <2>2. CASE channel # <<>>
        <3>1. Len(channel) \in DOMAIN channel
            BY <2>2, <1>1
        <3>2. FrameEnd(channel, Len(channel))
            BY DEF FrameEnd
        <3>. QED
            BY <3>1, <3>2, <1>2 DEF Foresees
    <2>. QED
        BY <2>1, <2>2
<1>5. PICK g : /\ Foresees(g, c, h[Len(channel)])
               /\ g[Len(c)].list = Locations(children')
               /\ Boxes \subseteq g[Len(c)].there
    BY <1>2, <1>3, <1>4, SendsAListing, SendsWhatContinues, FrameForesees
<1>6. PICK f : /\ Foresees(f, channel \o c, TreeNow)
               /\ f[Len(channel \o c)] = g[Len(c)]
    BY <1>1, <1>2, <1>4, <1>5, MoreIsForeseen
<1>7. TreeNow' = TreeNow
    BY DEF TreeNow
<1>8. Agrees(f[Len(channel')], enclosed', children')
    BY <1>1, <1>5, <1>6 DEF Agrees
<1>9. channel' # <<>>
    <2>1. PICK i \in DOMAIN c : At(c, i, "new", Center)
        BY <1>1 DEF ListsLead
    <2>2. Len(channel \o c) = Len(channel) + Len(c)
          /\ Len(c) >= 1 /\ Len(channel) \in Nat /\ Len(c) \in Nat
        BY <2>1, <1>1
    <2>3. Len(channel \o c) # 0
        BY <2>2
    <2>. QED
        BY <2>3, <1>1
<1>10. Foresees(f, channel', TreeNow')
    BY <1>1, <1>6, <1>7
<1>11. (boundary = "frame" => Settled(TreeNow))'
    BY <1>7 DEF AheadInv
<1>. QED
    BY <1>8, <1>9, <1>10, <1>11 DEF AheadInv

\* What a change does to the tree is what was foreseen.
LEMMA TakingIsForeseen ==
    ASSUME ScreenInv, Take
    PROVE  TreeNow' = After(TreeNow, channel[1])
<1> DEFINE c == channel[1]
<1>1. /\ ReceiveAny /\ channel # <<>> /\ TakesIn(c)
      /\ leftover' = leftover \ {c.block}
    BY ReceiveIs DEF Take, ReceiveAny
<1>2. channel \in Seq(Change_) /\ TreeInv
    BY DEF ScreenInv
<1>3. Head(channel) = c /\ c \in Change_
    BY <1>1, <1>2, TailAt
<1>4. sub_blocks' = IF c.op = "new" /\ c.block = Center THEN c.sub_blocks ELSE sub_blocks
    BY <1>3 DEF Take, HeadBlock
<1> HIDE DEF c
<1>5. c.op \in {"new", "move", "remove"} /\ c.block \in Block
      /\ (c.op = "new" => c.wire # Absent)
    BY <1>3, ChangeIs, BlocksAre
<1>6. {b \in Block : shown'[b] # Absent}
        = IF c.op = "new" THEN {b \in Block : shown[b] # Absent} \cup {c.block}
          ELSE IF c.op = "remove" THEN {b \in Block : shown[b] # Absent} \ {c.block}
          ELSE {b \in Block : shown[b] # Absent}
    <2>1. CASE c.op = "new"
        BY <2>1, <1>1, <1>5 DEF TakesIn
    <2>2. CASE c.op = "remove"
        BY <2>2, <1>1, <1>5 DEF TakesIn
    <2>3. CASE c.op = "move"
        BY <2>3, <1>1, <1>5 DEF TakesIn
    <2>. QED
        BY <2>1, <2>2, <2>3, <1>5
<1>7. place' = [b \in Block |-> IF c.op = "new" \/ b # c.block THEN place[b]
                                ELSE IF c.op = "move" THEN c.to ELSE Unset]
    <2>1. ASSUME NEW b \in Block
          PROVE  place'[b] = IF c.op = "new" \/ b # c.block THEN place[b]
                             ELSE IF c.op = "move" THEN c.to ELSE Unset
        <3>1. CASE b # c.block
            BY <3>1, <1>1 DEF TakesIn
        <3>2. CASE b = c.block
            BY <3>2, <1>1, <1>5 DEF TakesIn
        <3>. QED
            BY <3>1, <3>2
    <2>2. place' = [b \in Block |-> place'[b]]
        BY <1>1 DEF TakesIn
    <2>. QED
        BY <2>1, <2>2
<1>. QED
    BY <1>1, <1>4, <1>6, <1>7 DEF TreeNow, After, c

LEMMA TakeKeepsAhead ==
    ASSUME ScreenInv, AheadInv, Take
    PROVE  AheadInv'
<1>1. /\ channel # <<>> /\ channel' = Tail(channel)
      /\ children' = children /\ enclosed' = enclosed
    BY ReceiveIs DEF Take, ReceiveAny, serverVars, vars
<1>2. channel \in Seq(Change_)
    BY DEF ScreenInv
<1>3. PICK h : Foresees(h, channel, TreeNow) /\ Agrees(h[Len(channel)], enclosed, children)
    BY DEF AheadInv
<1>4. TreeNow' = After(TreeNow, channel[1])
    BY TakingIsForeseen
<1>5. PICK g : /\ Foresees(g, Tail(channel), TreeNow')
               /\ g[Len(Tail(channel))] = h[Len(channel)]
    BY <1>1, <1>2, <1>3, <1>4, TakingForesees
<1>6. boundary' = BoundaryAfter(channel)
    BY DEF Take
<1>7. ASSUME boundary' = "frame" PROVE Settled(TreeNow')
    <2>1. FrameEnd(channel, 1)
        BY <1>6, <1>7 DEF BoundaryAfter, FrameEnd
    <2>2. 1 \in DOMAIN channel /\ h[1] = After(h[1 - 1], channel[1]) /\ h[0] = TreeNow
        BY <1>1, <1>2, <1>3 DEF Foresees
    <2>. QED
        BY <2>1, <2>2, <1>3, <1>4 DEF Foresees
<1>8. ASSUME channel' = <<>> PROVE boundary' = "frame"
    <2>1. Len(channel) = 1
        <3>1. Len(Tail(channel)) = Len(channel) - 1 /\ Len(channel) \in Nat
            BY <1>1, <1>2, TailAt
        <3>2. Len(Tail(channel)) = Len(<<>>) /\ Len(<<>>) = 0
            <4>1. Tail(channel) = <<>>
                BY <1>1, <1>8
            <4>2. Len(<<>>) = 0
                OBVIOUS
            <4>. QED
                BY <4>1, <4>2
        <3>. QED
            BY <3>1, <3>2
    <2>. QED
        BY <2>1, <1>6 DEF BoundaryAfter
<1>9. Foresees(g, channel', TreeNow') /\ Agrees(g[Len(channel')], enclosed', children')
    BY <1>1, <1>3, <1>5
<1>. QED
    BY <1>7, <1>8, <1>9 DEF AheadInv

\* A server that has sent nothing has to do with the tree that is there.
NothingSent ==
    /\ channel = <<>> /\ enclosed = FALSE
    /\ Listed(TreeNow)
    /\ boundary = "frame" => Settled(TreeNow)
    /\ \A id \in Paragraph : id \in TreeNow.there => id \in TreeNow.unnamed

LEMMA NothingIsForeseen ==
    ASSUME NothingSent
    PROVE  AheadInv
<1> DEFINE s == TreeNow
           h == [i \in {0} |-> s]
<1>1. Len(channel) = 0 /\ DOMAIN channel = {} /\ \A i \in 0 .. 0 : i = 0
    BY DEF NothingSent
<1> HIDE DEF s
<1>2. h[0] = s
    OBVIOUS
<1> HIDE DEF h
<1>3. Foresees(h, channel, s)
    BY <1>1, <1>2 DEF Foresees, NothingSent, s
<1>4. Agrees(h[Len(channel)], enclosed, children)
    BY <1>1, <1>2 DEF Agrees, NothingSent, s
<1>. QED
    BY <1>3, <1>4 DEF AheadInv, NothingSent, s

EmptyWindow ==
    /\ channel = <<>> /\ enclosed = FALSE
    /\ shown = Nothing /\ place = Nowhere /\ leftover = {}
    /\ sub_blocks = NoParagraphs /\ rendered = NothingRendered

LEMMA NothingIsSent ==
    ASSUME EmptyWindow
    PROVE  NothingSent
<1> DEFINE s == TreeNow
<1>1. /\ s.there = {} /\ s.list = NoParagraphs /\ s.unnamed = {}
      /\ \A b \in Block : s.place[b] = Unset
      /\ s = [there |-> s.there, place |-> [b \in Block |-> s.place[b]], list |-> s.list,
              unnamed |-> s.unnamed]
    <2>1. /\ TreeNow.there = {b \in Block : shown[b] # Absent}
          /\ TreeNow.place = place /\ TreeNow.list = sub_blocks /\ TreeNow.unnamed = leftover
          /\ TreeNow = [there |-> TreeNow.there, place |-> TreeNow.place,
                        list |-> TreeNow.list, unnamed |-> TreeNow.unnamed]
        BY DEF TreeNow
    <2>2. TreeNow.there = {}
        BY <2>1 DEF EmptyWindow, Nothing
    <2>3. place = [b \in Block |-> place[b]] /\ \A b \in Block : place[b] = Unset
        BY DEF EmptyWindow, Nowhere
    <2>. QED
        BY <2>1, <2>2, <2>3 DEF EmptyWindow
<1> HIDE DEF s
<1>2. NoParagraphs \in Lists
    <2>1. NoParagraphs \in [{} -> Nat]
        BY DEF NoParagraphs
    <2>. QED
        BY <2>1 DEF Lists
<1>3. Listed(s) /\ Settled(s)
    <2>1. Boxes \subseteq Block
        BY DEF Block
    <2>. QED
        BY <2>1, <1>1, <1>2 DEF Listed, Settled
<1>. QED
    BY <1>1, <1>3 DEF NothingSent, EmptyWindow, s

LEMMA TreeNowIsListed ==
    ASSUME ScreenInv, AheadInv
    PROVE  Listed(TreeNow)
<1>1. PICK h : Foresees(h, channel, TreeNow)
    BY DEF AheadInv
<1>2. 0 \in 0 .. Len(channel)
    BY DEF ScreenInv
<1>. QED
    BY <1>1, <1>2 DEF Foresees

\* A tree that is kept is one of which nothing was said.
LEMMA KeptTreeIsUnnamed ==
    ASSUME ScreenInv, AheadInv, NextConnection, KeepTree, UNCHANGED <<sub_blocks, boundary>>
    PROVE  NothingSent'
<1>1. /\ channel' = <<>> /\ enclosed' = FALSE
      /\ shown' = shown /\ place' = place /\ sub_blocks' = sub_blocks /\ boundary' = boundary
      /\ leftover' = {id \in Paragraph : shown[id] # Absent}
    BY DEF NextConnection, KeepTree, clientVars, Client!Present
<1> DEFINE s == TreeNow
           r == TreeNow'
<1>2. /\ s.there = {b \in Block : shown[b] # Absent}
      /\ s.place = place /\ s.list = sub_blocks
    BY DEF TreeNow
<1>3. /\ r.there = s.there /\ r.place = s.place /\ r.list = s.list
      /\ r.unnamed = {id \in Paragraph : shown[id] # Absent}
      /\ r = [there |-> r.there, place |-> r.place, list |-> r.list, unnamed |-> r.unnamed]
    BY <1>1 DEF TreeNow
<1>4. Listed(s)
    BY TreeNowIsListed
<1>5. boundary = "frame" => Settled(s)
    BY DEF AheadInv
<1>6. s.place = [b \in Block |-> s.place[b]]
    BY <1>2 DEF ScreenInv, TreeInv
<1>7. Paragraph \subseteq Block
    BY DEF Block
<1> HIDE DEF s, r
<1>8. \A id \in Paragraph : id \in r.there => id \in r.unnamed
    BY <1>2, <1>3
<1>9. Listed(r)
    <2>1. r = [there |-> r.there, place |-> [b \in Block |-> r.place[b]], list |-> r.list,
               unnamed |-> r.unnamed]
        BY <1>3, <1>6
    <2>. QED
        BY <2>1, <1>3, <1>4, <1>8 DEF Listed
<1>10. boundary = "frame" => Settled(r)
    BY <1>3, <1>5, <1>8 DEF Settled
<1>. QED
    BY <1>1, <1>8, <1>9, <1>10 DEF NothingSent, r

\* What holds of the tree as it is.
LEMMA TreeIsListed ==
    ASSUME ScreenInv, AheadInv
    PROVE  /\ LinesListed
           /\ \A b \in Boxes : place[b] # Unset => BoxesThere
           /\ boundary = "frame" /\ leftover = {} /\ BoxesThere => InPlace
<1>1. channel \in Seq(Change_) /\ Boxes \subseteq Block /\ Paragraph \subseteq Block
      /\ Status \in Block
    BY DEF ScreenInv, Block
<1>3. Listed(TreeNow)
    BY TreeNowIsListed
<1>4. /\ TreeNow.there = {b \in Block : shown[b] # Absent}
      /\ TreeNow.place = place /\ TreeNow.list = sub_blocks /\ TreeNow.unnamed = leftover
    BY DEF TreeNow
<1>5. LinesListed
    BY <1>1, <1>3, <1>4 DEF Listed, LinesListed
<1>6. \A b \in Boxes : place[b] # Unset => BoxesThere
    BY <1>1, <1>3, <1>4 DEF Listed, BoxesThere
<1>7. ASSUME boundary = "frame", leftover = {}, BoxesThere PROVE InPlace
    <2>1. Settled(TreeNow)
        BY <1>7 DEF AheadInv
    <2>2. \A b \in Boxes : b \notin Paragraph /\ shown[b] # Absent
        BY <1>7, BlocksAre DEF BoxesThere
    <2>3. Status \notin Paragraph
        BY BlocksAre
    <2>4. \A id \in Paragraph : shown[id] # Absent =>
            id \in DOMAIN sub_blocks /\ place[id] = sub_blocks[id]
        BY <2>1, <1>1, <1>4, <1>5, <1>7 DEF Settled, LinesListed
    <2>. QED
        BY <2>1, <2>2, <2>3, <2>4, <1>1, <1>4, <1>7 DEF Settled, InPlace
<1>. QED
    BY <1>5, <1>6, <1>7

-----------------------------------------------------------------------------
(* What is kept, from step to step.                                         *)

LEMMA CachedAre ==
    /\ Buffered \subseteq Cached /\ Block \ Boxes \subseteq Cached /\ Cached \subseteq Block
    /\ \A b \in Cached : b \in Boxes <=> b \in Buffered
    /\ \A b \in Block : Enclosure \in Ancestors[b] \cup {b}
<1>1. Boxes \subseteq Block
    BY DEF Block
<1>2. \A b \in Block : Enclosure \in Ancestors[b] \cup {b}
    BY IdsAssumption DEF Ancestors, Block, Boxes
<1>. QED
    BY <1>1, <1>2, BufferedAssumption DEF Cached

\* Nothing is drawn before all boxes are there.
LEMMA DrawnInBoxes ==
    ASSUME ScreenInv, AheadInv, NEW b \in Block, Drawn(b)
    PROVE  BoxesThere
<1>1. Enclosure \in InLayers(Parent[Enclosure]) /\ Enclosure \in Boxes
    BY CachedAre DEF Drawn, Boxes
<1>. QED
    BY <1>1, TreeIsListed DEF InLayers

\* A picture that is drawn now is one of the tree as it is.
LEMMA KeptNow ==
    ASSUME ScreenInv, AheadInv, PicturesKept, NEW b \in Boxes, Drawn(b)
    PROVE  PictureOf(b, Keep(b), shown, sub_blocks)
<1>1. b \in Block /\ LinesListed
    BY TreeIsListed DEF Block
<1>2. BoxesThere
    BY <1>1, DrawnInBoxes
<1>3. /\ Keep(b).description_hash = description_hash(b)
      /\ Keep(b).image = Picture(b) /\ Keep(b).whole = Whole(b)
      /\ Keep(b).strays = leftover \cup Strays(b)
    BY DEF Keep
<1>4. description_hash(b)[2] = BoxHash(b, shown, sub_blocks)
    BY <1>1, <1>2, HashIs DEF description_hash, LinesListed
<1>5. Says(b, Picture(b))
    BY <1>1, PictureSays
<1>6. ASSUME Whole(b) PROVE Picture(b) = BoxShows(b, shown, sub_blocks)
    <2>1. InPlace
        BY <1>2, <1>6, TreeIsListed DEF Whole
    <2>2. \A c \in ReusedIn(b) : rendered[c].whole
        BY <1>6 DEF Whole
    <2>. QED
        BY <2>1, <2>2, <1>1, WholePictureShows
<1>7. \A x \in Picture(b) :
        \/ x[1] \in TextsIn(b, sub_blocks) /\ x[3] = shown[x[1]]
        \/ x[1] \in leftover \cup Strays(b)
    BY <1>5 DEF Says
<1>. QED
    BY <1>3, <1>4, <1>6, <1>7 DEF PictureOf

\* So is that of a text.
LEMMA TextKeptNow ==
    ASSUME ScreenInv, AheadInv, NEW b \in Block \ Boxes, Drawn(b)
    PROVE  Keep(b).image = Keep(b).description_hash[2]
<1>1. BoxesThere /\ LinesListed
    BY DrawnInBoxes, TreeIsListed
<1>2. Keep(b).image = shown[b] /\ Keep(b).description_hash = description_hash(b)
    BY DEF Keep
<1>3. hash_block_recursively(b) = shown[b]
    BY <1>1, HashIs DEF LinesListed
<1>. QED
    BY <1>2, <1>3 DEF description_hash

LEMMA DrawingKeepsPictures ==
    ASSUME ScreenInv, AheadInv, PicturesKept, DrawFrame
    PROVE  PicturesKept'
<1>1. BoxesThere' <=> BoxesThere
    BY DEF DrawFrame, allVars, clientVars, BoxesThere
<1>2. ASSUME NEW b \in Cached
      PROVE  rendered'[b] = IF Drawn(b) /\ ~Reused(b) THEN Keep(b) ELSE rendered[b]
    BY DEF DrawFrame
<1>3. ASSUME NEW b \in Cached, rendered'[b] # NotRendered
      PROVE  BoxesThere
    BY <1>2, <1>3, CachedAre, DrawnInBoxes DEF PicturesKept
<1>4. ASSUME NEW b \in Buffered, rendered'[b] # NotRendered
      PROVE  \E texts, list : PictureOf(b, rendered'[b], texts, list)
    <2>0. b \in Boxes /\ b \in Cached
        BY BufferedAssumption, CachedAre
    <2>1. CASE Drawn(b) /\ ~Reused(b)
        BY <2>0, <2>1, <1>2, KeptNow
    <2>2. CASE ~(Drawn(b) /\ ~Reused(b))
        BY <2>0, <2>2, <1>2, <1>4 DEF PicturesKept
    <2>. QED
        BY <2>1, <2>2
<1>5. ASSUME NEW b \in Block \ Boxes, rendered'[b] # NotRendered
      PROVE  rendered'[b].image = rendered'[b].description_hash[2]
    <2>0. b \in Cached
        BY CachedAre
    <2>1. CASE Drawn(b) /\ ~Reused(b)
        BY <2>0, <2>1, <1>2, TextKeptNow
    <2>2. CASE ~(Drawn(b) /\ ~Reused(b))
        BY <2>0, <2>2, <1>2, <1>5 DEF PicturesKept
    <2>. QED
        BY <2>1, <2>2
<1>. QED
    BY <1>1, <1>3, <1>4, <1>5 DEF PicturesKept

\* The boxes that were there when a picture was kept still are: only paragraphs
\* are removed.
LEMMA TakingKeepsPictures ==
    ASSUME ScreenInv, PicturesKept, Take
    PROVE  PicturesKept'
<1>1. /\ ReceiveAny /\ channel # <<>> /\ TakesIn(channel[1])
      /\ \A b \in Cached : rendered'[b] # NotRendered => rendered'[b] = rendered[b]
    BY ReceiveIs DEF Take, ReceiveAny
<1>2. channel[1] \in Change_
    BY <1>1, TailAt DEF ScreenInv
<1>3. ASSUME BoxesThere PROVE BoxesThere'
    <2>1. ASSUME NEW b \in Boxes PROVE shown'[b] # Absent
        <3>0. b \in Block /\ b \notin Paragraph /\ shown[b] # Absent
            BY <1>3, BlocksAre DEF Block, BoxesThere
        <3>1. CASE b # channel[1].block
            BY <3>0, <3>1, <1>1 DEF TakesIn
        <3>2. CASE b = channel[1].block
            <4>1. channel[1].op = "new" \/ channel[1].op = "move"
                BY <3>0, <3>2, <1>2, ChangeIs
            <4>2. channel[1].op = "new" => channel[1].wire # Absent
                BY <1>2, ChangeIs, BlocksAre
            <4>. QED
                BY <3>0, <3>2, <4>1, <4>2, <1>1 DEF TakesIn
        <3>. QED
            BY <3>1, <3>2
    <2>. QED
        BY <2>1 DEF BoxesThere
<1>. QED
    BY <1>1, <1>3, CachedAre DEF PicturesKept

-----------------------------------------------------------------------------
(* What the window shows.                                                   *)

DrawInv == ScreenInv /\ AheadInv /\ PicturesKept

LEMMA EmptyWindowHasInv ==
    ASSUME EmptyWindow, ServerInit
    PROVE  DrawInv
<1>1. ScreenInv
    BY EmptyScreenHasInv DEF EmptyWindow
<1>2. AheadInv
    BY NothingIsSent, NothingIsForeseen
<1>3. PicturesKept
    BY CachedAre DEF EmptyWindow, NothingRendered, PicturesKept
<1>. QED
    BY <1>1, <1>2, <1>3 DEF DrawInv

LEMMA FrameKeepsDrawInv ==
    ASSUME MaxGeneration \in Word, DrawInv,
           NEW text \in update_state, NEW resized \in BOOLEAN, Frame(text, resized)
    PROVE  AheadInv' /\ PicturesKept'
<1>1. /\ ScreenInv /\ CenterInv /\ AheadInv /\ PicturesKept /\ sync_screen(text, resized)
      /\ shown' = shown /\ place' = place /\ sub_blocks' = sub_blocks
      /\ boundary' = boundary /\ rendered' = rendered /\ enclosed' = TRUE
      /\ leftover' = leftover
    BY DEF DrawInv, ScreenInv, Frame, sync_screen, clientVars, history
<1>2. /\ \E c : Sends(c)
      /\ DOMAIN children \ DOMAIN children' \subseteq pending_removal'
    BY <1>1, FrameIs DEF update_state
<1>3. PICK c : Sends(c)
    BY <1>2
<1>4. AheadInv'
    BY <1>1, <1>2, <1>3, FrameKeepsAhead
<1>5. PicturesKept'
    BY <1>1 DEF PicturesKept, BoxesThere
<1>. QED
    BY <1>4, <1>5

LEMMA StartAgainKeepsDrawInv ==
    ASSUME DrawInv, ScreenInv', StartAgain
    PROVE  DrawInv'
<1>0. ScreenInv /\ AheadInv /\ PicturesKept
    BY DEF DrawInv
<1>1. CASE ResetTree /\ sub_blocks' = NoParagraphs /\ rendered' = NothingRendered
    <2>1. /\ channel' = <<>> /\ enclosed' = FALSE /\ leftover' = {}
          /\ shown' = [b \in Block |-> Absent] /\ place' = [b \in Block |-> Unset]
        BY <1>1 DEF StartAgain, NextConnection, ResetTree, Client!Clear
    <2>2. EmptyWindow'
        BY <2>1, <1>1 DEF EmptyWindow, Nothing, Nowhere, NoParagraphs, NothingRendered
    <2>3. ServerInit'
        BY DEF StartAgain, NextConnection, new_connection, ServerInit, Init
    <2>. QED
        BY <2>2, <2>3, EmptyWindowHasInv, PTL
<1>2. CASE KeepTree /\ UNCHANGED <<sub_blocks, boundary, rendered>>
    <2>1. NothingSent'
        BY <1>0, <1>2, KeptTreeIsUnnamed DEF StartAgain
    <2>2. AheadInv'
        BY <2>1, NothingIsForeseen, PTL
    <2>3. rendered' = rendered /\ shown' = shown
        BY <1>2 DEF KeepTree, clientVars
    <2>4. PicturesKept'
        BY <1>0, <2>3 DEF PicturesKept, BoxesThere
    <2>. QED
        BY <2>2, <2>4 DEF DrawInv
<1>. QED
    BY <1>1, <1>2 DEF StartAgain

LEMMA StepKeepsDrawInv ==
    ASSUME MaxGeneration \in Word, DrawInv, [DrawNext]_drawVars
    PROVE  DrawInv'
<1>0. ScreenInv /\ AheadInv /\ PicturesKept
    BY DEF DrawInv
<1>1. [ScreenNext]_allVars
    BY DEF DrawNext, Frame, Take, StartAgain, DrawFrame, ScreenNext, Reconnect, drawVars
<1>2. ScreenInv'
    BY <1>0, <1>1, StepKeepsScreenInv
<1>3. ASSUME NEW text \in update_state, NEW resized \in BOOLEAN, Frame(text, resized)
      PROVE  DrawInv'
    BY <1>2, <1>3, FrameKeepsDrawInv DEF DrawInv
<1>4. CASE Take
    BY <1>0, <1>2, <1>4, TakeKeepsAhead, TakingKeepsPictures DEF DrawInv
<1>5. CASE StartAgain
    BY <1>2, <1>5, StartAgainKeepsDrawInv
\* Nothing but the pictures is changed by the rest.
<1>6. ASSUME allVars' = allVars, sub_blocks' = sub_blocks, boundary' = boundary
      PROVE  AheadInv'
    <2>1. /\ channel' = channel /\ shown' = shown /\ place' = place
          /\ enclosed' = enclosed /\ children' = children /\ leftover' = leftover
        BY <1>6 DEF allVars, serverVars, clientVars, vars, history
    <2>2. TreeNow' = TreeNow
        BY <2>1, <1>6 DEF TreeNow
    <2>. QED
        BY <1>0, <1>6, <2>1, <2>2 DEF AheadInv
<1>7. CASE DrawFrame
    <2>1. allVars' = allVars /\ sub_blocks' = sub_blocks /\ boundary' = boundary
        BY <1>7 DEF DrawFrame
    <2>. QED
        BY <2>1, <1>0, <1>2, <1>6, <1>7, DrawingKeepsPictures DEF DrawInv
<1>8. CASE UNCHANGED drawVars
    <2>1. /\ allVars' = allVars /\ sub_blocks' = sub_blocks /\ boundary' = boundary
          /\ rendered' = rendered
        BY <1>8 DEF drawVars
    <2>2. shown' = shown
        BY <2>1 DEF allVars, clientVars
    <2>3. PicturesKept'
        BY <1>0, <2>1, <2>2 DEF PicturesKept, BoxesThere
    <2>. QED
        BY <2>1, <2>3, <1>2, <1>6 DEF DrawInv
<1>. QED
    BY <1>3, <1>4, <1>5, <1>7, <1>8 DEF DrawNext

\* In every state the kept pictures are those of trees with the hash they were
\* kept with, and the rest of the frame that is on its way will put everything
\* where the list says that has come before it.  Connections may end at any time,
\* in the middle of a frame too, and the next one may go on with the tree and the
\* pictures of the one before.
THEOREM WindowInvariant ==
    ASSUME MaxGeneration \in Word PROVE DrawSpec => []DrawInv
<1>1. DrawInit => DrawInv
    BY EmptyWindowHasInv DEF DrawInit, ScreenInit, EmptyWindow, ServerInit
<1>2. DrawInv /\ [DrawNext]_drawVars => DrawInv'
    BY StepKeepsDrawInv
<1>. QED
    BY <1>1, <1>2, PTL DEF DrawSpec

\* Whatever is drawn in the middle of frames and kept, the window shows no text
\* that its block does not have any more: the hash of a box takes in the list of
\* the center and the texts on it, and no paragraph is there without being listed,
\* so a picture is only reused when every text in it is what it was.  The lines that
\* are there and not listed are those an earlier connection has left, and only
\* those may be seen in pictures of before.
THEOREM NoTextIsOld ==
    ASSUME MaxGeneration \in Word PROVE DrawSpec => []NoOldText
<1>1. DrawInv => NoOldText
    <2>1. ASSUME DrawInv, NEW t \in Picture(Enclosure)
          PROVE  shown[t[1]] = t[3] \/ t[1] \in Strays(Enclosure)
        <3>1. PicturesKept /\ LinesListed /\ Enclosure \in Boxes
            BY <2>1, TreeIsListed DEF DrawInv, Boxes
        <3>2. Says(Enclosure, Picture(Enclosure))
            BY <3>1, PictureSays
        <3>. QED
            BY <2>1, <3>2 DEF Says
    <2>. QED
        BY <2>1 DEF NoOldText
<1>. QED
    BY <1>1, WindowInvariant, PTL

\* A picture kept of a whole frame is reused for a frame only when that frame
\* looks the same, although it is drawn from the layers, which moves fill, and
\* hashed from the lists: at the end of a frame the two say the same.  It may be a
\* picture of an earlier connection, whose tree was kept, as soon as none of its
\* lines is left over.
THEOREM WholePicturesStayRight ==
    ASSUME MaxGeneration \in Word PROVE DrawSpec => []WholePicturesAreRight
<1>1. DrawInv => WholePicturesAreRight
    <2>1. ASSUME DrawInv, boundary = "frame", leftover = {}, NEW b \in Buffered,
                 Reused(b), rendered[b].whole
          PROVE  rendered[b].image = Contents(b)
        <3>1. ScreenInv /\ AheadInv /\ PicturesKept /\ LinesListed /\ b \in Boxes
            BY <2>1, BufferedAssumption, TreeIsListed DEF DrawInv
        <3>2. BoxesThere /\ rendered[b].image = BoxShows(b, shown, sub_blocks)
            BY <2>1, <3>1, ReusedIsRight DEF LinesListed
        <3>3. InPlace
            BY <2>1, <3>1, <3>2, TreeIsListed
        <3>4. Contents(b) = BoxShows(b, shown, sub_blocks)
            BY <3>1, <3>3, ContentsShow
        <3>. QED
            BY <3>2, <3>4
    <2>. QED
        BY <2>1 DEF WholePicturesAreRight
<1>. QED
    BY <1>1, WindowInvariant, PTL

\* Pictures kept in the middle of a frame are the only thing that can spoil the
\* window of a tree in which no other connection has left a line: when a frame has
\* arrived and none of them is used again, the window shows what is in the layers,
\* whichever pictures of whole frames, and of texts, are reused.
Untorn == \A b \in Buffered : Reused(b) => rendered[b].whole

FramesAreShown ==
    boundary = "frame" /\ leftover = {} /\ Untorn => Picture(Enclosure) = Contents(Enclosure)

THEOREM UntornFramesAreShown ==
    ASSUME MaxGeneration \in Word PROVE DrawSpec => []FramesAreShown
<1>1. DrawInv => FramesAreShown
    <2>1. ASSUME DrawInv, boundary = "frame", leftover = {}, Untorn
          PROVE  Picture(Enclosure) = Contents(Enclosure)
        <3>1. /\ ScreenInv /\ AheadInv /\ PicturesKept /\ LinesListed
              /\ Enclosure \in Boxes /\ Enclosure \in Block /\ Editor \in Boxes
            BY <2>1, TreeIsListed DEF DrawInv, Boxes, Block
        <3>2. CASE BoxesThere
            <4>1. InPlace
                BY <2>1, <3>1, <3>2, TreeIsListed
            <4>2. \A c \in ReusedIn(Enclosure) : rendered[c].whole
                BY <2>1 DEF Untorn, ReusedIn
            <4>. QED
                BY <3>1, <4>1, <4>2, WholePictureShows, ContentsShow
\* Before all boxes are there nothing is drawn, and nothing was kept.
        <3>3. CASE ~BoxesThere
            <4>1. InLayers(Enclosure) = {}
                <5>1. ASSUME NEW d \in InLayers(Enclosure) PROVE FALSE
                    <6>1. d = Editor /\ place[d] # Unset
                        BY <5>1, LayersAre DEF InLayers
                    <6>. QED
                        BY <6>1, <3>1, <3>3, TreeIsListed
                <5>. QED
                    BY <5>1
            <4>2. ~Reused(Enclosure)
                BY <3>1, <3>3, ReusedIsRight DEF LinesListed
            <4>3. Picture(Enclosure) = UNION {Picture(d) : d \in InLayers(Enclosure)}
                BY <3>1, <4>2, PictureIs
            <4>4. Contents(Enclosure) = UNION {Contents(d) : d \in InLayers(Enclosure)}
                BY <3>1, ContentsAre
            <4>5. /\ {Picture(d) : d \in InLayers(Enclosure)} = {}
                  /\ {Contents(d) : d \in InLayers(Enclosure)} = {}
                BY <4>1
            <4>. QED
                BY <4>3, <4>4, <4>5
        <3>. QED
            BY <3>2, <3>3
    <2>. QED
        BY <2>1 DEF FramesAreShown
<1>. QED
    BY <1>1, WindowInvariant, PTL

\* From the editor to the window: when nothing is on its way, no other connection
\* has left a line and no picture of half a frame is reused, every line of the
\* document whose id was never removed is in the picture with its text and at its
\* place, and no other line is.
LinesInTheWindow ==
    channel = <<>> /\ enclosed /\ leftover = {} /\ Untorn =>
        /\ \A id \in DOMAIN children \ pending_removal :
            <<id, children[id].location, children[id].text>> \in Picture(Enclosure)
        /\ \A t \in Picture(Enclosure) : t[1] \in Paragraph =>
            /\ t[1] \in DOMAIN children
            /\ t[2] = children[t[1]].location /\ t[3] = children[t[1]].text

THEOREM LinesReachTheWindow ==
    ASSUME MaxGeneration \in Word PROVE DrawSpec => []LinesInTheWindow
<1>1. DrawInv /\ FramesAreShown => LinesInTheWindow
    <2>1. SUFFICES ASSUME DrawInv, FramesAreShown, channel = <<>>, enclosed,
                          leftover = {}, Untorn
                   PROVE  /\ \A id \in DOMAIN children \ pending_removal :
                                <<id, children[id].location, children[id].text>>
                                    \in Picture(Enclosure)
                          /\ \A t \in Picture(Enclosure) : t[1] \in Paragraph =>
                                /\ t[1] \in DOMAIN children
                                /\ t[2] = children[t[1]].location
                                /\ t[3] = children[t[1]].text
        BY DEF LinesInTheWindow
    <2>2. /\ ScreenInv /\ AheadInv /\ LinesListed /\ boundary = "frame"
          /\ DOMAIN channel = {} /\ Len(channel) = 0
        <3>1. ScreenInv /\ AheadInv
            BY <2>1 DEF DrawInv
        <3>2. boundary = "frame"
            BY <2>1, <3>1 DEF AheadInv
        <3>3. DOMAIN channel = {} /\ Len(channel) = 0
            BY <2>1
        <3>. QED
            BY <3>1, <3>2, <3>3, TreeIsListed
    <2>3. BoxesThere
        BY <2>1, <2>2 DEF ScreenInv, ChannelInv, BoxesCome, BoxesThere, Client!Present
    <2>4. Picture(Enclosure) = BoxShows(Enclosure, shown, sub_blocks)
        <3>1. InPlace /\ Enclosure \in Boxes
            BY <2>1, <2>2, <2>3, TreeIsListed DEF Boxes
        <3>. QED
            BY <2>1, <2>2, <3>1, ContentsShow DEF FramesAreShown
    <2>5. Picture(Enclosure) = LinesShown(shown, sub_blocks) \cup StatusShown(shown)
        BY <2>4, IdsAssumption DEF BoxShows
    <2>6. /\ DOMAIN sub_blocks = DOMAIN children
          /\ \A id \in DOMAIN children : sub_blocks[id] = children[id].location
        <3>1. PICK h : Foresees(h, channel, TreeNow) /\ Agrees(h[Len(channel)], enclosed, children)
            BY <2>2 DEF AheadInv
        <3>2. TreeNow.list = Locations(children)
            BY <2>1, <2>2, <3>1 DEF Foresees, Agrees
        <3>3. sub_blocks = Locations(children)
            BY <3>2 DEF TreeNow
        <3>. QED
            BY <3>3 DEF Locations
    <2>7. ASSUME NEW id \in DOMAIN children \ pending_removal
          PROVE  <<id, children[id].location, children[id].text>> \in Picture(Enclosure)
        <3>1. shown[id] = children[id].text
            BY <2>2 DEF ScreenInv, ChannelInv, TextsCome
        <3>2. children[id].text \in Text \cup {NoText}
            <4>1. children \in [DOMAIN children -> TextBlock_(Text \cup {NoText})]
                BY <2>2 DEF ScreenInv, CenterInv, FrameInv, Blocks
            <4>2. children[id] \in TextBlock_(Text \cup {NoText})
                BY <4>1, <2>7
            <4>. QED
                BY <4>2 DEF TextBlock_
        <3>3. shown[id] # Absent
            BY <3>1, <3>2, ContentsAssumption
        <3>4. <<id, sub_blocks[id], shown[id]>> \in LinesShown(shown, sub_blocks)
            BY <2>6, <3>3 DEF LinesShown
        <3>. QED
            BY <2>5, <2>6, <3>1, <3>4
    <2>8. ASSUME NEW t \in Picture(Enclosure), t[1] \in Paragraph
          PROVE  /\ t[1] \in DOMAIN children
                 /\ t[2] = children[t[1]].location /\ t[3] = children[t[1]].text
        <3>1. t \notin StatusShown(shown)
            BY <2>8, BlocksAre DEF StatusShown
        <3>2. PICK id \in DOMAIN sub_blocks :
                shown[id] # Absent /\ t = <<id, sub_blocks[id], shown[id]>>
            BY <2>5, <2>8, <3>1 DEF LinesShown
        <3>3. id \in DOMAIN children /\ shown[id] = children[id].text
            BY <2>1, <2>2, <2>8, <3>2 DEF ScreenInv, ChannelInv, StaleLinesGoAway, Client!Present
        <3>. QED
            BY <2>6, <3>2, <3>3
    <2>. QED
        BY <2>7, <2>8
<1>. QED
    BY <1>1, WindowInvariant, UntornFramesAreShown, PTL

=============================================================================
