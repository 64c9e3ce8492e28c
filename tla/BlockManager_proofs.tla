-------------------------- MODULE BlockManager_proofs --------------------------
(* Proofs about BlockManager, for any tree of blocks, layers and locations.  *)
EXTENDS BlockManager, SequenceTheorems, TLAPS

-----------------------------------------------------------------------------
(* Layer vectors.                                                          *)

\* What swap_remove leaves of a vector.
LEMMA SwapRemoveProperties ==
    ASSUME NEW s \in Seq(Slot), NEW i \in 1 .. Len(s)
    PROVE  /\ SwapRemove(s, i) \in Seq(Slot)
           /\ DOMAIN SwapRemove(s, i) = 1 .. Len(s) - 1
           /\ \A j \in 1 .. Len(s) - 1 :
                SwapRemove(s, i)[j] = IF j = i THEN s[Len(s)] ELSE s[j]
<1> DEFINE n == Len(s) - 1
           t == SwapRemove(s, i)
<1>1. n \in Nat /\ \A j \in 1 .. n : j \in 1 .. Len(s) /\ Len(s) \in 1 .. Len(s)
  BY LenProperties
<1>2. \A j \in 1 .. Len(s) : s[j] \in Slot
  BY ElementOfSeq
<1>3. t \in [1 .. n -> Slot]
  BY <1>1, <1>2 DEF SwapRemove
<1>4. t \in Seq(Slot)
  BY <1>1, <1>3, SeqDef
<1> QED
  BY <1>3, <1>4 DEF SwapRemove

\* In a vector without duplicates there is only one index to find.
LEMMA FirstOccurrenceProperties ==
    ASSUME NEW s \in Seq(Slot), NEW b, Distinct(s), Occurrences(s, b) # {}
    PROVE  /\ FirstOccurrence(s, b) \in 1 .. Len(s)
           /\ s[FirstOccurrence(s, b)].id = b
           /\ \A j \in DOMAIN s : s[j].id = b => j = FirstOccurrence(s, b)
<1>1. DOMAIN s = 1 .. Len(s) /\ Len(s) \in Nat
  BY LenProperties
<1>2. PICK i \in Occurrences(s, b) : TRUE
  OBVIOUS
<1>3. \A j \in Occurrences(s, b) : j = i
  BY <1>2 DEF Occurrences, Distinct
<1>4. i \in 1 .. Len(s)
  BY <1>1, <1>2 DEF Occurrences
<1>5. \A j \in Occurrences(s, b) : i =< j
  BY <1>3, <1>4
<1>6. FirstOccurrence(s, b) \in Occurrences(s, b)
  BY <1>2, <1>5 DEF FirstOccurrence
<1> QED
  BY <1>1, <1>3, <1>6 DEF Occurrences

\* remove_from_layer takes out the block, and only it.
LEMMA RemoveFirstProperties ==
    ASSUME NEW s \in Seq(Slot), NEW b, Distinct(s)
    PROVE  /\ RemoveFirst(s, b) \in Seq(Slot)
           /\ Distinct(RemoveFirst(s, b))
           /\ Ids(RemoveFirst(s, b)) = Ids(s) \ {b}
<1>1. CASE Occurrences(s, b) = {}
  <2>1. b \notin Ids(s)
    BY <1>1 DEF Occurrences, Ids
  <2> QED
    BY <1>1, <2>1 DEF RemoveFirst
<1>2. CASE Occurrences(s, b) # {}
  <2> DEFINE k == FirstOccurrence(s, b)
             t == SwapRemove(s, k)
             n == Len(s)
  <2>1. k \in 1 .. n /\ s[k].id = b /\ \A j \in DOMAIN s : s[j].id = b => j = k
    BY <1>2, FirstOccurrenceProperties
  <2>2. DOMAIN s = 1 .. n /\ n \in Nat
    BY LenProperties
  <2> HIDE DEF k
  <2>3. /\ t \in Seq(Slot)
        /\ DOMAIN t = 1 .. n - 1
        /\ \A j \in 1 .. n - 1 : t[j] = IF j = k THEN s[n] ELSE s[j]
    BY <2>1, SwapRemoveProperties
  <2> HIDE DEF t, n
  <2>4. Distinct(t)
    BY <2>1, <2>2, <2>3 DEF Distinct
  <2>5. Ids(t) \subseteq Ids(s) \ {b}
    BY <2>1, <2>2, <2>3 DEF Ids, Distinct
  <2>6. Ids(s) \ {b} \subseteq Ids(t)
    <3> SUFFICES ASSUME NEW j \in DOMAIN s, s[j].id # b
                 PROVE  \E m \in DOMAIN t : t[m].id = s[j].id
      BY DEF Ids
    <3>1. CASE j = n
      BY <3>1, <2>1, <2>2, <2>3
    <3>2. CASE j # n
      BY <3>2, <2>1, <2>2, <2>3
    <3> QED
      BY <3>1, <3>2
  <2>7. RemoveFirst(s, b) = t
    BY <1>2 DEF RemoveFirst, t, k
  <2> QED
    BY <2>3, <2>4, <2>5, <2>6, <2>7
<1> QED
  BY <1>1, <1>2

\* A change of location in place leaves the ids as they are.
LEMMA RelocateFirstProperties ==
    ASSUME NEW s \in Seq(Slot), NEW b \in Block, NEW loc \in Loc, Distinct(s)
    PROVE  /\ RelocateFirst(s, b, loc) \in Seq(Slot)
           /\ Distinct(RelocateFirst(s, b, loc))
           /\ Ids(RelocateFirst(s, b, loc)) = Ids(s)
<1>1. CASE Occurrences(s, b) = {}
  BY <1>1 DEF RelocateFirst
<1>2. CASE Occurrences(s, b) # {}
  <2> DEFINE k == FirstOccurrence(s, b)
             e == [id |-> b, loc |-> loc]
             t == [s EXCEPT ![k] = e]
  <2>1. k \in 1 .. Len(s) /\ s[k].id = b
    BY <1>2, FirstOccurrenceProperties
  <2>2. DOMAIN s = 1 .. Len(s) /\ Len(s) \in Nat
    BY LenProperties
  <2>3. e \in Slot /\ e.id = b
    BY DEF Slot
  <2> HIDE DEF k, e
  <2>4. t \in Seq(Slot)
    BY <2>1, <2>3, ExceptSeq
  <2>5. DOMAIN t = DOMAIN s /\ \A j \in DOMAIN s : t[j].id = s[j].id
    BY <2>1, <2>2, <2>3
  <2> HIDE DEF t
  <2>6. Distinct(t) /\ Ids(t) = Ids(s)
    BY <2>5 DEF Distinct, Ids
  <2>7. RelocateFirst(s, b, loc) = t
    BY <1>2 DEF RelocateFirst, t, k, e
  <2> QED
    BY <2>4, <2>6, <2>7
<1> QED
  BY <1>1, <1>2

\* A block is pushed onto a layer it is not in.
LEMMA PushProperties ==
    ASSUME NEW s \in Seq(Slot), NEW b \in Block, NEW loc \in Loc,
           Distinct(s), b \notin Ids(s)
    PROVE  LET t == Append(s, [id |-> b, loc |-> loc])
           IN  t \in Seq(Slot) /\ Distinct(t) /\ Ids(t) = Ids(s) \cup {b}
<1> DEFINE e == [id |-> b, loc |-> loc]
           t == Append(s, e)
           n == Len(s)
<1>1. e \in Slot /\ e.id = b
  BY DEF Slot
<1> HIDE DEF e
<1>2. DOMAIN s = 1 .. n /\ n \in Nat
  BY LenProperties
<1>3. /\ t \in Seq(Slot)
      /\ DOMAIN t = 1 .. n + 1
      /\ \A j \in 1 .. n : t[j] = s[j]
      /\ t[n + 1] = e
  BY <1>1, <1>2, AppendProperties, LenProperties
<1> HIDE DEF t, n
<1>4. Distinct(t)
  BY <1>1, <1>2, <1>3 DEF Distinct, Ids
<1>5. Ids(t) = Ids(s) \cup {b}
  BY <1>1, <1>2, <1>3 DEF Ids
<1> QED
  BY <1>3, <1>4, <1>5 DEF t, e

IsLayers(ls) ==
    ls \in [Layer -> Seq(Slot)] /\ \A m \in Layer : Distinct(ls[m])

\* The layer l, when it is one, has b, and no other layer has.
IsFiledUnder(ls, b, l) == \A m \in Layer : b \in Ids(ls[m]) <=> m = l

\* out has the blocks of ls, except that b left the layer l.
LeftLayer(ls, out, l, b) ==
    /\ IsLayers(out)
    /\ \A m \in Layer :
        Ids(out[m]) = IF m = l THEN Ids(ls[m]) \ {b} ELSE Ids(ls[m])

\* out has the blocks of ls, except that b is in the layer to, and only there.
IsMovedTo(ls, out, b, to) ==
    /\ IsLayers(out)
    /\ \A m \in Layer :
        Ids(out[m]) = IF m = to THEN Ids(ls[m]) \cup {b} ELSE Ids(ls[m]) \ {b}

\* remove_from_layer on all the layers of a container: the block leaves the
\* layer named (no layer, when it had none) and every other stays.
LEMMA RemoveFromLayerProperties ==
    ASSUME NEW ls, IsLayers(ls), NEW b, NEW l
    PROVE  LeftLayer(ls, RemoveFromLayer(ls, l, b), l, b)
<1>1. \A m \in Layer : /\ RemoveFirst(ls[m], b) \in Seq(Slot)
                       /\ Distinct(RemoveFirst(ls[m], b))
                       /\ Ids(RemoveFirst(ls[m], b)) = Ids(ls[m]) \ {b}
  BY RemoveFirstProperties DEF IsLayers
<1> QED
  BY <1>1 DEF RemoveFromLayer, IsLayers, LeftLayer

\* update_location: wherever the block was filed, it is filed under the new
\* layer afterwards, there once and nowhere else.
LEMMA UpdateLocationProperties ==
    ASSUME NEW ls, IsLayers(ls), NEW b \in Block,
           NEW l \in Layer \cup {NoLayer}, NEW to \in Layer, NEW loc \in Loc,
           IsFiledUnder(ls, b, l)
    PROVE  IsMovedTo(ls, UpdateLocation(ls, l, b, to, loc), b, to)
<1>1. CASE l = to
  <2> DEFINE t == RelocateFirst(ls[to], b, loc)
  <2>1. t \in Seq(Slot) /\ Distinct(t) /\ Ids(t) = Ids(ls[to])
    BY RelocateFirstProperties DEF IsLayers
  <2> HIDE DEF t
  <2>2. UpdateLocation(ls, l, b, to, loc) = [ls EXCEPT ![to] = t]
    BY <1>1 DEF UpdateLocation, t
  <2> QED
    BY <1>1, <2>1, <2>2 DEF IsLayers, IsMovedTo, IsFiledUnder
<1>2. CASE l # to
  <2> DEFINE out == RemoveFromLayer(ls, l, b)
             t == Append(out[to], [id |-> b, loc |-> loc])
  <2>1. LeftLayer(ls, out, l, b)
    BY RemoveFromLayerProperties
  <2> HIDE DEF out
  <2>2. \A m \in Layer : Ids(out[m]) = Ids(ls[m]) \ {b}
    <3> SUFFICES ASSUME NEW m \in Layer PROVE Ids(out[m]) = Ids(ls[m]) \ {b}
      OBVIOUS
    <3>1. m # l => b \notin Ids(ls[m])
      BY DEF IsFiledUnder
    <3> QED
      BY <2>1, <3>1 DEF LeftLayer
  <2>3. t \in Seq(Slot) /\ Distinct(t) /\ Ids(t) = Ids(out[to]) \cup {b}
    BY <2>1, <2>2, PushProperties DEF LeftLayer, IsLayers
  <2> HIDE DEF t
  <2>4. UpdateLocation(ls, l, b, to, loc) = [out EXCEPT ![to] = t]
    BY <1>2 DEF UpdateLocation, t, out
  <2> QED
    BY <2>1, <2>2, <2>3, <2>4 DEF LeftLayer, IsLayers, IsMovedTo
<1> QED
  BY <1>1, <1>2

-----------------------------------------------------------------------------
(* The inductive invariant.                                                *)

IInv == TypeOK /\ LayersConsistent /\ ContainersPresent /\ NothingLeftBehind

LEMMA EmptyLayers ==
    ASSUME NEW l \in Layer
    PROVE  /\ NoSlots \in [Layer -> Seq(Slot)]
           /\ Ids(NoSlots[l]) = {}
           /\ Distinct(NoSlots[l])
<1>1. <<>> \in Seq(Slot) /\ DOMAIN <<>> = {}
  BY EmptySeq, LenProperties
<1> QED
  BY <1>1 DEF NoSlots, Ids, Distinct

\* A parent is a container, and is not below its child.
LEMMA TreeFacts ==
    /\ \A b \in Block : Parent[b] \in Container
    /\ \A b \in Block : Parent[b] \notin Below(b) \cup {b}
    /\ \A b, c \in Block : Parent[c] \in Below(b) \cup {b} => c \in Below(b)
    /\ \A b, c \in Block : c \in Below(b) =>
            Parent[c] \in Below(b) \cup {b} /\ Parent[c] # Top
    /\ \A b \in Block : Below(b) \subseteq Block /\ b \notin Below(b)
<1>1. ASSUME NEW b \in Block
      PROVE  /\ Parent[b] \in Container
             /\ Parent[b] \notin Below(b) \cup {b}
             /\ Below(b) \subseteq Block /\ b \notin Below(b)
  <2>1. CASE Parent[b] = Top
    BY <2>1, ParentAssumption, AncestorsAssumption, DistinctAssumption
       DEF Container, Below
  <2>2. CASE Parent[b] # Top
    BY <2>2, ParentAssumption, AncestorsAssumption DEF Container, Below
  <2> QED
    BY <2>1, <2>2
<1>2. ASSUME NEW b \in Block, NEW c \in Block, Parent[c] \in Below(b) \cup {b}
      PROVE  c \in Below(b)
  <2>1. Parent[c] # Top /\ Parent[c] \in Block
    BY <1>2, DistinctAssumption DEF Below
  <2> QED
    BY <1>2, <2>1, AncestorsAssumption DEF Below
<1>3. ASSUME NEW b \in Block, NEW c \in Block, c \in Below(b)
      PROVE  Parent[c] \in Below(b) \cup {b} /\ Parent[c] # Top
  BY <1>3, ParentAssumption, AncestorsAssumption DEF Below
<1> QED
  BY <1>1, <1>2, <1>3

LEMMA InitIInv == Init => IInv
<1> SUFFICES ASSUME Init PROVE IInv
  OBVIOUS
<1>1. TypeOK
  BY EmptyLayers, EmptySeq DEF Init, TypeOK, NoSlots
<1>2. LayersConsistent
  BY EmptyLayers, DistinctAssumption DEF Init, LayersConsistent
<1>3. ContainersPresent
  BY DistinctAssumption DEF Init, ContainersPresent, Present
<1>4. NothingLeftBehind
  BY DEF Init, NothingLeftBehind, Container
<1> QED
  BY <1>1, <1>2, <1>3, <1>4 DEF IInv

\* What LayersConsistent says of the layers of one container.
LEMMA ContainerLayers ==
    ASSUME IInv, NEW p \in Container
    PROVE  /\ IsLayers(layers[p])
           /\ \A l \in Layer :
                Ids(layers[p][l]) = {c \in Block : Parent[c] = p /\ layer[c] = l}
BY DEF IInv, TypeOK, LayersConsistent, IsLayers

LEMMA UpdateBlockStep ==
    ASSUME IInv, NEW b \in Block, NEW w \in Wire, UpdateBlock(b, w)
    PROVE  IInv'
<1>1. TypeOK'
  BY DEF IInv, TypeOK, UpdateBlock
<1>2. LayersConsistent'
  BY DEF IInv, LayersConsistent, UpdateBlock
<1>3. ContainersPresent'
  BY DistinctAssumption
     DEF IInv, TypeOK, ContainersPresent, Present, UpdateBlock
<1>4. NothingLeftBehind'
  BY DistinctAssumption
     DEF IInv, TypeOK, NothingLeftBehind, Present, UpdateBlock
<1> QED
  BY <1>1, <1>2, <1>3, <1>4 DEF IInv

LEMMA AddBlockStep ==
    ASSUME IInv, NEW b \in Block, NEW w \in Wire, NEW update \in BOOLEAN,
           AddBlock(b, w, update)
    PROVE  IInv'
<1>1. TypeOK'
  <2>1. layers' \in [Container -> [Layer -> Seq(Slot)]]
    BY EmptyLayers, EmptySeq DEF IInv, TypeOK, AddBlock, DropBelow, NoSlots
  <2>2. entry' \in BOOLEAN /\ wire' \in [Block -> Wire \cup {Absent}]
    BY DEF IInv, TypeOK, AddBlock
  <2>3. interior' \in SUBSET Block
    BY DEF IInv, TypeOK, AddBlock
  <2>4. layer' \in [Block -> Layer \cup {NoLayer}]
    BY DEF IInv, TypeOK, AddBlock, DropBelow
  <2> QED
    BY <2>1, <2>2, <2>3, <2>4 DEF TypeOK
<1>2. LayersConsistent'
  <2> SUFFICES ASSUME NEW p \in Container, NEW l \in Layer
               PROVE  /\ Ids(layers'[p][l])
                            = {c \in Block : Parent[c] = p /\ layer'[c] = l}
                      /\ Distinct(layers'[p][l])
    BY DEF LayersConsistent
  <2>1. CASE p \in Below(b) \cup {b}
    <3>1. layers'[p] = NoSlots
      BY <2>1 DEF AddBlock, DropBelow
    <3>2. \A c \in Block : Parent[c] = p => layer'[c] = NoLayer
      BY <2>1, TreeFacts DEF AddBlock, DropBelow
    <3> QED
      BY <3>1, <3>2, EmptyLayers, DistinctAssumption
  <2>2. CASE p \notin Below(b) \cup {b}
    <3>1. layers'[p] = layers[p]
      BY <2>2 DEF AddBlock, DropBelow
    <3>2. \A c \in Block : Parent[c] = p => layer'[c] = layer[c]
      BY <2>2, TreeFacts DEF AddBlock, DropBelow
    <3> QED
      BY <3>1, <3>2 DEF IInv, LayersConsistent
  <2> QED
    BY <2>1, <2>2
<1>3. ContainersPresent'
  <2>1. ASSUME NEW c \in Block PROVE (wire[c] \in MetaWire <=> c \in interior)'
    BY <2>1, DistinctAssumption, TreeFacts DEF IInv, ContainersPresent, AddBlock
  <2>2. ASSUME NEW c \in Block, Present(c)'
        PROVE  entry' /\ Ancestors[c] \subseteq interior'
    <3>1. c \notin Below(b)
      BY <2>2, TreeFacts DEF Present, AddBlock
    <3>2. CASE c = b
      <4>1. Ancestors[b] \subseteq interior
        BY AncestorsAssumption DEF AddBlock, Resolves
      <4>2. Ancestors[b] \cap (Below(b) \cup {b}) = {}
        BY AncestorsAssumption DEF Below
      <4> QED
        BY <3>2, <4>1, <4>2 DEF AddBlock
    <3>3. CASE c # b
      <4>1. Ancestors[c] \subseteq interior
        BY <2>2, <3>1, <3>3 DEF IInv, ContainersPresent, Present, AddBlock
      <4>2. Ancestors[c] \cap (Below(b) \cup {b}) = {}
        BY <3>1, AncestorsAssumption DEF Below
      <4> QED
        BY <4>1, <4>2 DEF AddBlock
    <3> QED
      BY <3>2, <3>3
  <2> QED
    BY <2>1, <2>2 DEF ContainersPresent
<1>4. NothingLeftBehind'
  <2>1. ASSUME NEW c \in Block, ~Present(c)' PROVE layer'[c] = NoLayer
    BY <2>1, DistinctAssumption
       DEF IInv, NothingLeftBehind, Present, AddBlock, DropBelow
  <2>2. ASSUME NEW c \in Block, c \notin interior' PROVE layers'[c] = NoSlots
    BY <2>2 DEF IInv, NothingLeftBehind, AddBlock, DropBelow, Container
  <2> QED
    BY <2>1, <2>2 DEF NothingLeftBehind
<1> QED
  BY <1>1, <1>2, <1>3, <1>4 DEF IInv

LEMMA RemoveBlockStep ==
    ASSUME IInv, NEW b \in Block, RemoveBlock(b)
    PROVE  IInv'
<1> DEFINE pb == Parent[b]
           out == RemoveFromLayer(layers[pb], layer[b], b)
<1>1. pb \in Container /\ pb \notin Below(b) \cup {b}
  BY TreeFacts
<1>2. LeftLayer(layers[pb], out, layer[b], b)
  BY <1>1, ContainerLayers, RemoveFromLayerProperties
<1>3. layers'[pb] = out
  BY <1>1 DEF RemoveBlock
<1> HIDE DEF out
<1>4. TypeOK'
  <2>1. layers' \in [Container -> [Layer -> Seq(Slot)]]
    <3> SUFFICES ASSUME NEW p \in Container
                 PROVE  layers'[p] \in [Layer -> Seq(Slot)]
      BY DEF RemoveBlock
    <3>1. CASE p = pb
      BY <3>1, <1>2, <1>3 DEF LeftLayer, IsLayers
    <3>2. CASE p # pb
      BY <3>2, EmptyLayers, EmptySeq DEF IInv, TypeOK, RemoveBlock, NoSlots
    <3> QED
      BY <3>1, <3>2
  <2>2. entry' \in BOOLEAN /\ wire' \in [Block -> Wire \cup {Absent}]
    BY DEF IInv, TypeOK, RemoveBlock
  <2>3. interior' \in SUBSET Block
    BY DEF IInv, TypeOK, RemoveBlock
  <2>4. layer' \in [Block -> Layer \cup {NoLayer}]
    BY DEF IInv, TypeOK, RemoveBlock
  <2> QED
    BY <2>1, <2>2, <2>3, <2>4 DEF TypeOK
<1>5. LayersConsistent'
  <2> SUFFICES ASSUME NEW p \in Container, NEW l \in Layer
               PROVE  /\ Ids(layers'[p][l])
                            = {c \in Block : Parent[c] = p /\ layer'[c] = l}
                      /\ Distinct(layers'[p][l])
    BY DEF LayersConsistent
  <2>1. CASE p \in Below(b) \cup {b}
    <3>1. layers'[p] = NoSlots
      BY <2>1 DEF RemoveBlock
    <3>2. \A c \in Block : Parent[c] = p => layer'[c] = NoLayer
      BY <2>1, TreeFacts DEF RemoveBlock
    <3> QED
      BY <3>1, <3>2, EmptyLayers, DistinctAssumption
  <2>2. CASE p = pb
    <3>1. \A c \in Block : Parent[c] = p =>
            layer'[c] = IF c = b THEN NoLayer ELSE layer[c]
      BY <2>2, <1>1, TreeFacts DEF RemoveBlock
    <3>2. Ids(layers[p][l]) = {c \in Block : Parent[c] = p /\ layer[c] = l}
      BY ContainerLayers
    <3>3. \A c : c \in Ids(out[l]) <=> c \in Ids(layers[p][l]) /\ c # b
      <4>1. CASE l = layer[b]
        BY <4>1, <2>2, <1>2 DEF LeftLayer
      <4>2. CASE l # layer[b]
        <5>1. Ids(out[l]) = Ids(layers[p][l])
          BY <4>2, <2>2, <1>2 DEF LeftLayer
        <5>2. b \notin Ids(layers[p][l])
          BY <4>2, <3>2
        <5> QED
          BY <5>1, <5>2
      <4> QED
        BY <4>1, <4>2
    <3>4. Ids(out[l]) = {c \in Block : Parent[c] = p /\ layer'[c] = l}
      BY <3>1, <3>2, <3>3, DistinctAssumption
    <3> QED
      BY <3>4, <2>2, <1>2, <1>3 DEF LeftLayer, IsLayers
  <2>3. CASE p \notin Below(b) \cup {b} /\ p # pb
    <3>1. layers'[p] = layers[p]
      BY <2>3 DEF RemoveBlock
    <3>2. \A c \in Block : Parent[c] = p => layer'[c] = layer[c]
      BY <2>3, TreeFacts DEF RemoveBlock
    <3> QED
      BY <3>1, <3>2 DEF IInv, LayersConsistent
  <2> QED
    BY <2>1, <2>2, <2>3
<1>6. ContainersPresent'
  <2>1. ASSUME NEW c \in Block PROVE (wire[c] \in MetaWire <=> c \in interior)'
    BY <2>1, DistinctAssumption, TreeFacts
       DEF IInv, ContainersPresent, RemoveBlock
  <2>2. ASSUME NEW c \in Block, Present(c)'
        PROVE  entry' /\ Ancestors[c] \subseteq interior'
    <3>1. c \notin Below(b) \cup {b}
      BY <2>2 DEF Present, RemoveBlock
    <3>2. Ancestors[c] \subseteq interior
      BY <2>2, <3>1 DEF IInv, ContainersPresent, Present, RemoveBlock
    <3>3. Ancestors[c] \cap (Below(b) \cup {b}) = {}
      BY <3>1, AncestorsAssumption DEF Below
    <3> QED
      BY <3>2, <3>3 DEF RemoveBlock
  <2> QED
    BY <2>1, <2>2 DEF ContainersPresent
<1>7. NothingLeftBehind'
  <2>1. ASSUME NEW c \in Block, ~Present(c)' PROVE layer'[c] = NoLayer
    BY <2>1, DistinctAssumption
       DEF IInv, NothingLeftBehind, Present, RemoveBlock
  <2>2. ASSUME NEW c \in Block, c \notin interior' PROVE layers'[c] = NoSlots
    <3>1. CASE c \in Below(b) \cup {b}
      BY <3>1 DEF RemoveBlock, Container
    <3>2. CASE c \notin Below(b) \cup {b}
      <4>1. c \notin interior /\ layers[c] = NoSlots
        BY <2>2, <3>2 DEF IInv, NothingLeftBehind, RemoveBlock
      <4>2. c # pb
        <5> SUFFICES ASSUME pb = c PROVE FALSE
          OBVIOUS
        <5>1. c \in Ancestors[b]
          BY AncestorsAssumption, DistinctAssumption
        <5> QED
          BY <5>1, <4>1 DEF IInv, ContainersPresent, RemoveBlock
      <4> QED
        BY <3>2, <4>1, <4>2 DEF RemoveBlock, Container
    <3> QED
      BY <3>1, <3>2
  <2> QED
    BY <2>1, <2>2 DEF NothingLeftBehind
<1> QED
  BY <1>4, <1>5, <1>6, <1>7 DEF IInv

LEMMA MoveBlockStep ==
    ASSUME IInv, NEW b \in Block, NEW to \in Layer, NEW loc \in Loc,
           MoveBlock(b, to, loc)
    PROVE  IInv'
<1> DEFINE pb == Parent[b]
           out == UpdateLocation(layers[pb], layer[b], b, to, loc)
<1>1. pb \in Container
  BY TreeFacts
<1>2. IsFiledUnder(layers[pb], b, layer[b])
  BY <1>1, ContainerLayers DEF IsFiledUnder
<1>3. IsMovedTo(layers[pb], out, b, to)
  <2>1. IsLayers(layers[pb]) /\ layer[b] \in Layer \cup {NoLayer}
    BY <1>1, ContainerLayers DEF IInv, TypeOK
  <2> QED
    BY <1>2, <2>1, UpdateLocationProperties
<1>4. layers' = [layers EXCEPT ![pb] = out]
  BY DEF MoveBlock
<1> HIDE DEF out
<1>5. TypeOK'
  BY <1>1, <1>3, <1>4 DEF IInv, TypeOK, MoveBlock, IsMovedTo, IsLayers
<1>6. LayersConsistent'
  <2> SUFFICES ASSUME NEW p \in Container, NEW l \in Layer
               PROVE  /\ Ids(layers'[p][l])
                            = {c \in Block : Parent[c] = p /\ layer'[c] = l}
                      /\ Distinct(layers'[p][l])
    BY DEF LayersConsistent
  <2>1. Ids(layers[p][l]) = {c \in Block : Parent[c] = p /\ layer[c] = l}
    BY ContainerLayers
  <2>2. \A c \in Block : layer'[c] = IF c = b THEN to ELSE layer[c]
    BY DEF IInv, TypeOK, MoveBlock
  <2>3. CASE p = pb
    <3>1. layers'[p] = out
      BY <1>1, <1>4, <2>3 DEF IInv, TypeOK
    <3>2. Distinct(out[l])
      BY <1>3 DEF IsMovedTo, IsLayers
    <3>3. \A c : c \in Ids(out[l]) <=>
            IF c = b THEN l = to ELSE c \in Ids(layers[p][l])
      <4>1. CASE l = to
        BY <4>1, <2>3, <1>3 DEF IsMovedTo
      <4>2. CASE l # to
        BY <4>2, <2>3, <1>3 DEF IsMovedTo
      <4> QED
        BY <4>1, <4>2
    <3>4. Ids(out[l]) = {c \in Block : Parent[c] = p /\ layer'[c] = l}
      BY <2>1, <2>2, <2>3, <3>3
    <3> QED
      BY <3>1, <3>2, <3>4
  <2>4. CASE p # pb
    <3>1. layers'[p] = layers[p]
      BY <1>4, <2>4 DEF IInv, TypeOK
    <3>2. \A c \in Block : Parent[c] = p => layer'[c] = layer[c]
      BY <2>2, <2>4
    <3> QED
      BY <3>1, <3>2 DEF IInv, LayersConsistent
  <2> QED
    BY <2>3, <2>4
<1>7. ContainersPresent'
  BY DEF IInv, ContainersPresent, Present, MoveBlock
<1>8. NothingLeftBehind'
  <2>1. ASSUME NEW c \in Block, ~Present(c)' PROVE layer'[c] = NoLayer
    BY <2>1 DEF IInv, TypeOK, NothingLeftBehind, Present, MoveBlock
  <2>2. ASSUME NEW c \in Block, c \notin interior' PROVE layers'[c] = NoSlots
    <3>1. c \notin interior /\ layers[c] = NoSlots
      BY <2>2 DEF IInv, NothingLeftBehind, MoveBlock
    <3>2. pb = c => c \in Ancestors[b]
      BY AncestorsAssumption, DistinctAssumption
    <3>3. Ancestors[b] \subseteq interior
      BY DEF IInv, ContainersPresent, MoveBlock
    <3> QED
      BY <1>4, <3>1, <3>2, <3>3 DEF IInv, TypeOK, Container
  <2> QED
    BY <2>1, <2>2 DEF NothingLeftBehind
<1> QED
  BY <1>5, <1>6, <1>7, <1>8 DEF IInv

LEMMA NothingToDoStep ==
    ASSUME IInv, NEW b \in Block, NothingToDo(b)
    PROVE  IInv'
<1>1. TypeOK'
  BY DEF IInv, TypeOK, NothingToDo
<1>2. LayersConsistent' /\ NothingLeftBehind'
  BY DEF IInv, LayersConsistent, NothingLeftBehind, Present, NothingToDo
<1>3. ContainersPresent'
  BY DEF IInv, ContainersPresent, Present, NothingToDo
<1> QED
  BY <1>1, <1>2, <1>3 DEF IInv

LEMMA ResetStep == Reset => IInv'
<1> SUFFICES ASSUME Reset PROVE IInv'
  OBVIOUS
<1>1. TypeOK'
  BY EmptyLayers, EmptySeq DEF Reset, TypeOK, NoSlots
<1>2. LayersConsistent'
  BY EmptyLayers, DistinctAssumption DEF Reset, LayersConsistent
<1>3. ContainersPresent'
  BY DistinctAssumption DEF Reset, ContainersPresent, Present
<1>4. NothingLeftBehind'
  BY DEF Reset, NothingLeftBehind, Container
<1> QED
  BY <1>1, <1>2, <1>3, <1>4 DEF IInv

LEMMA StutterStep == IInv /\ UNCHANGED vars => IInv'
BY DEF IInv, TypeOK, LayersConsistent, ContainersPresent, NothingLeftBehind,
       Present, vars

LEMMA NextIInv == IInv /\ [Next]_vars => IInv'
<1> SUFFICES ASSUME IInv, [Next]_vars PROVE IInv'
  OBVIOUS
<1>1. ASSUME NEW b \in Block, NEW w \in Wire, UpdateBlock(b, w) PROVE IInv'
  BY <1>1, UpdateBlockStep
<1>2. ASSUME NEW b \in Block, NEW w \in Wire, NEW update \in BOOLEAN,
             AddBlock(b, w, update)
      PROVE  IInv'
  BY <1>2, AddBlockStep
<1>3. ASSUME NEW b \in Block, RemoveBlock(b) PROVE IInv'
  BY <1>3, RemoveBlockStep
<1>4. ASSUME NEW b \in Block, NEW to \in Layer, NEW loc \in Loc,
             MoveBlock(b, to, loc)
      PROVE  IInv'
  BY <1>4, MoveBlockStep
<1>5. ASSUME NEW b \in Block, NothingToDo(b) PROVE IInv'
  BY <1>5, NothingToDoStep
<1>6. CASE (\E b \in Block : DropChange(b)) \/ UNCHANGED vars
  BY <1>6, StutterStep DEF DropChange
<1>7. CASE Reset
  BY <1>7, ResetStep
<1> QED
  BY <1>1, <1>2, <1>3, <1>4, <1>5, <1>6, <1>7 DEF Next

\* The four parts of the invariant are inductive only together: that a layer
\* names the right blocks needs the marks of absent blocks to be clear, and
\* that needs the subtree of a block to go with it.
THEOREM Inductive == Spec => []IInv
<1>1. Init => IInv
  BY InitIInv
<1>2. IInv /\ [Next]_vars => IInv'
  BY NextIInv
<1> QED
  BY <1>1, <1>2, PTL DEF Spec

\* Every state the manager reaches has the declared shape; in particular a
\* layer vector never gets a gap from swap_remove.
THEOREM TypeCorrect == Spec => []TypeOK
BY Inductive, PTL DEF IInv

\* For any tree of blocks and any layers: no sequence of changes makes the
\* layer vectors and the marks of the blocks disagree, so the assertion
\* against duplicates in process_block_recursively cannot fail.
THEOREM LayersStayConsistent == Spec => []LayersConsistent
BY Inductive, PTL DEF IInv

\* For any tree of blocks: the expect in process_block_recursively cannot
\* fail, and no block is left without the path that leads to it.
THEOREM ContainersStayPresent == Spec => []ContainersPresent
BY Inductive, PTL DEF IInv

\* For any tree of blocks: a block that goes takes its marks and the layers
\* of what it contained with it.
THEOREM NothingStaysBehind == Spec => []NothingLeftBehind
BY Inductive, PTL DEF IInv
-----------------------------------------------------------------------------
(***************************************************************************)
(* The proof that BlockManager implements BlockTree: under the mapping in  *)
(* BlockManager, every handler is one step of the tree or changes nothing  *)
(* of it.  The invariant above carries the argument; what is new here are  *)
(* the locations, which it says nothing of.                                *)
(***************************************************************************)

\* The location a layer vector gives a block.
LocIn(s, b) == s[FirstOccurrence(s, b)].loc

LEMMA LocInProperties ==
    ASSUME NEW s \in Seq(Slot), Distinct(s), NEW i \in DOMAIN s
    PROVE  LocIn(s, s[i].id) = s[i].loc
<1>1. Occurrences(s, s[i].id) # {}
  BY DEF Occurrences
<1>2. i = FirstOccurrence(s, s[i].id)
  BY <1>1, FirstOccurrenceProperties
<1> QED
  BY <1>2 DEF LocIn

\* swap_remove moves an entry, but takes its location along.
LEMMA RemoveFirstLoc ==
    ASSUME NEW s \in Seq(Slot), NEW b, Distinct(s),
           NEW c \in Ids(RemoveFirst(s, b))
    PROVE  LocIn(RemoveFirst(s, b), c) = LocIn(s, c)
<1>1. CASE Occurrences(s, b) = {}
  BY <1>1 DEF RemoveFirst
<1>2. CASE Occurrences(s, b) # {}
  <2> DEFINE k == FirstOccurrence(s, b)
             t == RemoveFirst(s, b)
             n == Len(s)
  <2>1. k \in 1 .. n /\ DOMAIN s = 1 .. n /\ n \in Nat
    BY <1>2, FirstOccurrenceProperties, LenProperties
  <2>2. /\ DOMAIN t = 1 .. n - 1
        /\ \A j \in 1 .. n - 1 : t[j] = IF j = k THEN s[n] ELSE s[j]
    BY <1>2, <2>1, SwapRemoveProperties DEF RemoveFirst
  <2>3. t \in Seq(Slot) /\ Distinct(t)
    BY RemoveFirstProperties
  <2>4. PICK i \in DOMAIN t : t[i].id = c
    BY DEF Ids
  <2> HIDE DEF t, k, n
  <2>5. LocIn(t, c) = t[i].loc
    BY <2>3, <2>4, LocInProperties
  <2>6. PICK j \in DOMAIN s : s[j] = t[i]
    BY <2>1, <2>2, <2>4
  <2>7. LocIn(s, c) = s[j].loc
    BY <2>4, <2>6, LocInProperties
  <2> QED
    BY <2>5, <2>6, <2>7 DEF t
<1> QED
  BY <1>1, <1>2

LEMMA RelocateFirstLoc ==
    ASSUME NEW s \in Seq(Slot), NEW b \in Block, NEW loc \in Loc, Distinct(s),
           b \in Ids(s), NEW c \in Ids(s)
    PROVE  LocIn(RelocateFirst(s, b, loc), c) = IF c = b THEN loc ELSE LocIn(s, c)
<1> DEFINE k == FirstOccurrence(s, b)
           e == [id |-> b, loc |-> loc]
           t == RelocateFirst(s, b, loc)
<1>1. Occurrences(s, b) # {}
  BY DEF Ids, Occurrences
<1>2. k \in 1 .. Len(s) /\ s[k].id = b
  BY <1>1, FirstOccurrenceProperties
<1>3. DOMAIN s = 1 .. Len(s)
  BY LenProperties
<1>4. t = [s EXCEPT ![k] = e]
  BY <1>1 DEF RelocateFirst
<1>5. t \in Seq(Slot) /\ Distinct(t)
  BY RelocateFirstProperties
<1>6. PICK i \in DOMAIN s : s[i].id = c
  BY DEF Ids
<1> HIDE DEF t, k
<1>7. /\ DOMAIN t = DOMAIN s
      /\ t[i] = IF i = k THEN e ELSE s[i]
      /\ t[i].id = c
  BY <1>2, <1>3, <1>4, <1>6
<1>8. i = k <=> c = b
  BY <1>2, <1>3, <1>6 DEF Distinct
<1>9. LocIn(t, c) = t[i].loc /\ LocIn(s, c) = s[i].loc
  BY <1>5, <1>6, <1>7, LocInProperties
<1> QED
  BY <1>7, <1>8, <1>9 DEF t

LEMMA PushLoc ==
    ASSUME NEW s \in Seq(Slot), NEW b \in Block, NEW loc \in Loc, Distinct(s),
           b \notin Ids(s), NEW c \in Ids(s) \cup {b}
    PROVE  LocIn(Append(s, [id |-> b, loc |-> loc]), c)
              = IF c = b THEN loc ELSE LocIn(s, c)
<1> DEFINE e == [id |-> b, loc |-> loc]
           t == Append(s, e)
           n == Len(s)
<1>1. e \in Slot /\ e.id = b /\ e.loc = loc
  BY DEF Slot
<1>2. t \in Seq(Slot) /\ Distinct(t)
  BY PushProperties
<1> HIDE DEF e
<1>3. DOMAIN s = 1 .. n /\ n \in Nat
  BY LenProperties
<1>4. DOMAIN t = 1 .. n + 1 /\ t[n + 1] = e /\ \A j \in 1 .. n : t[j] = s[j]
  BY <1>1, <1>3, AppendProperties, LenProperties
<1> HIDE DEF t, n
<1>5. CASE c = b
  <2>1. LocIn(t, c) = t[n + 1].loc
    BY <1>1, <1>2, <1>3, <1>4, <1>5, LocInProperties
  <2> QED
    BY <1>1, <1>4, <1>5, <2>1 DEF t, e
<1>6. CASE c # b
  <2>1. PICK i \in DOMAIN s : s[i].id = c
    BY <1>6 DEF Ids
  <2>2. i \in DOMAIN t /\ t[i] = s[i]
    BY <1>3, <1>4, <2>1
  <2>3. LocIn(t, c) = s[i].loc /\ LocIn(s, c) = s[i].loc
    BY <1>2, <2>1, <2>2, LocInProperties
  <2> QED
    BY <1>6, <2>3 DEF t, e
<1> QED
  BY <1>5, <1>6

LEMMA RemoveFromLayerLoc ==
    ASSUME NEW ls, IsLayers(ls), NEW b, NEW l, NEW m \in Layer,
           NEW c \in Ids(RemoveFromLayer(ls, l, b)[m])
    PROVE  LocIn(RemoveFromLayer(ls, l, b)[m], c) = LocIn(ls[m], c)
<1>1. CASE m = l
  BY <1>1, RemoveFirstLoc DEF RemoveFromLayer, IsLayers
<1>2. CASE m # l
  BY <1>2 DEF RemoveFromLayer
<1> QED
  BY <1>1, <1>2

\* b is at loc in out, and every other block where it was in ls.
RelocatesOnly(ls, out, b, loc) ==
    \A m \in Layer : \A c \in Ids(out[m]) :
        LocIn(out[m], c) = IF c = b THEN loc ELSE LocIn(ls[m], c)

\* update_location gives b its location, and every other block keeps its own.
LEMMA UpdateLocationLoc ==
    ASSUME NEW ls, IsLayers(ls), NEW b \in Block,
           NEW l \in Layer \cup {NoLayer}, NEW to \in Layer, NEW loc \in Loc,
           IsFiledUnder(ls, b, l)
    PROVE  RelocatesOnly(ls, UpdateLocation(ls, l, b, to, loc), b, loc)
<1> DEFINE ul == UpdateLocation(ls, l, b, to, loc)
<1> SUFFICES ASSUME NEW m \in Layer, NEW c \in Ids(ul[m])
             PROVE  LocIn(ul[m], c) = IF c = b THEN loc ELSE LocIn(ls[m], c)
  BY DEF RelocatesOnly
<1>1. IsMovedTo(ls, ul, b, to)
  BY UpdateLocationProperties
<1>2. c = b => m = to
  BY <1>1 DEF IsMovedTo
<1>3. CASE l = to
  <2>1. ul = [ls EXCEPT ![to] = RelocateFirst(ls[to], b, loc)]
    BY <1>3 DEF UpdateLocation
  <2>2. CASE m = to
    <3>1. ul[m] = RelocateFirst(ls[m], b, loc)
      BY <2>1, <2>2 DEF IsLayers
    <3>2. ls[m] \in Seq(Slot) /\ Distinct(ls[m]) /\ b \in Ids(ls[m])
      BY <1>3, <2>2 DEF IsLayers, IsFiledUnder
    <3>3. Ids(ul[m]) = Ids(ls[m])
      BY <3>1, <3>2, RelocateFirstProperties
    <3> QED
      BY <3>1, <3>2, <3>3, RelocateFirstLoc
  <2>3. CASE m # to
    BY <1>2, <2>1, <2>3 DEF IsLayers
  <2> QED
    BY <2>2, <2>3
<1>4. CASE l # to
  <2> DEFINE out == RemoveFromLayer(ls, l, b)
  <2>1. ul = [out EXCEPT ![to] = Append(out[to], [id |-> b, loc |-> loc])]
    BY <1>4 DEF UpdateLocation
  <2>2. LeftLayer(ls, out, l, b)
    BY RemoveFromLayerProperties
  <2>3. \A d \in Ids(out[m]) : LocIn(out[m], d) = LocIn(ls[m], d)
    BY RemoveFromLayerLoc
  <2> HIDE DEF out
  <2>4. out \in [Layer -> Seq(Slot)] /\ Distinct(out[m])
    BY <2>2 DEF LeftLayer, IsLayers
  <2>5. CASE m = to
    <3>1. ul[m] = Append(out[m], [id |-> b, loc |-> loc])
      BY <2>1, <2>4, <2>5
    <3>2. b \notin Ids(out[m])
      <4>1. m # l /\ b \notin Ids(ls[m])
        BY <1>4, <2>5 DEF IsFiledUnder
      <4> QED
        BY <4>1, <2>2 DEF LeftLayer
    <3>3. out[m] \in Seq(Slot)
      BY <2>4
    <3>4. Ids(ul[m]) = Ids(out[m]) \cup {b}
      BY <3>1, <3>2, <3>3, <2>4, PushProperties
    <3>5. LocIn(ul[m], c) = IF c = b THEN loc ELSE LocIn(out[m], c)
      BY <3>1, <3>2, <3>3, <3>4, <2>4, PushLoc
    <3> QED
      BY <3>4, <3>5, <2>3
  <2>6. CASE m # to
    BY <1>2, <2>1, <2>3, <2>4, <2>6
  <2> QED
    BY <2>5, <2>6
<1> QED
  BY <1>3, <1>4

-----------------------------------------------------------------------------
(* The steps.                                                              *)

\* A filed block's place, in terms of LocIn.
LEMMA PlaceOfFiled ==
    ASSUME NEW b, layer[b] # NoLayer
    PROVE  PlaceOf(b) = <<layer[b], LocIn(layers[Parent[b]][layer[b]], b)>>
BY DEF PlaceOf, LocIn

\* The place of a block depends on its mark and on its parent's layers only.
LEMMA PlaceKept ==
    ASSUME NEW b, layer'[b] = layer[b], layers'[Parent[b]] = layers[Parent[b]]
    PROVE  PlaceOf(b)' = PlaceOf(b)
BY DEF PlaceOf, FirstOccurrence, Occurrences

LEMMA PlaceLost ==
    ASSUME NEW b, layer'[b] = NoLayer
    PROVE  PlaceOf(b)' = NoLayer
BY DEF PlaceOf

LEMMA TreeInit == Init => Tree!Init
BY DEF Init, Tree!Init, PlaceOf

\* A message that finds its parent is addressable in the tree.
LEMMA ResolvesAddressable ==
    ASSUME IInv, NEW b \in Block, Resolves(b)
    PROVE  Tree!Addressable(b)
BY AncestorsAssumption
   DEF IInv, ContainersPresent, Resolves, Tree!Addressable

LEMMA UpdateBlockChanges ==
    ASSUME NEW b \in Block, NEW w \in Wire, UpdateBlock(b, w)
    PROVE  Tree!Change(b, w)
<1>1. \A c \in Block : PlaceOf(c)' = PlaceOf(c)
  BY PlaceKept DEF UpdateBlock
<1> QED
  BY <1>1 DEF UpdateBlock, Present, Tree!Change, Tree!Present

LEMMA AddBlockPuts ==
    ASSUME IInv, NEW b \in Block, NEW w \in Wire, NEW update \in BOOLEAN,
           AddBlock(b, w, update)
    PROVE  Tree!Put(b, w)
<1>1. Tree!Addressable(b)
  BY ResolvesAddressable DEF AddBlock
<1>2. ASSUME NEW c \in Block
      PROVE  PlaceOf(c)' = IF c \in Below(b) THEN NoLayer ELSE PlaceOf(c)
  <2>1. CASE c \in Below(b)
    <3>1. layer'[c] = NoLayer
      BY <2>1 DEF AddBlock, DropBelow
    <3> QED
      BY <2>1, <3>1, PlaceLost
  <2>2. CASE c \notin Below(b)
    <3>1. layer'[c] = layer[c]
      BY <2>2 DEF AddBlock, DropBelow
    <3>2. layers'[Parent[c]] = layers[Parent[c]]
      BY <2>2, TreeFacts DEF AddBlock, DropBelow
    <3> QED
      BY <2>2, <3>1, <3>2, PlaceKept
  <2> QED
    BY <2>1, <2>2
<1> QED
  BY <1>1, <1>2 DEF AddBlock, Below, Tree!Put, Tree!Below

LEMMA RemoveBlockRemoves ==
    ASSUME IInv, NEW b \in Block, RemoveBlock(b)
    PROVE  Tree!Remove(b)
<1> DEFINE pb == Parent[b]
           out == RemoveFromLayer(layers[pb], layer[b], b)
<1>1. pb \in Container /\ pb \notin Below(b) \cup {b}
  BY TreeFacts
<1>2. layers'[pb] = out /\ IsLayers(layers[pb])
  BY <1>1, ContainerLayers DEF RemoveBlock
<1>3. ASSUME NEW c \in Block
      PROVE  PlaceOf(c)' = IF c \in Below(b) \cup {b} THEN NoLayer
                           ELSE PlaceOf(c)
  <2>1. CASE c \in Below(b) \cup {b}
    <3>1. layer'[c] = NoLayer
      BY <2>1 DEF RemoveBlock
    <3> QED
      BY <2>1, <3>1, PlaceLost
  <2>2. CASE c \notin Below(b) \cup {b}
    <3>1. layer'[c] = layer[c]
      BY <2>2 DEF RemoveBlock
    <3>2. CASE layer[c] = NoLayer
      BY <2>2, <3>1, <3>2, PlaceLost DEF PlaceOf
    <3>3. CASE Parent[c] # pb
      <4>1. layers'[Parent[c]] = layers[Parent[c]]
        BY <2>2, <3>3, TreeFacts DEF RemoveBlock
      <4> QED
        BY <2>2, <3>1, <4>1, PlaceKept
    <3>4. CASE layer[c] # NoLayer /\ Parent[c] = pb
      <4>1. layer[c] \in Layer
        BY <3>4 DEF IInv, TypeOK
      <4>2. c \in Ids(layers'[pb][layer[c]])
        <5>1. IInv'
          BY RemoveBlockStep
        <5>2. LayersConsistent'
          BY <5>1 DEF IInv
        <5> QED
          BY <1>1, <3>1, <3>4, <4>1, <5>2 DEF LayersConsistent
      <4>3. LocIn(layers'[pb][layer[c]], c) = LocIn(layers[pb][layer[c]], c)
        BY <1>2, <4>1, <4>2, RemoveFromLayerLoc
      <4>4. PlaceOf(c) = <<layer[c], LocIn(layers[pb][layer[c]], c)>>
        BY <3>4, PlaceOfFiled, SMTT(40)
      <4>5. PlaceOf(c)' = <<layer[c], LocIn(layers'[pb][layer[c]], c)>>
        BY <3>1, <3>4 DEF PlaceOf, LocIn, FirstOccurrence, Occurrences
      <4> QED
        BY <2>2, <4>3, <4>4, <4>5
    <3> QED
      BY <3>2, <3>3, <3>4
  <2> QED
    BY <2>1, <2>2
<1> QED
  BY <1>3 DEF RemoveBlock, Below, Present, Tree!Remove, Tree!Below, Tree!Present

LEMMA MoveBlockMoves ==
    ASSUME IInv, NEW b \in Block, NEW to \in Layer, NEW loc \in Loc,
           MoveBlock(b, to, loc)
    PROVE  Tree!Move(b, <<to, loc>>)
<1> DEFINE pb == Parent[b]
           out == UpdateLocation(layers[pb], layer[b], b, to, loc)
<1>1. pb \in Container
  BY TreeFacts
<1>2. IsFiledUnder(layers[pb], b, layer[b])
  BY <1>1, ContainerLayers DEF IsFiledUnder
<1>3. IsLayers(layers[pb]) /\ layer[b] \in Layer \cup {NoLayer}
  BY <1>1, ContainerLayers DEF IInv, TypeOK
<1>4. layers'[pb] = out
  BY <1>1 DEF IInv, TypeOK, MoveBlock
<1>5. \A c \in Block : layer'[c] = IF c = b THEN to ELSE layer[c]
  BY DEF IInv, TypeOK, MoveBlock
<1>6. RelocatesOnly(layers[pb], out, b, loc)
  BY <1>2, <1>3, UpdateLocationLoc
<1> HIDE DEF out
<1>7. ASSUME NEW c \in Block
      PROVE  PlaceOf(c)' = IF c = b THEN <<to, loc>> ELSE PlaceOf(c)
  <2>1. CASE layer'[c] = NoLayer
    BY <2>1, <1>5, PlaceLost, DistinctAssumption DEF PlaceOf
  <2>2. CASE Parent[c] # pb
    <3>1. layers'[Parent[c]] = layers[Parent[c]]
      BY <2>2, TreeFacts DEF IInv, TypeOK, MoveBlock
    <3> QED
      BY <2>2, <3>1, <1>5, PlaceKept
  <2>3. CASE layer'[c] # NoLayer /\ Parent[c] = pb
    <3>1. layer'[c] \in Layer
      BY <2>3, <1>5 DEF IInv, TypeOK
    <3>2. c \in Ids(out[layer'[c]])
      <4>1. IInv'
        BY MoveBlockStep
      <4>2. LayersConsistent'
        BY <4>1 DEF IInv
      <4> QED
        BY <1>1, <1>4, <2>3, <3>1, <4>2 DEF LayersConsistent
    <3>3. LocIn(out[layer'[c]], c)
             = IF c = b THEN loc ELSE LocIn(layers[pb][layer'[c]], c)
      BY <1>6, <3>1, <3>2, SMTT(40) DEF RelocatesOnly
    <3>4. PlaceOf(c)' = <<layer'[c], LocIn(layers'[pb][layer'[c]], c)>>
      BY <2>3 DEF PlaceOf, LocIn, FirstOccurrence, Occurrences
    <3>5. c # b => PlaceOf(c) = <<layer[c], LocIn(layers[pb][layer[c]], c)>>
      BY <1>5, <2>3, PlaceOfFiled
    <3> QED
      BY <1>4, <1>5, <3>3, <3>4, <3>5
  <2> QED
    BY <2>1, <2>2, <2>3
<1> QED
  BY <1>7 DEF MoveBlock, Present, Tree!Move, Tree!Present

LEMMA ResetClears == Reset => Tree!Clear
BY DEF Reset, Tree!Clear, PlaceOf

LEMMA SamePlaces == UNCHANGED <<wire, layer, layers>> => UNCHANGED Tree!vars
<1> SUFFICES ASSUME UNCHANGED <<wire, layer, layers>> PROVE UNCHANGED Tree!vars
  OBVIOUS
<1>1. \A c \in Block : PlaceOf(c)' = PlaceOf(c)
  BY PlaceKept
<1> QED
  BY <1>1 DEF Tree!vars

LEMMA StepsOfTheTree == IInv /\ [Next]_vars => [Tree!Next]_(Tree!vars)
<1> SUFFICES ASSUME IInv, [Next]_vars PROVE [Tree!Next]_(Tree!vars)
  OBVIOUS
<1>1. ASSUME NEW b \in Block, NEW w \in Wire, UpdateBlock(b, w)
      PROVE  Tree!Next
  BY <1>1, UpdateBlockChanges DEF Tree!Next
<1>2. ASSUME NEW b \in Block, NEW w \in Wire, NEW update \in BOOLEAN,
             AddBlock(b, w, update)
      PROVE  Tree!Next
  BY <1>2, AddBlockPuts DEF Tree!Next
<1>3. ASSUME NEW b \in Block, RemoveBlock(b) PROVE Tree!Next
  BY <1>3, RemoveBlockRemoves DEF Tree!Next
<1>4. ASSUME NEW b \in Block, NEW to \in Layer, NEW loc \in Loc,
             MoveBlock(b, to, loc)
      PROVE  Tree!Next
  BY <1>4, MoveBlockMoves DEF Tree!Next
<1>5. ASSUME NEW b \in Block, NothingToDo(b) PROVE UNCHANGED Tree!vars
  BY <1>5, SamePlaces DEF NothingToDo
<1>6. ASSUME (\E b \in Block : DropChange(b)) \/ UNCHANGED vars
      PROVE  UNCHANGED Tree!vars
  BY <1>6, SamePlaces DEF DropChange, vars
<1>7. CASE Reset
  BY <1>7, ResetClears DEF Tree!Next
<1> QED
  BY <1>1, <1>2, <1>3, <1>4, <1>5, <1>6, <1>7 DEF Next

\* For any tree of blocks, layers and locations, whatever changes arrive in
\* whatever order: the hash maps and layer vectors of the manager behave as
\* the one tree of placed blocks that the server has in mind.
THEOREM ManagerImplementsTree == Spec => ImplementsTree
<1>1. Init => Tree!Init
  BY TreeInit
<1>2. IInv /\ [Next]_vars => [Tree!Next]_(Tree!vars)
  BY StepsOfTheTree
<1>3. Spec => []IInv
  BY Inductive
<1> QED
  BY <1>1, <1>2, <1>3, PTL DEF Spec, ImplementsTree, Tree!Spec

\* For the same instances: every handler makes exactly the change of the tree
\* that its message names.
THEOREM HandlersDoWhatTheySay == Spec => DoesWhatItSays
<1> DEFINE Says ==
        \A b \in Block :
            /\ \A w \in Wire :
                /\ UpdateBlock(b, w) => Tree!Change(b, w)
                /\ \A update \in BOOLEAN : AddBlock(b, w, update) => Tree!Put(b, w)
            /\ RemoveBlock(b) => Tree!Remove(b)
            /\ \A to \in Layer, loc \in Loc :
                MoveBlock(b, to, loc) => Tree!Move(b, <<to, loc>>)
<1>1. IInv => Says
  BY UpdateBlockChanges, AddBlockPuts, RemoveBlockRemoves, MoveBlockMoves
<1>2. Spec => []IInv
  BY Inductive
<1> HIDE DEF Says
<1>3. Spec => [][Says]_vars
  BY <1>1, <1>2, PTL
<1> QED
  BY <1>3 DEF Says, DoesWhatItSays
==============================================================================
