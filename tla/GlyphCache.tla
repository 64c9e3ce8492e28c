----------------------------- MODULE GlyphCache -----------------------------
(***************************************************************************)
(* The cache of glyphs in a texture: one font cache (fontcache.rs) with    *)
(* its atlas (texture_atlases.rs), and the text blocks that keep the       *)
(* vertices of their runs (block_renderer.rs of helicoid-gpurender).  The  *)
(* application gives a font cache one atlas; it is square.  The loops of   *)
(* update_cache and evict_outdated take one step for a glyph, and nothing  *)
(* else runs meanwhile.                                                    *)
(***************************************************************************)
EXTENDS TextureMap, FiniteSets

CONSTANTS
    Glyphs,        \* keys of the cache: a glyph at a size
    Extent,        \* [w, h] of every glyph
    Blocks,        \* text blocks
    Texts,         \* what a run of a block may say: sequences of glyphs
    Side,          \* the atlas has Side * Side pixels
    Padding,       \* around a tile, and bytes per pixel
    EvictPercent,  \* how much is evicted (8)
    MaxGeneration  \* bound: updates of the cache

ASSUME GlyphsAssumption ==
    /\ IsFiniteSet(Glyphs)
    /\ Extent \in [Glyphs -> [w : Nat, h : Nat]]
    /\ Texts \subseteq Seq(Glyphs)
ASSUME AtlasAssumption == Side \in Nat \ {0} /\ Padding \in Nat \ {0}
ASSUME BoundAssumption == EvictPercent \in Nat /\ MaxGeneration \in Nat

VARIABLES
    packer,      \* TextureAtlas::manager
    contents,    \* TextureAtlases::contents: location and generation by glyph
    generation,  \* current_generation
    phase,       \* where render_run is
    block, spec, \* the block (a set of one) and the text being rendered
    todo,        \* glyphs update_cache has not come to yet
    readd,       \* glyphs evict_outdated has to put back
    lastEviction,\* the generation of the last eviction; the code has a field for it
                 \* that keeps its first value
    runs         \* RenderedRun by block

vars == <<packer, contents, generation, phase, block, spec, todo, readd, lastEviction, runs>>

NoRun == [spec |-> <<>>, generation |-> 0, squares |-> NoTiles]

Elements(s) == {s[i] : i \in DOMAIN s}

TypeOK ==
    /\ packer.rects \in Seq(Rect)
    /\ DOMAIN packer.cached \subseteq Glyphs
    /\ \A g \in DOMAIN packer.cached : packer.cached[g] \in Rect
    /\ DOMAIN contents \subseteq Glyphs
    /\ \A g \in DOMAIN contents :
         contents[g] \in [tile : Rect, generation : 0 .. generation]
    /\ generation \in Nat
    /\ phase \in {"idle", "update", "evict", "panicked"}
    /\ block \subseteq Blocks
    /\ {spec, todo, readd} \subseteq Seq(Glyphs)
    /\ lastEviction \in 0 .. generation
    /\ \A b \in Blocks : runs[b].generation \in 0 .. generation

Init ==
    /\ packer = NewPacker(Side, Side)
    /\ contents = [g \in {} |-> NoRun]
    /\ generation = 0
    /\ phase = "idle" /\ block = {} /\ spec = <<>>
    /\ todo = <<>> /\ readd = <<>> /\ lastEviction = 0
    /\ runs = [b \in Blocks |-> NoRun]

(* apply_padding: the place of the glyph in its tile. *)
Unpadded(t) == At(t.x + Padding, t.y + Padding, t.w - 2 * Padding, t.h - 2 * Padding)

(* insert_single of an atlas: the extent is padded on both sides. *)
Padded(e) == [w |-> e.w + 2 * Padding, h |-> e.h + 2 * Padding]

(* Sorted by insert_order; what is equal stays in the order of a hash map. *)
Orderings(size) ==
    LET S == DOMAIN size IN
    {s \in [1 .. Cardinality(S) -> S] :
        /\ Elements(s) = S
        /\ \A i, j \in DOMAIN s : i < j => s[i] # s[j] /\ GoesBefore(size[s[i]], size[s[j]])}

(***************************************************************************)
(* A text block is drawn.  Its vertices are kept if its text is the same   *)
(* and they are "compatible"; else render_run is called.                   *)
(***************************************************************************)
Compatible(r) == r.generation > 0 /\ r.generation < generation
Reconvert(b, s) == ~(runs[b].spec = s /\ Compatible(runs[b]))

(* fill_render_run: look up one glyph after the other, up to the first     *)
(* that is missing; each that is found is marked as used now.              *)
Found(s) == {s[i] : i \in {n \in DOMAIN s : \A m \in 1 .. n : s[m] \in DOMAIN contents}}
\* Mutant: marked as used by the update to come.
LookUp_Ahead(s) ==
    contents' = [g \in DOMAIN contents |->
                   IF g \in Found(s) THEN [contents[g] EXCEPT !.generation = generation + 1]
                                     ELSE contents[g]]

LookUp(s) ==
    contents' = [g \in DOMAIN contents |->
                   IF g \in Found(s) THEN [contents[g] EXCEPT !.generation = generation]
                                     ELSE contents[g]]
AllFound(s) == Found(s) = Elements(s)

Filled(drawn, s) ==
    LET run == [spec |-> s, generation |-> generation,
                squares |-> [g \in Elements(s) |-> Unpadded(contents[g].tile)]]
    IN runs' = [b \in Blocks |-> IF b \in drawn THEN run ELSE runs[b]]

RenderRun(b, s) ==
    /\ phase = "idle"
    /\ Reconvert(b, s)
    /\ AllFound(s)
    /\ LookUp(s)
    /\ Filled({b}, s)
    /\ UNCHANGED <<packer, generation, phase, block, spec, todo, readd, lastEviction>>

\* Mutant: the generation stays as it is.
StartUpdate_SameGeneration(b, s) ==
    /\ phase = "idle"
    /\ generation < MaxGeneration
    /\ Reconvert(b, s)
    /\ ~AllFound(s)
    /\ LookUp(s)
    /\ runs' = [runs EXCEPT ![b] = NoRun]
    /\ phase' = "update" /\ block' = {b} /\ spec' = s
    /\ generation' = generation
    /\ todo' \in Orderings([g \in Elements(s) |-> Extent[g]])
    /\ UNCHANGED <<packer, readd, lastEviction>>

(* The block has no run any more, and update_cache starts. *)
StartUpdate(b, s) ==
    /\ phase = "idle"
    /\ generation < MaxGeneration
    /\ Reconvert(b, s)
    /\ ~AllFound(s)
    /\ LookUp(s)
    /\ runs' = [runs EXCEPT ![b] = NoRun]
    /\ phase' = "update" /\ block' = {b} /\ spec' = s
    /\ generation' = generation + 1
    /\ todo' \in Orderings([g \in Elements(s) |-> Extent[g]])
    /\ UNCHANGED <<packer, readd, lastEviction>>

Room(e) == HasRoom(packer, Padded(e).w, Padded(e).h)

(* A tile for a glyph, in the packer and in the contents. *)
PutTile(g, e) ==
    LET size == Padded(e) IN
    /\ packer' = Inserted(packer, g, size.w, size.h)
    /\ contents' = With(contents, g, [tile |-> TileFor(packer, size.w, size.h),
                                      generation |-> generation])

AlreadyPresent ==
    /\ phase = "update" /\ todo # <<>>
    /\ Head(todo) \in DOMAIN contents
    /\ todo' = Tail(todo)
    /\ UNCHANGED <<packer, contents, generation, phase, block, spec, readd, lastEviction, runs>>

InsertGlyph ==
    /\ phase = "update" /\ todo # <<>>
    /\ Head(todo) \notin DOMAIN contents
    /\ Room(Extent[Head(todo)])
    /\ PutTile(Head(todo), Extent[Head(todo)])
    /\ todo' = Tail(todo)
    /\ UNCHANGED <<generation, phase, block, spec, readd, lastEviction, runs>>

(***************************************************************************)
(* evict_outdated: the oldest part of the contents goes, the atlas is      *)
(* emptied, and the rest is put back, with the padded extent for extent.   *)
(***************************************************************************)
EvictLimit == (Cardinality(DOMAIN contents) * EvictPercent) \div 100

Outdated(victims) ==
    /\ Cardinality(victims) = EvictLimit
    /\ \A g \in victims, o \in DOMAIN contents \ victims :
         contents[g].generation <= contents[o].generation

\* Mutant: what is evicted stays in the contents.
Evict_KeepsContents(victims) ==
    LET rest == DOMAIN contents \ victims IN
    /\ phase = "update" /\ todo # <<>>
    /\ Head(todo) \notin DOMAIN contents
    /\ ~Room(Extent[Head(todo)])
    /\ victims # {} /\ Outdated(victims)
    /\ packer' = NewPacker(Side, Side)
    /\ contents' = contents
    /\ readd' \in Orderings([g \in rest |-> contents[g].tile])
    /\ lastEviction' = generation
    /\ phase' = "evict"
    /\ UNCHANGED <<generation, block, spec, todo, runs>>

Evict(victims) ==
    LET rest == DOMAIN contents \ victims IN
    /\ phase = "update" /\ todo # <<>>
    /\ Head(todo) \notin DOMAIN contents
    /\ ~Room(Extent[Head(todo)])
    /\ victims # {} /\ Outdated(victims)
    /\ packer' = NewPacker(Side, Side)
    /\ contents' = [g \in rest |-> contents[g]]
    /\ readd' \in Orderings([g \in rest |-> contents[g].tile])
    /\ lastEviction' = generation
    /\ phase' = "evict"
    /\ UNCHANGED <<generation, block, spec, todo, runs>>

(* clear_location of the new tile: it fills the rows of the tile, counted  *)
(* from Padding rows and bytes into it, so it may end behind the texture.  *)
ClearsBeyond(t) == (t.y + Padding + t.h - 1) * Side + t.x + 1 + t.w > Side * Side

PutBack ==
    LET g == Head(readd)
        old == contents[g].tile
        size == Padded(old)
    IN
    /\ phase = "evict" /\ readd # <<>>
    /\ Room(old)
    /\ ~ClearsBeyond(TileFor(packer, size.w, size.h))
    /\ PutTile(g, old)
    /\ readd' = Tail(readd)
    /\ UNCHANGED <<generation, phase, block, spec, todo, lastEviction, runs>>

(* The insertion is tried again. *)
Evicted ==
    /\ phase = "evict" /\ readd = <<>>
    /\ Room(Extent[Head(todo)])
    /\ PutTile(Head(todo), Extent[Head(todo)])
    /\ todo' = Tail(todo)
    /\ phase' = "update"
    /\ UNCHANGED <<generation, block, spec, readd, lastEviction, runs>>

(* unimplemented!(), a slice out of range, "Handle no more space after     *)
(* eviction", or the unwrap of the second fill_render_run.                 *)
Panic ==
    /\ \/ /\ phase = "evict" /\ readd # <<>>
          /\ LET old == contents[Head(readd)].tile
                 size == Padded(old)
             IN Room(old) => ClearsBeyond(TileFor(packer, size.w, size.h))
       \/ phase = "evict" /\ readd = <<>> /\ ~Room(Extent[Head(todo)])
       \/ /\ phase = "update" /\ todo # <<>>
          /\ Head(todo) \notin DOMAIN contents
          /\ ~Room(Extent[Head(todo)])
          /\ EvictLimit = 0
       \/ phase = "update" /\ todo = <<>> /\ ~AllFound(spec)
    /\ phase' = "panicked"
    /\ UNCHANGED <<packer, contents, generation, block, spec, todo, readd, lastEviction, runs>>

(* The run is filled again. *)
FillAgain ==
    /\ phase = "update" /\ todo = <<>>
    /\ AllFound(spec)
    /\ LookUp(spec)
    /\ Filled(block, spec)
    /\ phase' = "idle" /\ block' = {} /\ spec' = <<>>
    /\ UNCHANGED <<packer, generation, todo, readd, lastEviction>>

Next ==
    \/ \E b \in Blocks, s \in Texts : RenderRun(b, s) \/ StartUpdate(b, s)
    \/ AlreadyPresent \/ InsertGlyph
    \/ \E victims \in SUBSET DOMAIN contents : Evict(victims)
    \/ PutBack \/ Evicted \/ Panic
    \/ FillAgain

Spec == Init /\ [][Next]_vars

-----------------------------------------------------------------------------
Tiles == packer.cached
Free == packer.rects
Atlas == At(0, 0, Side, Side)

(* No texel belongs to two glyphs, or to none that it could be read        *)
(* through: tiles with their padding lie apart from each other and inside  *)
(* the atlas, whatever was evicted and put back.                           *)
TilesApart ==
    /\ \A g \in DOMAIN Tiles : Within(Tiles[g], Atlas)
    /\ \A g, o \in DOMAIN Tiles : g # o => Apart(Tiles[g], Tiles[o])

(* Free rectangles lie apart from the tiles and from each other.           *)
FreeIsFree ==
    /\ \A i \in DOMAIN Free : Within(Free[i], Atlas)
    /\ \A i \in DOMAIN Free, g \in DOMAIN Tiles : Apart(Free[i], Tiles[g])
    /\ \A i, j \in DOMAIN Free : i # j => Apart(Free[i], Free[j])

(* No texel is lost: those of the tiles and of the free rectangles are all *)
(* there are.                                                              *)
NothingWasted ==
    \A x, y \in 0 .. Side - 1 :
        \/ \E g \in DOMAIN Tiles : Covers(Tiles[g], x, y)
        \/ \E i \in DOMAIN Free : Covers(Free[i], x, y)

(* The contents the glyphs are looked up in are the tiles the packer gave  *)
(* out, but for those that wait to be put back.                            *)
PackerAgrees ==
    /\ DOMAIN Tiles = DOMAIN contents \ Elements(readd)
    /\ \A g \in DOMAIN Tiles : contents[g].tile = Tiles[g]

(* The vertices a block keeps show its glyphs where they are, for any      *)
(* number of updates of the cache by other blocks, if they were made since *)
(* the last eviction.  (Vertices made before may be used as well: the      *)
(* generation of the last eviction, which compatible asks for, is not      *)
(* kept.)                                                                  *)
RunsStayRight ==
    \A b \in Blocks : runs[b].generation >= lastEviction =>
        \A g \in Elements(runs[b].spec) :
            g \in DOMAIN contents /\ runs[b].squares[g] = Unpadded(contents[g].tile)
=============================================================================
