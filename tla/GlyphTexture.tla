---------------------------- MODULE GlyphTexture ----------------------------
(***************************************************************************)
(* The texels behind the glyph cache: what fontcache.rs renders into the   *)
(* texture of the atlas, what an eviction clears, and what the squares of  *)
(* a run show.  A glyph drawn again after an eviction gets a tile that is  *)
(* larger than it is, is cleared from a place inside the tile to a place   *)
(* behind it, and old texels stay wherever nothing is drawn.  A texel is   *)
(* Padding bytes, and says which glyph was rendered there.                 *)
(***************************************************************************)
EXTENDS GlyphCache

CONSTANT Clear   \* a texel that is zero
ASSUME ClearAssumption == Clear \notin Glyphs

VARIABLE texels  \* BackedUpTexture::host_data: [Texel -> Glyphs \cup {Clear}]

textureVars == <<vars, texels>>

Texel == 0 .. Side * Side - 1

TextureInit == Init /\ texels = [p \in Texel |-> Clear]

(* The rows of a tile: slices of the texture, one below the other.  The    *)
(* view of a location whose padding has been applied has none.             *)
Row(x, y, width) == {y * Side + x + i : i \in 0 .. width - 1}
Rows(x, y, width, height) == UNION {Row(x, y + r, width) : r \in 0 .. height - 1}

(* do_render_to_location: the glyph with its own size, at the place it has *)
(* in its tile.                                                            *)
Rendered(image, g, tile) ==
    LET at == Unpadded(tile)
        painted == Rows(at.x, at.y, Extent[g].w, Extent[g].h)
    IN [p \in Texel |-> IF p \in painted THEN g ELSE image[p]]

(* clear_location: as many rows and bytes as the tile with its padding     *)
(* has, from Padding rows and bytes into it.                               *)
Cleared(image, tile) ==
    LET zero == Rows(tile.x + 1, tile.y + Padding, tile.w, tile.h)
    IN [p \in Texel |-> IF p \in zero THEN Clear ELSE image[p]]

\* Mutant: the tile is cleared when the glyph has been drawn.
Redrawn_ClearsLast(g) == texels' = Cleared(Rendered(texels, g, contents'[g].tile), contents'[g].tile)

(* An eviction clears the new tile and has the glyph rendered again.       *)
Redrawn(g) == texels' = Rendered(Cleared(texels, contents'[g].tile), g, contents'[g].tile)

(* update_cache renders a glyph it has found room for.                     *)
Inserts(g) == texels' = Rendered(texels, g, contents'[g].tile)

TextureNext ==
    \/ /\ \/ \E b \in Blocks, s \in Texts : RenderRun(b, s) \/ StartUpdate(b, s)
          \/ \E victims \in SUBSET DOMAIN contents : Evict(victims)
          \/ AlreadyPresent \/ Panic \/ FillAgain
       /\ UNCHANGED texels
    \/ InsertGlyph /\ Inserts(Head(todo))
    \/ PutBack /\ Redrawn(Head(readd))
    \/ Evicted /\ Inserts(Head(todo))

TextureSpec == TextureInit /\ [][TextureNext]_textureVars

-----------------------------------------------------------------------------
(* RenderSquare::from_spec_element: the texel a square of a run takes for  *)
(* the point at column i and row j of it.                                  *)
Sampled(square, i, j) == texels[(square.y + j) * Side + square.x + i]

(* The picture of a glyph is the glyph with nothing around it: the squares *)
(* of a run made since the last eviction show its glyphs whole, and where  *)
(* a square has become larger than its glyph, nothing of another.  No tile *)
(* that is cleared takes a part of one rendered before it.                 *)
PicturesAreRight ==
    \A b \in Blocks : runs[b].generation >= lastEviction =>
        \A g \in Elements(runs[b].spec) :
            LET square == runs[b].squares[g] IN
            \A i \in 0 .. square.w - 1, j \in 0 .. square.h - 1 :
                Sampled(square, i, j) =
                    IF i < Extent[g].w /\ j < Extent[g].h THEN g ELSE Clear
=============================================================================
