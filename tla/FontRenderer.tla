---------------------------- MODULE FontRenderer ----------------------------
(***************************************************************************)
(* The font cache's share of a frame (helicoid-gpurender, fontcache.rs and *)
(* the lower half of texture_atlases.rs): what it keeps in memory, what of *)
(* it the device has a copy of, and when the copies are made.  The bind    *)
(* group names a texture of the device once and for all, while the atlas   *)
(* may replace its texture with every upload.                              *)
(***************************************************************************)
EXTENDS Integers, Sequences

CONSTANTS
    Sizes,          \* the sizes of a window, in pixels
    NoArea,         \* the size of a window that is minimised
    SampleCount,    \* samples of a pixel; 1 is no multisampling
    Missing         \* what an Option is that holds nothing

ASSUME SizesAssumption == NoArea \in Sizes /\ Missing \notin Sizes
ASSUME SamplesAssumption == SampleCount \in Nat \ {0}

VARIABLES
    renderer,       \* FontCacheRenderer, and Missing before it is created
    atlas,          \* BackedUpTexture of the one atlas
    palette,        \* FontPalette::host
    spec,           \* RenderSpec, the shaped text, and what of its glyphs is known
    run,            \* RenderedRun::host_vertices, the squares of the text
    device          \* what the device has: textures, buffers, palette

fontVars == <<renderer, atlas, palette, spec, run, device>>

Clear == "clear"      \* texels, colours or squares nobody has filled in
Placement == "placement"  \* where the picture of a glyph is, and how large
Glyphs == "glyphs"    \* the glyphs of the text in the texture
White == "white"      \* the palette before its entries are set
Colours == "colours"  \* the palette the window is meant to use

FontInit ==
    /\ renderer = Missing
    /\ atlas = Missing
    /\ palette = Missing
    /\ spec = Missing
    /\ run = Missing
    /\ device = [textures |-> <<>>, palette |-> Clear, globals_ubo |-> Missing, vertices |-> Missing]

-----------------------------------------------------------------------------
(* The cache and its renderer are created.                                 *)

(* FontCacheRenderer::new: nothing of it is on the device yet.             *)
NewRenderer(resolution, samples) ==
    [globals |-> resolution, globals_dirty |-> FALSE, samples |-> samples,
     pipeline |-> Missing, bind_group |-> Missing]

(* create_texture has one layer, whatever extent it is asked for.          *)
create_texture == [layers |-> 1, texels |-> Clear]

\* Mutant: the extent of the atlas is the one that was asked for.
with_texture_KeepsExtent == [host_data |-> Clear, layers |-> 0]

(* A backed-up texture takes over the extent of the one on the device.     *)
with_texture == [host_data |-> Clear, layers |-> create_texture.layers]

(* Every entry is white, in memory only: the texture is made and not       *)
(* written.                                                                *)
FontPalette == White

(* The resources that all renderers of a cache share.                      *)
create_resources == palette' = FontPalette

create_renderer == renderer' = NewRenderer(NoArea, SampleCount)

add_atlas ==
    /\ atlas' = with_texture
    /\ device' = [device EXCEPT !.textures = <<create_texture>>]

-----------------------------------------------------------------------------
(* The text of the window is rendered, once.                               *)

(* What the rasteriser says of a glyph, which it renders for it.           *)
placement_for_glyph == Placement

(* A shaped text says where its glyphs begin; this is what adds how large  *)
(* their pictures are.                                                     *)
offset_glyphs(shaped) == [shaped EXCEPT !.extent = placement_for_glyph]

copy_to_gpu(dev, host) == [dev EXCEPT !.palette = host]

ensure_buffer(dev) == IF dev.vertices = Missing THEN [dev EXCEPT !.vertices = Clear] ELSE dev

(* set_palette_entry, for all that differ.                                 *)
SetPalette == palette' = Colours

(* A square for every glyph, of the extent it has in the text.             *)
Squares(text) == [extent |-> text.extent]

(* The glyphs are rendered into the texture in memory, a buffer is made,   *)
(* and the squares that go into it are listed.                             *)
render_run(dev) ==
    /\ atlas' = [atlas EXCEPT !.host_data = Glyphs]
    /\ device' = ensure_buffer(dev)
    /\ run' = Squares(spec)

-----------------------------------------------------------------------------
(* The resources of the renderer, which are created once.                  *)

update_pipeline(r) ==
    IF r.pipeline = Missing THEN [r EXCEPT !.pipeline = [samples |-> r.samples]] ELSE r

(* The bind group names the texture the atlas has now.                     *)
update_bind_group(r) ==
    IF r.bind_group = Missing THEN [r EXCEPT !.bind_group = Len(device.textures)] ELSE r

(* The buffer of the globals is new and holds zeros.                       *)
setup_resources ==
    /\ device' = [device EXCEPT !.globals_ubo = NoArea]
    /\ renderer' = update_bind_group(update_pipeline([renderer EXCEPT !.globals_dirty = TRUE]))

-----------------------------------------------------------------------------
(* What every frame does with them.                                        *)

resolution_changed(r, size) ==
    IF r.globals = size THEN r ELSE [r EXCEPT !.globals = size, !.globals_dirty = TRUE]

sync_globals(dev, r) == IF r.globals_dirty THEN [dev EXCEPT !.globals_ubo = r.globals] ELSE dev

queue_write_buffer(dev) == [dev EXCEPT !.vertices = run]

(* The pass draws with what the renderer has been set up with.             *)
setup_pipeline(dev, r) ==
    [pipeline |-> r.pipeline, texels |-> dev.textures[r.bind_group].texels]

(* A texture of another extent is dropped by the atlas, and a new one made. *)
ensure_texture_parameters(dev) ==
    IF dev.textures[Len(dev.textures)].layers = atlas.layers THEN dev
    ELSE [dev EXCEPT !.textures = Append(@, [layers |-> atlas.layers, texels |-> Clear])]

update_texture(dev) ==
    LET ensured == ensure_texture_parameters(dev) IN
    [ensured EXCEPT !.textures[Len(ensured.textures)].texels = atlas.host_data]
=============================================================================
