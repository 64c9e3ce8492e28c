----------------------------- MODULE WgpuWindow -----------------------------
(***************************************************************************)
(* The window of helicoid-wgpu (main.rs), the default program of the       *)
(* workspace: an event loop that never waits, flags that say what has      *)
(* changed and whether to render, a surface and attachments that follow    *)
(* the size of the window, and the text the font cache draws in it.  Zoom, *)
(* scroll and stroke width only move figures whose drawing is disabled,    *)
(* and are left out: their keys mark the scene as changed.                 *)
(***************************************************************************)
EXTENDS FontRenderer

CONSTANT DefaultSize  \* DEFAULT_WINDOW_WIDTH and DEFAULT_WINDOW_HEIGHT
ASSUME DefaultAssumption == DefaultSize \in Sizes \ {NoArea}

VARIABLES
    mode,           \* how far main has come, or how it ended
    phase,          \* what the event loop reports next
    window,         \* the size the window has
    reported,       \* the last size the event loop was told
    requested,      \* a redraw has been requested
    scene,          \* SceneParams
    attachments,    \* the configured surface, the depth and multisample textures
    shown,          \* the frame presented last
    lost            \* the last attempt at a frame got no texture to draw on

loopVars == <<mode, phase, window, reported, requested, scene, attachments, shown, lost>>
vars == <<fontVars, loopVars>>

NoFrame == [size |-> Missing]

Init ==
    /\ FontInit
    /\ mode = "new"
    /\ phase = "events"
    /\ window \in Sizes \ {NoArea}
    /\ reported = DefaultSize
    /\ requested = FALSE
    /\ scene = [window_size |-> DefaultSize, size_changed |-> TRUE, changed |-> TRUE,
                render |-> FALSE, draw_background |-> TRUE]
    /\ attachments = [surface |-> Missing, depth |-> Missing, multisampled |-> Missing]
    /\ shown = NoFrame
    /\ lost = FALSE

-----------------------------------------------------------------------------
(* main, up to the event loop.                                             *)

create_font_cache ==
    /\ mode = "new" /\ mode' = "font cache"
    /\ create_resources
    /\ create_renderer
    /\ add_atlas
    /\ UNCHANGED <<spec, run, phase, window, reported, requested, scene, attachments, shown, lost>>

(* The shaper knows no pictures: it leaves the extents at zero.            *)
cosmic_shape_str == [extent |-> Missing]

ShapeText ==
    /\ mode = "font cache" /\ mode' = "shaped"
    /\ spec' = offset_glyphs(cosmic_shape_str)
    /\ UNCHANGED <<renderer, atlas, palette, run, device>>
    /\ UNCHANGED <<phase, window, reported, requested, scene, attachments, shown, lost>>

RenderText ==
    /\ mode = "shaped" /\ mode' = "text"
    /\ SetPalette
    /\ render_run(copy_to_gpu(device, palette'))
    /\ UNCHANGED <<renderer, spec, phase, window, reported, requested, scene, attachments, shown, lost>>

(* The surface gets the size the window has, which the scene does not know. *)
Start ==
    /\ mode = "text"
    /\ IF window = NoArea
       THEN mode' = "crashed" /\ UNCHANGED <<renderer, device, attachments, requested>>
       ELSE /\ mode' = "running"
            /\ setup_resources
            /\ attachments' = [attachments EXCEPT !.surface = window]
            /\ requested' = TRUE
    /\ UNCHANGED <<atlas, palette, spec, run, phase, window, reported, scene, shown, lost>>

-----------------------------------------------------------------------------
(* A frame.                                                                *)

create_multisampled_framebuffer(size) == IF SampleCount > 1 THEN size ELSE Missing

\* Mutant: the depth texture keeps the size it was created with.
Reconfigured_KeepsDepth(s) ==
    IF ~s.size_changed THEN attachments
    ELSE [surface |-> s.window_size,
          depth |-> IF attachments.depth = Missing THEN s.window_size ELSE attachments.depth,
          multisampled |-> create_multisampled_framebuffer(s.window_size)]

(* A new size is given to the surface and to textures made for it.         *)
Reconfigured(s) ==
    IF ~s.size_changed THEN attachments
    ELSE [surface |-> s.window_size, depth |-> s.window_size,
          multisampled |-> create_multisampled_framebuffer(s.window_size)]

bg_pipeline == [samples |-> SampleCount]

(* What the device draws: the surface is the target of the pass, or what   *)
(* the multisampled texture is resolved to.                                *)
Frame(dev, r, s, targets) ==
    [size         |-> targets.surface,
     depth        |-> targets.depth,
     multisampled |-> targets.multisampled,
     pipelines    |-> {bg_pipeline, setup_pipeline(dev, r).pipeline},
     background   |-> s.draw_background,
     resolution   |-> dev.globals_ubo,
     texels       |-> setup_pipeline(dev, r).texels,
     palette      |-> dev.palette,
     vertices     |-> dev.vertices]

(* The copies are made before the frame is submitted, and the frame has    *)
(* been presented when the callback returns.                               *)
Draw(s) ==
    LET r == resolution_changed(renderer, s.window_size)
        dev == update_texture(queue_write_buffer(sync_globals(device, r)))
    IN  /\ renderer' = [r EXCEPT !.globals_dirty = FALSE]
        /\ device' = dev
        /\ shown' = Frame(dev, r, s, attachments')
        /\ lost' = FALSE

(* get_current_texture may fail: it is logged, and the flags are cleared.  *)
SwapChainError ==
    /\ lost' = TRUE
    /\ UNCHANGED <<renderer, device, shown>>

(* The rest of the callback, after update_inputs.                          *)
Callback(s) ==
    /\ IF s.size_changed /\ s.window_size = NoArea
       THEN /\ mode' = "crashed"  \* a surface without area is refused
            /\ scene' = s
            /\ UNCHANGED <<renderer, device, shown, lost, attachments>>
       ELSE /\ mode' = mode
            /\ attachments' = Reconfigured(s)
            /\ scene' = [s EXCEPT !.size_changed = FALSE, !.render = FALSE,
                                  !.changed = s.changed /\ ~s.render]
            /\ IF s.render THEN Draw(s) \/ SwapChainError
                           ELSE UNCHANGED <<renderer, device, shown, lost>>
    /\ UNCHANGED <<atlas, palette, spec, run>>

-----------------------------------------------------------------------------
(* Events, in the order the event loop reports them: what happened to the  *)
(* window, that this was all, a redraw if one is requested, and that the   *)
(* redraws are done.  Every one of them goes through the callback.         *)

At(p) == mode = "running" /\ phase = p

\* Mutant: the new size alone has the window drawn again.
WithSize_SizeOnly(size) == [scene EXCEPT !.window_size = size, !.size_changed = TRUE]

WithSize(size) == [scene EXCEPT !.window_size = size, !.size_changed = TRUE, !.changed = TRUE]

Resized ==
    /\ At("events") /\ window # reported
    /\ reported' = window
    /\ Callback(WithSize(window))
    /\ UNCHANGED <<phase, window, requested>>

(* B toggles the background; the other keys change what is left out.       *)
KeyboardInput(background) ==
    /\ At("events")
    /\ Callback([scene EXCEPT !.changed = TRUE, !.draw_background = background])
    /\ UNCHANGED <<phase, window, reported, requested>>

(* Escape, and the window's own button.                                    *)
CloseRequested ==
    /\ At("events")
    /\ mode' = "closed"
    /\ UNCHANGED <<fontVars, phase, window, reported, requested, scene, attachments, shown, lost>>

MainEventsCleared ==
    /\ At("events") /\ window = reported
    /\ Callback(scene)
    /\ phase' = "redraw"
    /\ UNCHANGED <<window, reported, requested>>

RedrawRequested ==
    /\ At("redraw") /\ requested
    /\ Callback([scene EXCEPT !.render = TRUE])
    /\ phase' = "cleared"
    /\ requested' = FALSE
    /\ UNCHANGED <<window, reported>>

NoRedraw ==
    /\ At("redraw") /\ ~requested
    /\ phase' = "cleared"
    /\ UNCHANGED <<fontVars, mode, window, reported, requested, scene, attachments, shown, lost>>

\* Mutant: a redraw is requested for a new size only.
RedrawEventsCleared_SizeOnly ==
    /\ At("cleared")
    /\ requested' = (requested \/ scene.size_changed)
    /\ Callback(scene)
    /\ phase' = "events"
    /\ UNCHANGED <<window, reported>>

RedrawEventsCleared ==
    /\ At("cleared")
    /\ requested' = (requested \/ scene.changed \/ scene.size_changed)
    /\ Callback(scene)
    /\ phase' = "events"
    /\ UNCHANGED <<window, reported>>

(* The user and the window system, at any time.                            *)
WindowIsSized(size) ==
    /\ size # window /\ mode \notin {"closed", "crashed"}
    /\ window' = size
    /\ UNCHANGED <<fontVars, mode, phase, reported, requested, scene, attachments, shown, lost>>

WindowIsExposed ==
    /\ mode = "running" /\ ~requested
    /\ requested' = TRUE
    /\ UNCHANGED <<fontVars, mode, phase, window, reported, scene, attachments, shown, lost>>

Main == create_font_cache \/ ShapeText \/ RenderText \/ Start
EventLoop == Resized \/ MainEventsCleared \/ RedrawRequested \/ NoRedraw \/ RedrawEventsCleared
Environment ==
    \/ \E size \in Sizes : WindowIsSized(size)
    \/ \E background \in BOOLEAN : KeyboardInput(background)
    \/ CloseRequested
    \/ WindowIsExposed

Next == Main \/ EventLoop \/ Environment

Spec == Init /\ [][Next]_vars

(* ControlFlow::Poll: the loop does not wait for an event.                 *)
FairSpec == Spec /\ WF_vars(Main) /\ WF_vars(EventLoop)

-----------------------------------------------------------------------------
(* What the window relies on.                                              *)

(* A pass is only valid if its attachments are of one size and one number  *)
(* of samples, those of the pipelines it sets: wgpu ends the program when  *)
(* it is not.  Sizes, textures and pipelines are made in three places.     *)
PassIsValid ==
    shown.size # Missing =>
        /\ shown.depth = shown.size
        /\ shown.multisampled = create_multisampled_framebuffer(shown.size)
        /\ \A pipeline \in shown.pipelines : pipeline.samples = SampleCount

(* A frame is drawn from current copies: the globals of the text are for   *)
(* the size of this very frame, and the texture the bind group names, the  *)
(* palette and the squares are those in memory, which are as large as the  *)
(* pictures in the texture.                                                *)
FrameIsCurrent ==
    shown.size # Missing =>
        /\ shown.resolution = shown.size
        /\ shown.texels = atlas.host_data
        /\ shown.palette = palette
        /\ shown.vertices = run /\ run.extent = placement_for_glyph

(* When the loop sees nothing left to do, the window shows its size and    *)
(* settings as they are: no order of events loses a change, but that the   *)
(* flags are cleared before the surface has been asked for a texture.      *)
StillMeansDrawn ==
    mode = "running" /\ ~scene.changed /\ ~lost =>
        /\ shown.size = scene.window_size
        /\ shown.background = scene.draw_background

(* A window that keeps its size is drawn at that size, unless the last     *)
(* attempt at it was lost, which nothing repeats.                          *)
SizeIsDrawn ==
    \A size \in Sizes :
        window = size ~>
            window # size \/ lost \/ shown.size = size \/ mode \in {"closed", "crashed"}
=============================================================================
