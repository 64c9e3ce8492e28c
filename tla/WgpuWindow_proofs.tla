-------------------------- MODULE WgpuWindow_proofs --------------------------
(* What a frame of the wgpu window shows, for any sizes and any number of   *)
(* samples: its passes are valid, its copies current, and no change is lost *)
(* but with a frame.                                                        *)
EXTENDS WgpuWindow, TLAPS

Scene == [window_size : Sizes, size_changed : BOOLEAN, changed : BOOLEAN,
          render : BOOLEAN, draw_background : BOOLEAN]

TypeInv ==
    /\ mode \in {"new", "font cache", "shaped", "text", "running", "closed", "crashed"}
    /\ window \in Sizes
    /\ scene \in Scene

\* The device and the renderer, with their one texture.
Device(texels, colours, globals_ubo, vertices) ==
    [textures |-> <<[layers |-> 1, texels |-> texels]>>, palette |-> colours,
     globals_ubo |-> globals_ubo, vertices |-> vertices]

Renderer(globals, dirty) ==
    [globals |-> globals, globals_dirty |-> dirty, samples |-> SampleCount,
     pipeline |-> [samples |-> SampleCount], bind_group |-> 1]

Listed == [extent |-> Placement]

\* main, up to the event loop, does one thing after the other.
StartInv ==
    /\ mode = "new" => device = [textures |-> <<>>, palette |-> Clear,
                                 globals_ubo |-> Missing, vertices |-> Missing]
    /\ mode \in {"font cache", "shaped"} =>
        /\ renderer = NewRenderer(NoArea, SampleCount)
        /\ atlas = [host_data |-> Clear, layers |-> 1]
        /\ device = Device(Clear, Clear, Missing, Missing)
    /\ mode = "shaped" => spec = [extent |-> Placement]
    /\ mode = "text" =>
        /\ renderer = NewRenderer(NoArea, SampleCount)
        /\ device = Device(Clear, Colours, Missing, Clear)
    /\ mode \in {"text", "running"} =>
        atlas = [host_data |-> Glyphs, layers |-> 1] /\ palette = Colours /\ run = Listed
    /\ mode \in {"new", "font cache", "shaped", "text"} => shown = NoFrame /\ scene.changed /\ scene.size_changed

\* The texture stays the one the bind group names, and a buffer that differs
\* from the globals is marked.
CopiesInv ==
    mode = "running" =>
        \E globals, ubo \in Sizes, dirty \in BOOLEAN,
           texels \in {Clear, Glyphs}, vertices \in {Clear, Listed} :
            /\ renderer = Renderer(globals, dirty)
            /\ device = Device(texels, Colours, ubo, vertices)
            /\ dirty \/ ubo = globals

Attachments(size) ==
    [surface |-> size, depth |-> size, multisampled |-> create_multisampled_framebuffer(size)]

AttachmentsInv ==
    mode = "running" /\ ~scene.size_changed => attachments = Attachments(scene.window_size)

IInv == /\ TypeInv /\ StartInv /\ CopiesInv /\ AttachmentsInv
        /\ PassIsValid /\ FrameIsCurrent /\ StillMeansDrawn

USE SizesAssumption, SamplesAssumption, DefaultAssumption

-----------------------------------------------------------------------------

LEMMA InitIInv == Init => IInv
<1> SUFFICES ASSUME Init PROVE IInv
  OBVIOUS
<1>1. TypeInv /\ StartInv /\ CopiesInv /\ AttachmentsInv
  BY DEF Init, FontInit, TypeInv, Scene, StartInv, CopiesInv, AttachmentsInv
<1>2. PassIsValid /\ FrameIsCurrent /\ StillMeansDrawn
  BY DEF Init, NoFrame, PassIsValid, FrameIsCurrent, StillMeansDrawn
<1> QED
  BY <1>1, <1>2 DEF IInv

\* Nothing of the invariant depends on what else the event loop keeps.
LEMMA StutterIInv ==
    ASSUME IInv, UNCHANGED <<fontVars, scene, attachments, shown>>,
           window' \in Sizes,
           \/ mode' = mode /\ lost' = lost
           \/ mode = "running" /\ mode' = "closed"
    PROVE  IInv'
<1>1. TypeInv' /\ StartInv' /\ CopiesInv' /\ AttachmentsInv'
  BY DEF IInv, fontVars, TypeInv, StartInv, CopiesInv, AttachmentsInv
<1>2. PassIsValid' /\ FrameIsCurrent' /\ StillMeansDrawn'
  BY DEF IInv, fontVars, PassIsValid, FrameIsCurrent, StillMeansDrawn
<1> QED
  BY <1>1, <1>2 DEF IInv

LEMMA StartUpIInv ==
    ASSUME IInv, Main
    PROVE  IInv'
<1>1. CASE create_font_cache
  <2>1. device' = Device(Clear, Clear, Missing, Missing)
    <3>1. device = [textures |-> <<>>, palette |-> Clear, globals_ubo |-> Missing, vertices |-> Missing]
      BY <1>1 DEF create_font_cache, IInv, StartInv
    <3>2. device' = [device EXCEPT !.textures = <<[layers |-> 1, texels |-> Clear]>>]
      BY <1>1 DEF create_font_cache, add_atlas, create_texture
    <3> HIDE SizesAssumption, SamplesAssumption, DefaultAssumption
    <3> QED
      BY <3>1, <3>2, Zenon DEF Device
  <2>2. /\ renderer' = NewRenderer(NoArea, SampleCount)
        /\ atlas' = [host_data |-> Clear, layers |-> 1]
    BY <1>1 DEF create_font_cache, create_renderer, add_atlas, with_texture, create_texture
  <2>3. shown' = NoFrame /\ scene' = scene /\ scene.changed /\ scene.size_changed /\ mode' = "font cache" /\ window' \in Sizes
    BY <1>1 DEF create_font_cache, IInv, StartInv, TypeInv
  <2>4. TypeInv' /\ StartInv' /\ CopiesInv' /\ AttachmentsInv'
    BY <2>1, <2>2, <2>3 DEF IInv, TypeInv, StartInv, CopiesInv, AttachmentsInv
  <2>5. PassIsValid' /\ FrameIsCurrent' /\ StillMeansDrawn'
    BY <2>3 DEF PassIsValid, FrameIsCurrent, StillMeansDrawn, NoFrame
  <2> QED
    BY <2>4, <2>5 DEF IInv
<1>2. CASE ShapeText
  <2>1. /\ UNCHANGED <<renderer, atlas, palette, run, device, shown, scene>>
        /\ scene.changed /\ scene.size_changed /\ shown = NoFrame
        /\ mode = "font cache" /\ mode' = "shaped" /\ window' \in Sizes
    BY <1>2 DEF ShapeText, IInv, StartInv, TypeInv
  <2>2. spec' = [extent |-> Placement]
    <3>1. PICK shaped : shaped = cosmic_shape_str
      OBVIOUS
    <3>2. spec' = [shaped EXCEPT !.extent = Placement]
      BY <1>2, <3>1 DEF ShapeText, offset_glyphs, placement_for_glyph
    <3> QED
      BY <3>1, <3>2, Zenon DEF cosmic_shape_str
  <2>3. TypeInv' /\ StartInv' /\ CopiesInv' /\ AttachmentsInv'
    BY <2>1, <2>2 DEF IInv, TypeInv, StartInv, CopiesInv, AttachmentsInv
  <2>4. PassIsValid' /\ FrameIsCurrent' /\ StillMeansDrawn'
    BY <2>1 DEF PassIsValid, FrameIsCurrent, StillMeansDrawn, NoFrame
  <2> QED
    BY <2>3, <2>4 DEF IInv
<1>3. CASE RenderText
  <2>1. /\ device' = Device(Clear, Colours, Missing, Clear)
        /\ palette' = Colours
    <3>1. device = Device(Clear, Clear, Missing, Missing)
      BY <1>3 DEF RenderText, IInv, StartInv
    <3>2. PICK written : written = [device EXCEPT !.palette = Colours]
      OBVIOUS
    <3>3. written = Device(Clear, Colours, Missing, Missing)
      BY <3>1, <3>2, Zenon DEF Device
    <3>4. palette' = Colours /\ device' = ensure_buffer(written)
      BY <1>3, <3>2 DEF RenderText, SetPalette, render_run, copy_to_gpu
    <3>5. device' = [written EXCEPT !.vertices = Clear]
      BY <3>3, <3>4 DEF ensure_buffer, Device
    <3> QED
      BY <3>3, <3>4, <3>5, Zenon DEF Device
  <2>2. /\ renderer' = NewRenderer(NoArea, SampleCount)
        /\ atlas' = [host_data |-> Glyphs, layers |-> 1]
        /\ run' = Listed
    <3>1. renderer' = renderer /\ renderer = NewRenderer(NoArea, SampleCount)
      BY <1>3 DEF RenderText, IInv, StartInv
    <3>2. atlas = [host_data |-> Clear, layers |-> 1]
      BY <1>3 DEF RenderText, IInv, StartInv
    <3>3. run' = Listed /\ atlas' = [atlas EXCEPT !.host_data = Glyphs]
      BY <1>3 DEF RenderText, render_run, Squares, Listed, IInv, StartInv
    <3> QED
      BY <3>1, <3>2, <3>3
  <2>3. shown' = NoFrame /\ scene' = scene /\ scene.changed /\ scene.size_changed /\ mode' = "text" /\ window' \in Sizes
    BY <1>3 DEF RenderText, IInv, StartInv, TypeInv
  <2>4. TypeInv' /\ StartInv' /\ CopiesInv' /\ AttachmentsInv'
    BY <2>1, <2>2, <2>3 DEF IInv, TypeInv, StartInv, CopiesInv, AttachmentsInv
  <2>5. PassIsValid' /\ FrameIsCurrent' /\ StillMeansDrawn'
    BY <2>3 DEF PassIsValid, FrameIsCurrent, StillMeansDrawn, NoFrame
  <2> QED
    BY <2>4, <2>5 DEF IInv
<1>4. CASE Start
  <2>1. /\ shown' = NoFrame /\ scene' = scene /\ scene.changed /\ scene.size_changed /\ window' \in Sizes
        /\ mode' \in {"running", "crashed"} /\ UNCHANGED <<atlas, palette, run>>
    BY <1>4 DEF Start, IInv, StartInv, TypeInv
  <2>2. CASE mode' = "crashed"
    <3>1. TypeInv' /\ StartInv' /\ CopiesInv' /\ AttachmentsInv'
      BY <2>1, <2>2 DEF IInv, TypeInv, StartInv, CopiesInv, AttachmentsInv
    <3> QED
      BY <2>1, <3>1 DEF IInv, PassIsValid, FrameIsCurrent, StillMeansDrawn, NoFrame
  <2>3. CASE mode' = "running"
    <3>1. mode = "text" /\ setup_resources
      BY <1>4, <2>3 DEF Start
    <3>2. device' = Device(Clear, Colours, NoArea, Clear)
      <4>1. device = Device(Clear, Colours, Missing, Clear)
        BY <3>1 DEF IInv, StartInv
      <4>2. device' = [device EXCEPT !.globals_ubo = NoArea]
        BY <3>1 DEF setup_resources
      <4> QED
        BY <4>1, <4>2, Zenon DEF Device
    <3>3. Len(device.textures) = 1
      BY <3>1 DEF IInv, StartInv, Device
    <3>4. renderer' = Renderer(NoArea, TRUE)
      <4>1. renderer = NewRenderer(NoArea, SampleCount)
        BY <3>1 DEF IInv, StartInv
      <4>2. PICK r : r = [renderer EXCEPT !.globals_dirty = TRUE]
        OBVIOUS
      <4>3. r = [globals |-> NoArea, globals_dirty |-> TRUE, samples |-> SampleCount,
                 pipeline |-> Missing, bind_group |-> Missing]
        BY <4>1, <4>2, Zenon DEF NewRenderer
      <4>4. update_pipeline(r) = [r EXCEPT !.pipeline = [samples |-> SampleCount]]
        BY <4>3 DEF update_pipeline
      <4>5. update_bind_group(update_pipeline(r)) = [update_pipeline(r) EXCEPT !.bind_group = 1]
        BY <4>3, <4>4, <3>3 DEF update_bind_group
      <4>6. renderer' = update_bind_group(update_pipeline(r))
        BY <3>1, <4>2 DEF setup_resources
      <4> QED
        BY <4>3, <4>4, <4>5, <4>6, ZenonT(60) DEF Renderer
    <3>5. CopiesInv'
      BY <3>2, <3>4 DEF CopiesInv
    <3>6. TypeInv' /\ StartInv'
      BY <2>1, <2>3, <3>1 DEF IInv, TypeInv, StartInv
    <3>7. AttachmentsInv'
      BY <2>1 DEF AttachmentsInv
    <3>8. PassIsValid' /\ FrameIsCurrent' /\ StillMeansDrawn'
      BY <2>1 DEF PassIsValid, FrameIsCurrent, StillMeansDrawn, NoFrame
    <3> QED
      BY <3>5, <3>6, <3>7, <3>8 DEF IInv
  <2> QED
    BY <2>1, <2>2, <2>3
<1> QED
  BY <1>1, <1>2, <1>3, <1>4 DEF Main

-----------------------------------------------------------------------------
(* A frame.                                                                *)

\* All copies are brought up to date before a frame is drawn.
LEMMA DrawIsCurrent ==
    ASSUME IInv, mode = "running", NEW s \in Scene, Draw(s), attachments' = Attachments(s.window_size)
    PROVE  /\ renderer' = Renderer(s.window_size, FALSE)
           /\ device' = Device(Glyphs, Colours, s.window_size, Listed)
           /\ shown' = [size         |-> s.window_size,
                        depth        |-> s.window_size,
                        multisampled |-> create_multisampled_framebuffer(s.window_size),
                        pipelines    |-> {[samples |-> SampleCount]},
                        background   |-> s.draw_background,
                        resolution   |-> s.window_size,
                        texels       |-> Glyphs,
                        palette      |-> Colours,
                        vertices     |-> Listed]
<1> DEFINE size == s.window_size
           r == resolution_changed(renderer, size)
           synced == sync_globals(device, r)
           written == queue_write_buffer(synced)
           dev == update_texture(written)
<1>1. PICK globals \in Sizes, ubo \in Sizes, dirty \in BOOLEAN,
           texels \in {Clear, Glyphs}, vertices \in {Clear, Listed} :
        /\ renderer = Renderer(globals, dirty)
        /\ device = Device(texels, Colours, ubo, vertices)
        /\ dirty \/ ubo = globals
  BY DEF IInv, CopiesInv
<1>2. PICK d \in BOOLEAN : r = Renderer(size, d) /\ (d \/ ubo = size)
  <2>1. CASE globals = size
    BY <1>1, <2>1 DEF resolution_changed, Renderer
  <2>2. CASE globals # size
    <3>1. renderer.globals # size
      BY <1>1, <2>2 DEF Renderer
    <3>2. r = [renderer EXCEPT !.globals = size, !.globals_dirty = TRUE]
      BY <3>1 DEF resolution_changed
    <3>3. r = Renderer(size, TRUE)
      BY <1>1, <3>2, Zenon DEF Renderer
    <3> QED
      BY <3>3
  <2> QED
    BY <2>1, <2>2
<1>3. synced = Device(texels, Colours, size, vertices)
  <2>1. r.globals_dirty = d /\ r.globals = size
    BY <1>2 DEF Renderer
  <2>2. CASE d
    <3>1. synced = [device EXCEPT !.globals_ubo = size]
      BY <2>1, <2>2 DEF sync_globals
    <3> QED
      BY <1>1, <3>1, Zenon DEF Device
  <2>3. CASE ~d
    BY <1>1, <1>2, <2>1, <2>3 DEF sync_globals
  <2> QED
    BY <2>2, <2>3
<1>4. written = Device(texels, Colours, size, Listed)
  <2>1. written = [synced EXCEPT !.vertices = Listed]
    BY DEF queue_write_buffer, IInv, StartInv
  <2> HIDE DEF synced, written
  <2> QED
    BY <1>3, <2>1, Zenon DEF Device
<1>5. dev = Device(Glyphs, Colours, size, Listed)
  <2>1. written.textures = <<[layers |-> 1, texels |-> texels]>>
    BY <1>4 DEF Device
  <2>2. Len(written.textures) = 1 /\ written.textures[1].layers = 1
    BY <2>1
  <2>3. atlas.layers = 1 /\ atlas.host_data = Glyphs
    BY DEF IInv, StartInv
  <2>4. ensure_texture_parameters(written) = written
    BY <2>2, <2>3 DEF ensure_texture_parameters
  <2>5. dev = [written EXCEPT !.textures[1].texels = Glyphs]
    BY <2>2, <2>3, <2>4 DEF update_texture
  <2>6. [written.textures EXCEPT ![1] = [written.textures[1] EXCEPT !.texels = Glyphs]]
            = <<[layers |-> 1, texels |-> Glyphs]>>
    BY <2>1
  <2>7. dev = [written EXCEPT !.textures = <<[layers |-> 1, texels |-> Glyphs]>>]
    BY <2>5, <2>6
  <2> HIDE DEF written, dev
  <2> QED
    BY <1>4, <2>7, Zenon DEF Device
<1>6. setup_pipeline(dev, r).pipeline = [samples |-> SampleCount] /\ setup_pipeline(dev, r).texels = Glyphs
  BY <1>2, <1>5 DEF setup_pipeline, Device, Renderer
<1>7. /\ renderer' = [r EXCEPT !.globals_dirty = FALSE]
      /\ device' = dev
      /\ shown' = Frame(dev, r, s, attachments')
  BY DEF Draw
<1> HIDE DEF r, dev
<1>8. renderer' = Renderer(size, FALSE)
  BY <1>2, <1>7, Zenon DEF Renderer
<1>9. /\ attachments'.surface = size /\ attachments'.depth = size
      /\ attachments'.multisampled = create_multisampled_framebuffer(size)
  BY DEF Attachments
<1>10. dev.globals_ubo = size /\ dev.palette = Colours /\ dev.vertices = Listed
  BY <1>5 DEF Device
<1> QED
  BY <1>5, <1>6, <1>7, <1>8, <1>9, <1>10 DEF Frame, bg_pipeline

\* The conditions under which the callback is entered: what it is given
\* differs from the scene in what it says has changed.
Follows(s) ==
    /\ s \in Scene
    /\ ~s.size_changed => ~scene.size_changed /\ s.window_size = scene.window_size
    /\ ~s.changed => /\ ~scene.changed
                     /\ s.window_size = scene.window_size
                     /\ s.draw_background = scene.draw_background

LEMMA CallbackIInv ==
    ASSUME IInv, mode = "running", NEW s, Follows(s), Callback(s), window' \in Sizes
    PROVE  IInv'
<1>1. UNCHANGED <<atlas, palette, run>>
  BY DEF Callback
<1>2. /\ atlas = [host_data |-> Glyphs, layers |-> 1] /\ palette = Colours /\ run = Listed
      /\ s \in Scene
  BY DEF IInv, StartInv, Follows
<1>3. CASE s.size_changed /\ s.window_size = NoArea
  <2>1. mode' = "crashed" /\ scene' = s /\ shown' = shown
    BY <1>3 DEF Callback
  <2>2. TypeInv' /\ StartInv' /\ CopiesInv' /\ AttachmentsInv'
    BY <1>2, <2>1 DEF TypeInv, StartInv, CopiesInv, AttachmentsInv
  <2> QED
    BY <1>1, <2>1, <2>2 DEF IInv, PassIsValid, FrameIsCurrent, StillMeansDrawn
<1>4. CASE ~(s.size_changed /\ s.window_size = NoArea)
  <2>1. /\ mode' = mode
        /\ attachments' = Reconfigured(s)
        /\ scene' = [s EXCEPT !.size_changed = FALSE, !.render = FALSE,
                               !.changed = s.changed /\ ~s.render]
        /\ IF s.render THEN Draw(s) \/ SwapChainError
                       ELSE UNCHANGED <<renderer, device, shown, lost>>
    BY <1>4 DEF Callback
  <2>2. /\ scene' \in Scene
        /\ scene'.window_size = s.window_size
        /\ scene'.draw_background = s.draw_background
        /\ scene'.changed = (s.changed /\ ~s.render)
    BY <1>2, <2>1 DEF Scene
  <2>3. attachments' = Attachments(s.window_size)
    BY <2>1 DEF Reconfigured, Attachments, IInv, AttachmentsInv, Follows
  <2>4. TypeInv' /\ StartInv' /\ AttachmentsInv'
    BY <1>1, <1>2, <2>1, <2>2, <2>3 DEF TypeInv, StartInv, AttachmentsInv
  <2>5. CASE ~s.render
    <3>1. UNCHANGED <<renderer, device, shown, lost>>
      BY <2>1, <2>5
    <3>2. CopiesInv'
      BY <2>1, <3>1 DEF IInv, CopiesInv
    <3>3. PassIsValid' /\ FrameIsCurrent'
      BY <1>1, <3>1 DEF IInv, PassIsValid, FrameIsCurrent
    <3>4. StillMeansDrawn'
      BY <2>1, <2>2, <2>5, <3>1 DEF IInv, StillMeansDrawn, Follows, Scene
    <3> QED
      BY <2>4, <3>2, <3>3, <3>4 DEF IInv
  <2>6. CASE s.render /\ SwapChainError
    <3>1. UNCHANGED <<renderer, device, shown>> /\ lost'
      BY <2>6 DEF SwapChainError
    <3>2. CopiesInv'
      BY <2>1, <3>1 DEF IInv, CopiesInv
    <3>3. PassIsValid' /\ FrameIsCurrent' /\ StillMeansDrawn'
      BY <1>1, <3>1 DEF IInv, PassIsValid, FrameIsCurrent, StillMeansDrawn
    <3> QED
      BY <2>4, <3>2, <3>3 DEF IInv
  <2>7. CASE s.render /\ Draw(s)
    <3>1. /\ renderer' = Renderer(s.window_size, FALSE)
          /\ device' = Device(Glyphs, Colours, s.window_size, Listed)
          /\ shown' = [size         |-> s.window_size,
                       depth        |-> s.window_size,
                       multisampled |-> create_multisampled_framebuffer(s.window_size),
                       pipelines    |-> {[samples |-> SampleCount]},
                       background   |-> s.draw_background,
                       resolution   |-> s.window_size,
                       texels       |-> Glyphs,
                       palette      |-> Colours,
                       vertices     |-> Listed]
      BY <1>2, <2>3, <2>7, DrawIsCurrent
    <3>2. s.window_size \in Sizes
      BY <1>2 DEF Scene
    <3>3. CopiesInv'
      BY <3>1, <3>2 DEF CopiesInv
    <3>4. PassIsValid'
      BY <3>1 DEF PassIsValid, create_multisampled_framebuffer
    <3>5. FrameIsCurrent'
      BY <1>1, <1>2, <3>1 DEF FrameIsCurrent, Listed, placement_for_glyph
    <3>6. StillMeansDrawn'
      BY <2>2, <3>1 DEF StillMeansDrawn
    <3> QED
      BY <2>4, <3>3, <3>4, <3>5, <3>6 DEF IInv
  <2> QED
    BY <2>1, <2>5, <2>6, <2>7
<1> QED
  BY <1>3, <1>4

-----------------------------------------------------------------------------

LEMMA NextIInv == IInv /\ [Next]_vars => IInv'
<1> SUFFICES ASSUME IInv, [Next]_vars PROVE IInv'
  OBVIOUS
<1>1. scene \in Scene /\ window \in Sizes
  BY DEF IInv, TypeInv
<1>2. CASE Main
  BY <1>2, StartUpIInv
<1>3. CASE Resized
  <2>1. mode = "running" /\ Callback(WithSize(window)) /\ window' \in Sizes
    BY <1>1, <1>3 DEF Resized, At
  <2>2. Follows(WithSize(window))
    BY <1>1 DEF WithSize, Follows, Scene
  <2> QED
    BY <2>1, <2>2, CallbackIInv
<1>4. CASE MainEventsCleared
  <2>1. mode = "running" /\ Callback(scene) /\ window' \in Sizes
    BY <1>1, <1>4 DEF MainEventsCleared, At
  <2>2. Follows(scene)
    BY <1>1 DEF Follows
  <2> QED
    BY <2>1, <2>2, CallbackIInv
<1>5. CASE RedrawRequested
  <2>1. mode = "running" /\ Callback([scene EXCEPT !.render = TRUE]) /\ window' \in Sizes
    BY <1>1, <1>5 DEF RedrawRequested, At
  <2>2. Follows([scene EXCEPT !.render = TRUE])
    BY <1>1 DEF Follows, Scene
  <2> QED
    BY <2>1, <2>2, CallbackIInv
<1>6. CASE RedrawEventsCleared
  <2>1. mode = "running" /\ Callback(scene) /\ window' \in Sizes
    BY <1>1, <1>6 DEF RedrawEventsCleared, At
  <2>2. Follows(scene)
    BY <1>1 DEF Follows
  <2> QED
    BY <2>1, <2>2, CallbackIInv
<1>7. ASSUME NEW background \in BOOLEAN, KeyboardInput(background) PROVE IInv'
  <2> DEFINE s == [scene EXCEPT !.changed = TRUE, !.draw_background = background]
  <2>1. mode = "running" /\ Callback(s) /\ window' \in Sizes
    BY <1>1, <1>7 DEF KeyboardInput, At
  <2>2. Follows(s)
    BY <1>1 DEF Follows, Scene
  <2> QED
    BY <2>1, <2>2, CallbackIInv
<1>8. CASE NoRedraw
  BY <1>1, <1>8, StutterIInv DEF NoRedraw
<1>9. CASE CloseRequested
  BY <1>1, <1>9, StutterIInv DEF CloseRequested, At
<1>10. ASSUME NEW size \in Sizes, WindowIsSized(size) PROVE IInv'
  BY <1>10, StutterIInv DEF WindowIsSized
<1>11. CASE WindowIsExposed
  BY <1>1, <1>11, StutterIInv DEF WindowIsExposed
<1>12. CASE UNCHANGED vars
  BY <1>1, <1>12, StutterIInv DEF vars, loopVars
<1> QED
  BY <1>2, <1>3, <1>4, <1>5, <1>6, <1>7, <1>8, <1>9, <1>10, <1>11, <1>12
     DEF Next, EventLoop, Environment

\* Every pass of the window has attachments and pipelines that fit: no order
\* of resizing, keys, lost frames and redraws has wgpu end the program.
THEOREM PassesAreValid == Spec => []PassIsValid
<1>1. IInv => PassIsValid
  BY DEF IInv
<1> QED
  BY InitIInv, NextIInv, <1>1, PTL DEF Spec

\* Every frame is drawn for its own size, from the texture, the palette and
\* the vertices the font cache holds, through a bind group made only once.
THEOREM FramesAreCurrent == Spec => []FrameIsCurrent
<1>1. IInv => FrameIsCurrent
  BY DEF IInv
<1> QED
  BY InitIInv, NextIInv, <1>1, PTL DEF Spec

\* An event loop that sees nothing left to do shows the size and settings
\* of the window, unless its last frame was lost.
THEOREM NoChangeIsForgotten == Spec => []StillMeansDrawn
<1>1. IInv => StillMeansDrawn
  BY DEF IInv
<1> QED
  BY InitIInv, NextIInv, <1>1, PTL DEF Spec
=============================================================================
