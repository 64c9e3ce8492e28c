# A verification development of helicoid

helicoid is a client and server front end for the Helix editor. The server lays
the editor's view out as a tree of *blocks* (boxes and shaped texts), keeps a
*shadow* of what its client has, and sends the differences; the client keeps the
blocks in a *block manager* and draws them. A second renderer, on the GPU, keeps
glyphs in textures; the window of `helicoid-wgpu` uses it. This directory holds
TLA+ modules of that system, the TLC configurations that check them and the
theorems that TLAPS proves about them.

## 1. Inventory

| component | source (under `src/`) | state it keeps | operations |
|---|---|---|---|
| Block manager | `helicoid-protocol/src/block_manager.rs`, `gfx.rs` (paths) | nested maps of blocks; per box the layer vectors; per child the layer it is filed under | new, update, remove, move of blocks; reset; resolving a path; hashing and walking the tree |
| Shadow blocks | `helicoid-protocol/src/shadowblocks.rs` | children and their places, pending removals, hashes of what was sent | set, remove, move a child; `client_transfer_messages` |
| Transfer buffer | `helicoid-protocol/src/transferbuffer.rs` | removals, additions, moves by path | add, clear, serialise into packets |
| Center model | `helicoid-helixserver/src/center.rs` | generation, paragraph slots, layout of the last frame | `pre_update`: prune, lay out, match, shape, sync |
| Status line, editor view | `statusline.rs`, `editor_view.rs` | three texts; extents and scales last seen | `initialize`, `pre_update`, `resize`, `layout` |
| Server connection, compositor | `server.rs` | viewport, enclosure and its hash, trees, transfer buffer and the one lent out | `event_loop`, `handle_client_message`, `sync_screen`, `maintain_enclosure` |
| Editor | `helicoid-helixserver/src/editor.rs` | Helix's editor behind a mutex, an update broadcast | open, lock; the broadcast is never sent |
| Packet framing | `helicoid-protocol/src/bridge_logic.rs` | a buffer, an offset, a state of five | `next_read_buffer`, `mark_data_read`, `extract_archive` |
| TCP bridge | `tcp_bridge_async.rs` (`tcp_bridge_sync.rs`) | two joined halves per end, channels of 32 messages, a close channel | listen, accept, connect, send, receive, close |
| Client session | `helicoid-client/src/editor/editor.rs`, `window/mod.rs`, `redraw_scheduler.rs` | channels, the block tree, the viewport, a queued frame | `ensure_connected`, window events, `peek_and_process_events`, `draw_frame` |
| Skia block renderer | `helicoid-client/src/renderer/block_renderer.rs` | kept pictures of buffered boxes, each under a hash | `render_cached` |
| Texture packing, atlases | `helicoid-gpurender/src/font/texture_map.rs`, `texture_atlases.rs` | free rectangles, tiles, locations with generations, texels | insert, evict, put back, clear, look up, upload |
| Font cache, GPU renderer | `helicoid-gpurender/src/font/fontcache.rs`, `renderer/block_renderer.rs` | runs of text blocks, palette, pipeline, bind group, buffers | `render_run`, `update_cache`, `setup_resources`, upload |
| Window of the GPU renderer | `helicoid-wgpu/src/main.rs` | scene with three flags, surface, depth and multisample textures | event loop, `update_inputs`, a frame |
| Shaping cache | `helicoid-protocol/src/caching_shaper.rs`, `center.rs` (threads) | fonts behind a reader/writer lock | shape, cache fonts |
| Input, wire types, Neovide's code, test server | the other files | mostly none of their own | data and event plumbing |

**Interaction.** A client message (a key, a new window size) makes the
connection's event loop call `sync_screen`. It updates the shadow trees
(`pre_update` of each model, which shapes new paragraphs in a pool of threads),
collects what is outstanding in one transfer buffer, and hands that to the
sender task, which serialises removals, then additions, then moves, each parent
path a packet, onto TCP. The client's receiver task reassembles packets and
queues messages; the UI thread takes them from the queue sixty times a second
and applies them to the block manager before it draws, reusing kept pictures.
Nothing is acknowledged: the server's idea of the client is what it has sent.

**What is hard.** One fact is kept in two places (layer vectors and layer marks;
layout and slots; shadow and client; packer and glyph contents; memory and
device), with `swap_remove` on the vectors; ids are recycled while messages
naming them may be on their way; what is sent and what is redrawn is decided by
cached hashes; a frame is several packets and may be drawn half way; both halves
of a connection run in one task; both ends wait when their channels are full;
sockets take only so much; connections end at any time, and the client may go on
with the tree of the old one; an eviction moves glyphs under vertices that exist.
`PROJECT.json` lists the hazards, each at its line, with the properties that
would catch them.

**What makes each component correct.**
- Block manager: the two records of the drawing order agree
  (`LayersConsistent`); a box always has its container and an unbroken path
  (`ContainersPresent`); nothing outlives its block (`NothingLeftBehind`); and
  altogether it is the tree the server thinks of (`ImplementsTree`), on which
  each message does what it says and nothing else (`DoesWhatItSays`).
- Center model in its view: layout, slots and shadow children describe the same
  paragraphs (`ChildrenMatchLayout`); the `unwrap`s of the next frame succeed
  (`NextFrameUnwraps`); ids do not leak (`UnusedIsPruned`); as many blocks are
  kept as can be (`ReusesAllItCan`), but none of another font size (`OneSize`);
  the boxes of every frame fill the window (`LinesEndAtStatus`).
- Server and client together: no message is sent before its addressee
  (`NothingSentTooEarly`); nothing stale stays on the screen
  (`StaleLinesGoAway`, `NoOldText`); what is sent arrives (`FirstUsesArrive`,
  and `AllLinesArrive` and `StatusArrives`, which the code does not satisfy); a
  kept picture is reused for the same frame only (`WholePicturesAreRight`, and
  `FrameIsShown`, which the code does not satisfy).
- Packet framing: state, offset and buffer agree after every partial read
  (`AssertionsHold`); no byte is lost or taken twice (`NothingLost`); altogether
  it is a queue of messages (`ImplementsQueue`), in which every message arrives
  (`EverythingArrives`).
- Session over the bridge: one attempt to connect at a time (`OneConnection`), a
  viewport before any key (`ViewportFirst`), no frame older than one taken in
  (`NeverGoesBack`), a lost connection is given up (`LossIsNoticed`), the UI
  thread comes back from its sends (`UiComesBack`), and the window shows a frame
  of its size in the end (`SizeIsShown`); `CloseIsTold` does not hold.
- Glyphs: tiles lie apart (`TilesApart`), no texel is lost (`NothingWasted`),
  packer and contents agree (`PackerAgrees`), kept vertices (`RunsStayRight`) and
  the texels they take (`PicturesAreRight`) are those of their glyphs.
- Shaping: no font is inserted twice (`InsertedOnce`, an assertion of the code), a
  text gets the fonts and runs it would get alone (`FontsOfTheText`), all get
  rendered (`AllRendered`).
- GPU window: every pass is valid (`PassIsValid`) and drawn from current copies
  (`FrameIsCurrent`); no change is forgotten (`StillMeansDrawn`, `SizeIsDrawn`).

## 2. Modules

| module | what it is |
|---|---|
| `BlockTree` | abstract specification: a tree of blocks that are put, changed, removed and moved |
| `BlockManager` | the block manager in detail; implements `BlockTree` (`Tree`, `ImplementsTree`) |
| `WrappingAge` | `wrapping_age` on words of any width |
| `CenterModel` | the center of the editor view; extends `WrappingAge` |
| `EditorView` | the window's size and scale, the layout of the view, and the center in it; extends `CenterModel` |
| `ScreenSync` | one server connection and its client: extends `CenterModel`, adds the shadow text blocks, the order of the messages and a channel, and instantiates `BlockTree` as the client |
| `ScreenDraw` | what the client draws and keeps while those messages arrive; extends `ScreenSync` |
| `MessageQueue` | abstract specification: messages come out whole, in order, once each |
| `PacketFraming` | the write of the sender, a stream cut anywhere, the receive processor; implements `MessageQueue` |
| `Bridge` | both ends of the asynchronous TCP bridge, for any number of connections |
| `Session` | the UI thread, the connecting task, the listener and the connection states, over `Bridge` |
| `TextureMap` | the packing of rectangles, as operators |
| `GlyphCache` | one font cache, its atlas and the runs of text blocks; extends `TextureMap` |
| `GlyphTexture` | the texels behind it; extends `GlyphCache` |
| `Shaping` | the threads that shape a frame's paragraphs over one cache of fonts |
| `FontRenderer` | what the font cache has in memory and on the device |
| `WgpuWindow` | the event loop and the frames of `helicoid-wgpu`; extends `FontRenderer` |
| `MC...` | the instances TLC checks |
| `..._proofs` | the theorems and their proofs |

### BlockManager and the code

A `Block` is a full id (parent path and id), so the tree of ids is a constant
and the variables say which blocks are there: `wire` is the description,
`interior` says which have a container, `layer` is `ContainerBlock::layer`,
`layers` are the layer vectors of every container, `entry` is the entry of the
client in `Manager::containers`. `handle_block_update` loops over the elements
of a change; an action is one iteration, so the invariants hold within a message
as well. The nested maps drop a subtree with the value that owned it: `Below`.

- `UpdateBlock`: `NewRenderBlocks` with `update`, the block present.
- `AddBlock`: otherwise; a new block value, with the layer of the old one.
- `RemoveBlock`, `MoveBlock`: `remove_blocks` with mask 0 (another mask is a
  `todo!()` and nobody sends one), `update_location`.
- `NothingToDo`, `DropChange`: the early returns. An empty path makes the entry
  even then, and an unresolvable one changes nothing.
- `Reset`: the client lost the server.

One conjunct of `UpdateBlock` is about the environment: the servers never change
a block into another kind while they keep updating it. (`update_wire` would
leave the container as it was.)

### CenterModel, EditorView and the code

`pre_update` is one action: prune with the generation of the frame before,
advance the generation, lay out, match in document order, remove what is left,
set the new blocks, move the moved ones. A text stands for its layout hash (two
lines with equal hashes are taken for equal by the code as well), a location for
the line number. `OfflineLayout` keeps two habits of `render_document`: the first
paragraph is empty, and the last line is never flushed. A document is what is in
view: up to `MaxLines` lines, empty lines and an empty view among them.
`client_location` of a layout entry always equals its `location` between frames
and has no variable. Words have `4 * Quarter` values; the subtraction is the
wrapping one of a release build.

`EditorView` puts the center where it lives. `sync_view`, its `sync_screen`, runs
`maintain_enclosure`, which resizes the tree when the *extent* is not the one
last sent (the scale factor is not compared), then the update of the boxes:
`EditorModel::pre_update` lays out when its block or its line height has
changed, and the center renders as many lines as fit. A line is a text with the
font size it was laid out for, because the layout hash takes that in. Lengths
are whole numbers and the unscaled sizes even, so that the height of the status
line (1.5 times its font) is whole.

### ScreenSync, ScreenDraw and the code

`sync_screen` is one action because the editor is locked and the transfer buffer
is filled before anything is sent; the client then takes one change at a time
(`ReceiveNew`, `ReceiveUpdate`, `ReceiveRemove`, `ReceiveMove`,
`ReceiveInVain`), interleaved with later frames. `Messages` has the order of
`TransferBuffer::serialize`. Boxes are sent in every frame, as the code never
records a hash of what the client has of them; the enclosure is sent when it is
new or the window was resized. (`maintain_enclosure` runs a second time within
`sync_screen`, where it finds nothing to do.) `pending_removal` lives in
`CenterModel`, as the center's container is where children are removed. Of the
three texts of the status line the left one is modelled; the header and the
margins, boxes that never get contents, are left out.

A connection ends in one of two ways for the client's tree. `ResetTree`: the
client finds the receiver disconnected and starts from an empty tree
(`peek_and_process_events`). `KeepTree`: it finds the sender closed, before that,
in `ensure_connected`, drops both channels and does nothing to the tree, so that
the next server's changes go into the tree of the last one. `old_frames` and
`leftover` are history variables: how many frames a kept tree has behind it (a
bound), and which paragraphs an earlier connection has left in it and no change of
this one has named.

`ScreenDraw` follows the client from one packet to the next: a packet has the
changes of one kind under one parent path, and the window may draw between any
two. `hash_block_recursively` goes through the lists the boxes were *sent* with,
the walk (`Picture`) through the *layers*, which only moves fill; `rendered` is
the picture a renderer keeps under its hash, of every text and of the boxes that
are sent as buffered (`Cached`). A picture kept of a box has the pictures in it
that were reused when it was made. A kept tree keeps its pictures. `Whole` marks
the pictures made between frames and of whole pictures, `strays` the leftover
paragraphs in a picture; the code has no such marks.

### PacketFraming and the code

`Start` says where in the stream the frame of each packet begins. A byte *is* its
position there, so a byte out of place shows, and a header says its length only
if it is read from the right place: anything else reads as `Garbled`, one length
that is not zero and stands for whatever the bytes would say. `Send`
is one turn of the sender's loop, for one packet or for the several of a
transfer buffer; what the socket has no room for (`Room`) is discarded as the
code does, and `short` is a history variable that says that this has happened. `Arrive` is the network, which shows the receiver any part of the
stream. `next_read_buffer`, `extract_archive` and the two outcomes of a read
(`Read`, `WouldBlock`, each with its `mark_data_read`) are the receiver, with the
functions' own states; `slice` is the length of the slice that was handed out.
The 12 bytes before the header and deserialising are left out, and so is the
move of bytes read beyond a packet, which `AssertionsHold` shows never to exist.

### Bridge, Session and the code

`end[s][c]` is what side `s` has of connection `c`: its task, its two halves,
the application's hold on the channels, the channels, the socket. A half that
loops without yielding `spin`s, and its partner in the same task does not run.
A message is whole (`PacketFraming` is about the cuts), and one a half has read
from the socket but cannot hand over yet counts as still on the wire. The wire is
bounded (`SocketCap`): `SendWaits` is the send half in `write(..).await` on a full
socket, where it hears neither of its channel nor of the close channel. A socket
closed with unread data is reset, and a reset drops what is under way. A
connection attempt that fails changes nothing but the time.

The UI thread does one thing at a time: a window event, or the timer's
`draw_frame` in its steps `poll`, `redraw`, `draw`; each begins with
`ensure_connected` (`StillConnected`, `TakeChannels`, `Reconnect`,
`StillConnecting`), and what it sends goes through `UiSend`, which blocks.
`PeekAndProcess` empties the channel at once. A frame is one message here, known
by the viewport it is laid out for, so that frames of two viewports of one size
stay apart; that it is several packets is the subject of `ScreenDraw`. The window
system reports a size before any key. Modifier keys, the mouse and text input,
which the server ignores, are left out.
`ServerStops` and `ServerStarts` are a restart; `ClientExits` is final.

### TextureMap, GlyphCache, GlyphTexture and the code

`TextureMap` is `insert_single`: the candidate that fits best, cut in two or
three by the new tile. `GlyphCache` is `render_run`: look up, and if a glyph is
missing, `update_cache` glyph by glyph (`AlreadyPresent`, `InsertGlyph`), with
`evict_outdated` between (`Evict`, `PutBack`, `Evicted`), then the second
`fill_render_run` (`FillAgain`). `Panic` collects the places where the code
gives up. What is equal under `insert_order` is taken in any order, as it comes
out of a hash map. `lastEviction` is a history variable: the field the code has
for it keeps its first value. `GlyphTexture` adds the texels: a glyph is
rendered with its own size into its tile, which after an eviction is larger than
it; `clear_location` clears as many rows and bytes as the padded tile has, from
a place inside it. The padding of a tile is the number of bytes of a texel; it is
1 in the run, as it is for gray glyphs.

### Shaping and the code

A thread takes a paragraph (`ensure_rendered`), caches the fonts of its runs one
by one (`cache_fonts`, `cache_font_for_index`: an upgradable read; `load_keyed`,
`upgrade`, `insert`: the file is read, the lock upgraded), then shapes under a
read lock (`shape`, `rendered`). The lock's rules are those of parking_lot: one
upgradable reader, readers beside it until it wants to upgrade. What a family
has of a cluster is the constant `Status`; a font that is not loaded has the
default font in its place (`GlyphsOf`). What is kept of a text is two things: the
font of the glyphs of every cluster (`Shaped`), and the run of the text recorded
with them (`Recorded`), which is the one at the index the font has among the fonts
of its own run. Where the text has no run at that index (`InRange`) the thread
panics (`out_of_range`), and the panic reaches the task of the connection through
`spawn_blocking(..).await.unwrap()`; the next connection makes a shaper and
paragraphs of its own (`next_connection`). `default_parameters`, which takes the
read lock twice, runs while no thread shapes and is left out.

### FontRenderer, WgpuWindow and the code

`FontRenderer` has what the font cache keeps in memory (texture, palette, text,
squares), what the device has, and the functions that copy the one to the
other. A copy is one value, clear or current, because the text is rendered once;
`device.textures` is the list of textures the atlas has created, and the bind
group an index into it. `WgpuWindow` is `main`: four steps up to the event loop,
then every event through `update_inputs` and the rest of the callback
(`Callback`), which reconfigures the surface, clears the flags and draws.
`Main` runs before any event can be reported, but the window may already change
its size. A surface of no area is refused by wgpu, which ends the program
(`crashed`): a rule of the library, taken from its documentation of `configure`.
Zoom, scroll and stroke width, whose drawing is commented out, are left out;
their keys mark the scene as changed.

## 3. Runs

| run | what it asks | bounds | result |
|---|---|---|---|
| `block_manager` | any sequence of changes | a window with two children, one with a child; a box and a text; two layers, two locations | pass, 4,322 states |
| `center_model` | any documents and windows | 3 lines, 2 words and the empty line, MAX_AGE 1, ages of 8 values, 5 frames; windows 6x14 at scale 1 and 2, and 0x9 at 2 | pass, 20,784 states |
| `screen_sync` | frames against the client's handling and drawing, the tree reset or kept | 3 lines, 1 text and the empty line, MAX_AGE 0, 3 frames, a new frame while at most 1 change is on its way, 1 frame of an old connection in a kept tree; one buffered box, and all texts | pass, 679,263 states |
| `screen_reuse` | does every line arrive? | 2 lines, 5 frames | `AllLinesArrive` violated |
| `screen_status` | does the status text arrive? | 2 lines, 5 frames, 2 status texts | `StatusArrives` violated |
| `torn_frame` | does the window show the frame that has arrived? | as `screen_sync` | `FrameIsShown` violated |
| `packet_framing` | packets over any partial reads and writes | 3 packets, headers of 4 bytes, a socket that takes 9 bytes, 2 for a length read from anywhere else | pass, 6,405 states |
| `session` | connecting, sending, drawing, restarts | 2 connections, channels and sockets of 1; 2 sizes, 2 key events and 1 fault, or 1 size, 9 key events and no fault | pass, 224,192 states |
| `lost_connection` | does the sender hear of the end? | 1 connection, no keys, 1 fault | `CloseIsTold` violated |
| `glyph_cache` | runs drawn in any order | 5 glyphs of two sizes, 2 blocks, 5 texts, 8x8 texels, padding 1, half is evicted, 4 updates | pass, 36,259 states |
| `shaping` | threads over one font cache | 3 threads, 3 paragraphs, 2 families, 2 sizes, 2 texts of which one panics, in parallel from 2 paragraphs on | pass, 118,120 states |
| `wgpu_window` | events in any order | 3 sizes, one of them none, 4 samples | pass, 1,579 states |

*Why the bounds are enough.*

- `block_manager`: four blocks give every shape the handlers distinguish: a
  block at the empty path, a box and a leaf beside each other in one layer
  vector (so `swap_remove` moves something), and a subtree two levels deep.
- `center_model`: three lines give a frame two paragraphs besides the empty one,
  which is what it takes to swap two, keep one and drop one, and to use a text
  twice; with MAX_AGE 1 and five frames an id is used, aged, pruned and used
  again, and the frames pass the quarters in which `wrapping_subtract_u16` shifts
  its operands. One window differs from another in its scale only, one in both,
  and one is too narrow for a text.
- `screen_sync`: with a backlog of 1 the next frame starts before the last change
  of the one before is taken in, and drawing happens between any two packets;
  in three frames with MAX_AGE 0 an id is used, removed, pruned and used again.
  One text and the empty line tell a changed line from one that stayed. A tree is
  kept once, after one frame, whole or in part, which leaves lines that the next
  connection names and lines that it does not; a second time or after a second
  frame the client has the same paragraphs in it. The editor's box is buffered,
  with both kinds of boxes in it; `torn_frame` has two buffered boxes, one in the
  other. More at once (a longer backlog, more frames, a second buffered box) are
  too many states here; the theorems have no such bounds.
- `packet_framing`: a short packet, one whose contents are longer than its
  header, and one read into a buffer that is longer than it needs. The socket
  takes any one of the frames whole when it is empty, and not two: a run with short
  writes is one in which the receiver lags behind, and one without is there too.
- `session`: two connections are one that is lost and one after it; channels and
  sockets of one message are full as soon as anything waits (the code has 32, and
  a socket some kilobytes, which takes longer to fill and nothing else); one fault
  falls between any two steps. Nine key events in a window of one size are what it
  takes to fill everything between the UI thread and the server's state both ways,
  and to have one left to wait: the run reaches `CircleClosed`. `MaxConns`,
  `MaxFaults`, `FewKeys` (how much is typed in a session that also has a fault or a
  second size) and the length of `Typed` bound the run, not the code.
- `glyph_cache`: two of the three tall glyphs fit, and two small ones beside
  them, so that an eviction is needed, happens with glyphs to put back, and
  leaves a tile larger than its glyph. The code evicts 8 %, which of the few
  glyphs here would be none; `EvictPercent` is 50 for that reason.
- `shaping`: the code shapes in parallel from 9 paragraphs on;
  `PARALLEL_OVER` is 1 so that three threads and three paragraphs show it, two
  of the threads wanting the same font while the third shapes. One text has two
  runs of two sizes, the first of two fonts; the other has two fonts in its only
  run, which is the shortest that panics.
- `wgpu_window`: the size the program assumes, another, and none. There is no
  other bound; the state space is finite.

`MaxLines`, `MaxGeneration`, `MaxBacklog` and `MaxOldFrames` are bounds of the
models, not of the code.

*Deadlock* is checked except where the system may stop: the client exits for
good and the UI thread may stand in `blocking_send` when its bridge spins at the
end of the stream (`session`, `lost_connection`); a panic ends the renderer
(`glyph_cache`); a window is closed or has crashed (`wgpu_window`).

**What the violations show.**
- `screen_reuse`: `pending_removal` (`shadowblocks.rs:593-596`) is never
  cleared. A removed id is pruned, given to a new line, set and sent; the next
  frame repeats the old removal first, and the client loses the line. The shadow
  text block counts as sent, so it does not come back. `FirstUsesArrive` shows
  that this is the only way to lose a line.
- `screen_status`: `ShadowMetaTextBlock::set_wire` keeps the old hash
  (`shadowblocks.rs:757`), so the status line keeps its first text on the
  client until its place changes.
- `torn_frame`: drawn between the additions and the moves of a frame, a buffered
  box gets a picture of the old places under the hash of the new ones, because
  the hash goes through the new list and the walk through the old layers. When
  the moves arrive the hash is the same and the picture is reused, until the box
  changes. `WholePicturesAreRight` shows that drawing between packets is what it
  takes.
- `lost_connection`: at the end of the stream `try_read` returns `Ok(0)`, which
  the receive loop takes for data; it reads again without an await
  (`tcp_bridge_async.rs:303`), so the sender, in the same task, is never told.
  Only a reset, which a write would have had to cause, ends it.

**Where a property stops.** Three properties of passing runs end where the code
stops keeping its promise, and say so in their own text:
- `packet_framing`: `TcpBridgeSend::process` calls `write` once
  (`tcp_bridge_async.rs:246`) and throws away what the socket did not take. The
  receiver then completes the packet with the beginning of the next one and reads a
  length from wherever it is. `NothingLost`, `ImplementsQueue` and
  `EverythingArrives` speak of the time up to the first short write (`short`), and
  are violated without that condition; `AssertionsHold` has no condition.
- `session`: `UiComesBack` and `SizeIsShown` except `CircleClosed`, in which the UI
  thread waits to send before it polls, the server's state waits to send before it
  receives, and in each direction the send half waits on a full socket and the
  receive half on a full channel. The run reaches it, and shows that nothing less
  than all of it stops the UI thread on a sound connection.
- `screen_sync`: `StaleLinesGoAway`, `NoOldText` and `WholePicturesAreRight` except
  the lines that an earlier connection left in a tree that was kept (`leftover`),
  for as long as the connection has not named them.

**Fairness.**
- `packet_framing`: `Arrive`, as TCP delivers what it took while the connection
  lasts, and `Receive`, as the runtime polls the task of a readable socket.
  Nothing of the sender: a packet that is never written need not arrive.
- `session`: every half and end of a task (the runtime polls what is ready), the
  arrival of a reset, connecting, listening and accepting (each loops), serving,
  and the steps of the UI thread (a timer fires sixty times a second). Nothing
  makes a user act, a process end, or a server start. The liveness properties
  except a connection in trouble (`Troubled`) or no connection left within the
  bound (`OutOfConns`): what the code does then is `lost_connection`'s subject; and
  the circle of waits above.
- `shaping`: each thread (the pool runs it, and parking_lot's lock is fair in
  the end). Nothing makes the next connection come.
- `wgpu_window`: `Main` and `EventLoop` (`ControlFlow::Poll`); the user and the
  window system owe nothing.

The other runs have no liveness property and assume no fairness: their
properties about arrival say what holds when the channel is empty.

**Mutants.** Each property of a passing run is paired with a changed definition
that a plausible bug would give, kept beside the original and named after it
(`RelocateFirst_Last`, `SendRuns_AfterReceive`, ...); TLC finds the property
violated with it.

## 4. Proofs

`tlapm` checks every theorem named here to its last leaf. They hold for every
value of the constants that fits the modules' ASSUMEs, which the runs evaluate:
parents and ancestors are those of a forest; the ids of boxes are not those of
paragraphs; markers are not values; sizes are
numbers; frames of the stream have a header and an archive; the oldest age that
matters, MAX_AGE + 1, is no more than a quarter of a word (11 of 16,384 in the
code); the font has a height. The theorems on `SlotsStayFew` and on the screen
assume one thing more, in their statement: `MaxGeneration \in Word`.

**BlockManager_proofs.** For every tree of ids, every set of layers, locations
and descriptions the four invariants of the manager hold (`TypeCorrect`,
`LayersStayConsistent`, `ContainersStayPresent`, `NothingStaysBehind`). None of
them is inductive alone: that a removal takes the right entry from the right
vector needs `LayersConsistent`, which for a block that is added needs that no
mark was left behind (`NothingLeftBehind`), which needs that a removed box takes
everything below it along, which rests on the unbroken paths of
`ContainersPresent`. Their conjunction `IInv` is inductive: the proof has a lemma
per handler, and lemmas about the vectors: `SwapRemove` and `RemoveFirst` keep a
sequence of slots, drop exactly one id and keep the others distinct;
`RelocateFirst` changes one location and no id. `ManagerImplementsTree` is the
refinement: under the mapping that reads a place off the layer vectors, every
action of the manager is a step of `BlockTree` or leaves the tree alone;
`swap_remove` moves entries without moving blocks. The same lemmas, one per
handler, prove `HandlersDoWhatTheySay`: an update is a `Change` of that block, an
addition a `Put`, a removal a `Remove`, a move a `Move` to that place.

**EditorView_proofs.** The center and the view around it. For documents of any length, any words,
fonts, windows and word size: `LinesHaveTheirBlocks`, `FramesUnwrap`,
`FramesReuseBlocks`, `SlotsStayFew`, `LinesStayInTheCenter`, `LinesHaveOneSize`.

- *Within a frame*, the lines are matched by a recursive function. `Matching`
  says what holds after n of them: the layout says what the entries say
  (`LaysOut`); old paragraphs are in the layout or left over, none in both
  (`Divides`); the slots of the layout have the new generation and the others
  what pruning left (`Marks`), and there are more of them only when none was free
  (`FillsGaps`); what is not sent as new the client has, with its text and place
  (`Tells`); a text is sent only when no paragraph with it is left over
  (`Reuses`). `ReuseKeepsMatching` and `NewKeepsMatching` are the step of the
  induction. The induction itself is over the least number of lines for which
  `Matching` fails (`LeastNumber`, `UpTo`), which exists because finite sets are
  well-founded under inclusion.
- *Between frames*, `FrameInv` holds: paragraphs in use have a slot of the last
  generation (`InUse`), no slot is older than MAX_AGE + 1 (`Young`), and the
  blocks are those of the layout (`Blocks`). The second is what `FramesUnwrap`
  needs: up to a quarter of the words the age is the difference
  (`AgeIsDifference`), also where `i16` or `u16` wrap around. `AgesSurviveTheWrap`
  is the same of a generation that has itself wrapped around (the code lets it
  saturate before that); `AgesOverflowAtQuarters` says which ages overflow in a
  debug build: those across the end of the first quarter or of the second.
- `SlotsStayFew` adds that of each generation there are no more slots than a frame
  has lines (`FewInEach`). It holds while the generation counts, so the theorem
  assumes `MaxGeneration \in Word`: the generation saturates after 65,535 frames,
  and then it is false.
- The view adds what its short cuts rest on: the boxes fill the extent the root
  was laid out for (`BoxesFillRoot`), which is the window's although the enclosure
  and the layout are each skipped when their own last size is the same
  (`RootIsWindow`).

**ScreenSync_proofs.** For any number of frames on their way, documents of any
length and connections that end at any time, with the client's tree reset or kept:
`MessagesFindTheirBlocks`,
`OldLinesLeave` and `NewIdsArrive`. What a change meets at the client depends on
all that was sent before it, so none of these is inductive. `ScreenInv` relates the
three places a block is at. `CenterInv` is the server's: `FrameInv` of the center,
few slots of each generation, and that what the shadow blocks hold was sent.
`TreeInv` is the client's: no block without the boxes around it. `ChannelInv` is
between them, position by position:

- a change comes after the boxes around its block, unless the client has them
  (`Led`), a move after its block, which is not removed in between
  (`MovesFollow`), and once the enclosure was sent all boxes were (`BoxesCome`).
  The last is needed because the enclosure is not sent again;
- only ids that the server knows it removed are removed (`RemovalsAreOld`); as
  boxes and the status text never are, what is below them stays;
- the last text and the last place that is said of a paragraph is the one it
  has (`LastTextIsRight`, `LastPlaceIsRight`), and one it has not got yet is on
  its way (`TextsCome`, `PlacesCome`, `StaleLinesGoAway`). The places, and that
  texts arrive, are claimed only of ids never removed: the other case is the
  finding of `screen_reuse`;
- a line that an earlier connection has left is named first as a new one, or as one
  that goes (`LeftoverIsNew`), so the first change that names it makes it one of
  this connection. `OldLinesLeave` is about all lines but those never named.

A frame is five sequences, one after the other, made from sets in an order that is
not fixed; `MessagesAre` says what every such frame has in common (`IsFrame`), and
the rest of the proof sees nothing else of it. `FrameKeepsChannelInv` is the step
of the server, `ReceiveKeepsInv` that of the client. The theorems assume
`MaxGeneration \in Word` because of `SlotsStayFew`: ids are `1 .. MaxSlots`, the
client's tree is a function on them, and after the generation saturates there are
more. `DrawingOnlyLooks` is that `ScreenDraw` implements `ScreenSync` (packets,
kept pictures and drawing leave it alone), so all three hold of the client that
draws, which is where the run checks them.

The pictures of `ScreenDraw` rest on that: `NoTextIsOld` and
`WholePicturesStayRight`, for any documents and status texts, any choice of
buffered boxes, any number of frames on their way, and a window that draws between
any two packets. A hash goes through the lists, a picture through the layers, and a
list arrives some packets before the moves that carry it out; so neither property
says anything about the state after a step unless one knows what is still on its
way. `DrawInv` is `ScreenInv` and two more:

- `AheadInv`: the tree is *foreseen* change by change (`Foresees`: a function from
  the positions of the channel to trees, as far as hashes and layers depend on
  them). In every one of them a paragraph that is there is listed, or left by an
  earlier connection and not named yet, and no box has a place before all boxes are
  there (`Listed`); at the end of every frame everything this connection has named
  has the place it has in the list (`Settled`); and the last is the list of the
  server (`Agrees`). `FrameForesees` is the step of the server: it gives the tree
  after k changes of a frame in closed form (`Midway`) and so needs no induction
  over the frame. `TakingIsForeseen` is the step of the client. A tree that is kept
  by the next connection is one of which nothing was said (`KeptTreeIsUnnamed`), in
  the middle of a frame or not.
- `PicturesKept`: a kept picture is one of *some* tree with the hash it is kept
  under. That of a text is the text that was hashed. That of a box has no text in it
  but those that go into the hash and strays, and all of them at their place when it
  was kept of a whole frame. That the tree is not the current one is the point:
  equal hashes make equal lists and texts (`HashesTell`), so a picture that is
  reused is right for the tree as it is (`ReusedIsRight`, `TextIsDrawn`), however
  long ago it was made and whatever came in between, another connection included. A
  picture is made of others that are reused, so what is said of one that is kept
  rests on those in it (`PictureSays`, `WholePictureShows`, `StraysInside`).

Two theorems say what follows for the window. `UntornFramesAreShown`: pictures kept
in the middle of a frame, the finding of `torn_frame`, are the only thing that
spoils it; when a frame has arrived, no line is left over and none of them is
reused, the window shows the frame. `LinesReachTheWindow`, with the texts of
`ScreenInv`: when nothing is on its way either, every line of the document whose id
was never removed is in the window with its text and at its place, and no other
line is. Both, and `WholePicturesStayRight`, are about trees without leftover lines:
such a line is drawn and neither hashed nor removed.

The recursive functions that define hash, contents and picture are shown to be
what their equations say, level by level (`HashIs`, `ContentsAre`, `PictureIs`):
the tree is four levels deep. Hashes are compared as values: a collision is outside
the model. Which boxes are buffered is left open (`BufferedAssumption`; texts always
are), and a place is not the mark for none (`ContentsAssumption`).

**PacketFraming_proofs.** For any number of packets of any length, any cutting of
the stream and a socket of any size: `TypeCorrect`, `AssertionsAlwaysHold`,
`NothingIsLost` and `FramingImplementsQueue`. The inductive invariant has two parts
and says what the comment in the code ("There are some invariants between state and
current_offset") leaves open.

- `BufferInv` holds whatever the bytes are, after short writes too: for each state,
  what the offset, the slice and the length of the buffer are, in terms of the
  length that the header in the buffer reads as (`StateFitsBuffer`). Types and
  assertions follow from it.
- `StreamInv` holds until a write is short: what is delivered is a prefix of what
  was sent (`DeliveredIsPrefix`), the buffer holds the next frame up to the offset
  (`BufferContinues`), the stream holds what follows (`PipeContinues`), and the
  states fit the frame that is next (`StateFits`). The second is needed for the
  length the processor reads to be the packet's. `NothingIsLost` and
  `FramingImplementsQueue` follow, up to the first short write; after it both are
  false of the code, and of the model.

**Session_proofs.** For any number of connections and faults, any sizes, keys and
capacity of the channels and sockets: `ConnectsOnce`, `ViewportComesFirst` and
`FramesOnlyGetNewer`. The first needs
that channels the UI thread holds are of a task that has connected
(`ChannelsInHand`). For the second, a message may be in one of four places between
the window and the server's state: waiting with the UI thread, in the client's
channel, on the wire, in the server's channel. `KeyWaits` says that while the
server has not had a size, the first of them that is not empty does not begin
with a key, and `ServedIsHeld` and `NewIsEmpty` that a server state is served from
the connection it belongs to, which starts with nothing. One lemma per way a
message moves on (`Moves`, `Carries`), and every step of the bridge, the UI
thread and the server is one of those or touches none of the places.

The third, the action property `NeverGoesBack`, rests on `OrderInv`: on the
connection in use, there are three moments g, h and k such that frames on their
way are of viewports from the tree's to g, the server's viewport lies between g and
h, messages on their way are of viewports from h to k, and what the UI thread has
yet to send of those from k to the current one, each sequence in order
(`OneAfterTheOther`). A task of the bridge moves the first message of a sequence
to the next or loses messages (`Flow`), which keeps such a lane (`FlowKeepsLane`);
handling a message moves h, sending a frame moves g, and taking the frames moves
the tree. A connection nobody has used has nothing on its way in either direction
(`NothingSent`), so after a reconnect the order starts again from the tree the
client has, with the current viewport first in the outbox (`PostInOrder`). It is an
argument about the connection in use only: what is left on a connection that was
given up is in no order with the tree, and is never taken.

**GlyphCache_proofs.** A tile cut from a free rectangle leaves one, two or three
parts that lie apart and cover the rest (`CutInTwo`, `CutInThree`), so an
insertion keeps free rectangles and tiles apart, within the texture, and covering
it (`InsertKeeps`). That is carried through updates, evictions and panics, for any
glyphs, extents, texts, size of the atlas and share that is evicted:
`TilesNeverOverlap`, `FreeStaysFree`, `NoTexelIsLost`, `ContentsMatchPacker`,
`VerticesStayRight`. `IInv` adds to the invariants what a phase is about to do
(`Phases`): while glyphs wait to be put back each is in the contents, once, and the
glyph all this is for is not; and until the run is filled again no block has
vertices of the generation under way. Without the one `PackerAgrees` would not
survive `PutBack`, without the other `RunsStayRight` would not survive an eviction.
`PicturesStayRight` is about the texels. `PictureInv`: a tile is as large as its
glyph and its padding at least (`TilesFit`), and shows the glyph (`TilesShow`),
but for glyphs that wait to be put back, of which no vertices count
(`WaitingIsUnseen`). That a
clearing which starts inside a tile and runs beyond its end does no harm takes a
word about texels in rows: one column beyond the last is the first of the next
row, and both are padding (`OneRowOneColumn`, `ClearsNoOther`).

**Shaping_proofs.** `FontsAreInsertedOnce` and `TextsGetTheirFonts` for any
threads, families, options and texts. `LockInv`: whoever loads or upgrades is the
one upgradable holder, and what it wants is still missing. `ProgressInv`: of the
text a thread shapes, every font of the runs already seen to is in the cache or
among those it still has to see to. As fonts are unloaded only with the whole
shaper, when no thread shapes, that is enough for what is chosen and recorded under
the read lock to be what would be with all fonts (`RenderedWithEnough`). Which run
that is the theorem takes from the code, index and all.

**WgpuWindow_proofs.** `PassesAreValid`, `FramesAreCurrent` and
`NoChangeIsForgotten` for any sizes and number of samples. `StartInv` says what is
there at each stage of the start; `CopiesInv` that the atlas keeps one texture,
which the bind group names, and that the device's globals are those of the
renderer or marked dirty; `AttachmentsInv` that the attachments are those of the
scene unless its size is marked as changed.

*Only model-checked:* the six liveness properties (`EverythingArrives`,
`LossIsNoticed`, `UiComesBack`, `SizeIsShown`, `AllRendered`, `SizeIsDrawn`); every
invariant and action property of a passing run is a theorem. *Out of reach of the
provers here:* liveness and ENABLED.

## 5. Not modelled, and why

The map covers about 31 % of the lines of the repository. Some 9,000 of the
22,530 lines are code kept from Neovide that no block passes through, code that is
commented out, figures of a demonstration whose drawing is commented out, and
the test server, which does not compile (`metadata_runs` is gone). The client is
modelled although the workspace's `Cargo.toml` leaves it out of its members.

- Grapheme layout, rasterising, shaders and shaping proper are functions whose
  results the properties do not tell apart; they are constants or values.
- Helix is a submodule; its documents are the environment. `editor.rs` wraps it,
  and its broadcast is never sent.
- The synchronous bridge is used by none of the programs. It has one thread and
  one connection, and an assertion where the asynchronous one may lose bytes.
- Mouse and keyboard managers are Neovide's and not in use; the wire types are
  data.
- `extend` and additional atlases have no caller but tests. The transfer buffer of
  the last frame is taken back with `Arc::try_unwrap` and cleared before it is used
  (`server.rs:441-458`), so a frame cannot be changed while it is sent.
- The zoom and scroll animations of the GPU window move nothing that is drawn.

**Seen while modelling, and outside the properties.**
- The view opened for a connection (`server.rs:139`) is not closed when it ends.
- A client that finds its sender closed goes on with its tree
  (`editor.rs:115-117`), although the other path resets it
  (`block_manager.rs:216`: "Reset contents of manager as the client has
  disconnected (and the client wants to avoid leaking memory)"). The new server
  knows nothing of the lines of the old one that it has no id for, so they stay
  between the new ones, and in pictures, until an id is given out that is theirs.
- `read`, `write` and both channels can wait for each other in a circle through the
  UI thread, which sends with `blocking_send` and polls only in between
  (`CircleClosed`).
- The window's scale factor is not in the hash of the enclosure: a window moved
  to a screen of another scale keeps its old layout until its size changes; the
  run has both, and the frame stays consistent. The status line's font is
  UNSCALED_FONT_SIZE times the factor at first, and the height of the font times
  the factor later (`editor_view.rs:322`, `:516`).
- The center block's location stays (0, 0), so the gutter overlaps it. The last
  line of a document is not flushed, and the first is one line down.
- In a debug build `wrapping_subtract_u16` (`center.rs:876`) panics from generation
  16,385 on, as soon as it sees a slot last used before 16,384, and again in the
  middle of the words (`AgesOverflowAtQuarters`); a release build is right.
- The generation saturates after 65,535 frames (`center.rs:267`): from then on
  nothing is pruned. `flush_metadata` computes section lengths from a style it
  never updates. A comparison the wrong way round in `fontconverter.rs:24` returns
  `None` for every run there is.
- The hash of the status text is of its first wire only.
- `caching_shaper.rs:551` indexes the runs of the text with an index into the list
  of the runs that were shaped, which starts again with every run of the text. With
  the one family the server registers the index is always 0: an underlined second
  run of a line is recorded with the options of the first. With more families a run
  that takes more fonts than the text has runs panics. `Shaping` follows the code in
  both, and `FontsOfTheText` does not say which run ought to be recorded.
  The client's blob builder skips runs of no length and the painter does not.
- 8 % of fewer than 13 glyphs is none, and the code panics (a comment says
  20 %); vertices from before an eviction are used, as its generation is not
  recorded; new glyphs are rendered without clearing their padding. Font caches
  themselves are never evicted.
- In the GPU renderer: `from_spec_element` divides a height by the width of the
  texture; `ensure_buffer` is content when either of its two buffers is large
  enough; the inner block of `WGpuClientRenderBlock` is never set, so text boxes
  are not rendered there.
- In the GPU window: a frame lost to the swap chain is not drawn again until the
  next change; the scene starts with a default size whatever the window has; a
  minimised window ends the program.

## 6. Plan

Done, in this order: the block manager with its proofs, the center model, the
server and client over a channel, the packet framing with its proofs; then the
bridge and the session with restarts, drawing and kept pictures, the editor
view, glyph packing with its texels and proofs, shaping with its proofs, the
GPU window with its proofs; proofs for the center model, the editor view, the
session with the order of its frames, the texels, the screen of the client on top
of those for the center, and its pictures on top of the screen; then a tree that
outlives its connection, pictures of texts, sockets that fill up, writes that are
short, and the runs that shaping records.
What could follow:

1. `ScreenSync` over `Bridge`, to see what a reset loses of a frame.
