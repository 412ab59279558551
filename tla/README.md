# Formal models of xf86-video-vmware

TLA+ models of the X.org driver for VMware virtual GPUs, the TLC runs that
check them on small screens, and theorems about them that TLAPS proves for
every screen. Paths below are relative to the repository root.

## 1. The system

The package builds two drivers and a bootstrap that picks one at probe time:

* **vmwgfx** (`vmwgfx/`), for kernels with KMS. It keeps the pixels of a pixmap
  in up to three places (software memory, a 3D surface, the framebuffer of a
  CRTC) and migrates them between those as requests need them. It rests on
  **saa** (`saa/`), the shadow acceleration architecture: wrappers of the
  server's drawing functions that try the driver first and fall back to `fb`.
* **vmwlegacy** (`src/`), for devices without KMS. It draws into the device's
  framebuffer, tells the host which boxes changed through a command FIFO, and
  moves a hardware cursor from a signal handler.

The X server is single threaded: it serves one request, or one callback (block
handler, mode set, VT switch), at a time. The only true concurrency is with the
kernel and host, with GL clients that draw into shared surfaces, and, in the
legacy driver, with the SIGIO handler that moves the cursor.

### Components, their state and operations

| component | state | operations | hard behaviour | what makes it correct |
|---|---|---|---|---|
| pixmap migration, `vmwgfx_saa.c` | per pixmap: backing flags, malloc / GMR / surface, `dirty_shadow`, `dirty_hw`, `dirty_present`, pending regions, scanout list, `sync_x_list` | create and free storage, download, upload, readback, validate, copy, composite, dirty, scanout ref/unref/refresh, drop master, flush DRI2 | any allocation or device call may fail half way; three places, five regions | every read finds what was drawn; what no region marks is the same everywhere; the screen shows it |
| accelerated surfaces, `vmwgfx_xa_surface.c` | staged format and flags, `hw` | stage, commit, validate, kill | a format change kills a surface that holds contents | a validated region is valid |
| saa, `saa/` | access counts, fallback count, damage records | map for access, report damage, the fallbacks of every drawing request, copies, Render | readback must cover what a request reads *and* what its damage overstates | clients see a plain memory of pixels |
| CRTC, `vmwgfx_crtc.c` | `entry.pixmap`, `scanout_id` | set mode, DPMS, disable scanout | reference moves from one pixmap to another, either may fail | an entry names a pixmap it references |
| driver entry points, `vmwgfx_driver.c` | master, vtSema, what is opened, wrapped functions, virtual size | PreInit, ScreenInit, CloseScreen, block handler and flush, Enter/LeaveVT, resize | the device must not be used while the VT is away; any step of PreInit or of a resize may fail; two layers wrap the same functions | nothing is left only in hardware; the kernel's master while the VT is held and not while it is away; what is shown is the screen pixmap |
| DRI2, `vmwgfx_dri2.c` | buffers, `hw_is_dri2_fronts`, references | create, destroy, copy region | a GL client draws into the same surface | front buffers are up to date or queued |
| kernel interface, `vmwgfx_drmi.c` | map counts | alloc, map, DMA, present, readback | errors that are dropped here, or by the callers of what reports them | |
| video overlay, `vmwgfx_overlay.c` | the stream a port claimed, its buffer and mapping, the clip that has the colour key | put image, stop, close, set attribute | each of four kernel calls may fail after the ones before; other clients take streams | the device reads only what the port holds; a frame is not shown before its key |
| textured video, `vmwgfx_tex_video.c` | two sets of surfaces, a fence, a cached matrix | put image, stop, set attribute | the device reads a set while the next frame is copied; surfaces are redefined one by one | a frame comes whole from one set, and is copied into none that a blit reads which the port waits for |
| legacy video, `src/vmwarevideo.c` | one stream, spare VRAM, stream registers | put image, stop, stop for a while, check at mode sets | a mode set grows the framebuffer into the stream's memory | framebuffer and stream stay apart; the key is painted again when it was drawn over |
| legacy screen, control and Xinerama: `src/vmware.c`, `src/vmwarectrl.c`, `src/vmwarexinerama.c` | mode list and two dynamic modes, registers, the visible and the pending topology | switch mode, set resolution, set topology, Enter/LeaveVT, generations | the next topology against other mode switches; hibernation while the VT is away | clients see topology and mode change together, and the device shows what they see |
| legacy FIFO, `src/vmware.c` | ring of words, `NEXT_CMD`, `STOP` | write a word, wait for the host | the host moves `STOP` at any time | commands arrive complete and in order |
| legacy cursor, `src/vmwarecurs.c` | `cursorSema`, `cursorDefined`, `cursorShouldBeHidden`, registers | show, hide, move, hide for drawing | SIGIO between any two register writes | no cursor pixels in what is read; the cursor comes back |
| bitmap expansion, `src/bits2pixels.c` | the loop's pointers and counters | expand, for four pixel sizes | the last, short half byte of a row | each bit becomes one pixel, in order |
| bootstrap, hosted back ends, outputs, vmwgfx control | which driver runs; the host's connection; the layout | probe, pre-init, detect, set topology | failures half way through | nothing stays open under the other driver |
| composite set-up, lists, tables, control utility | little of their own | | | |

Calls go from the server through `saa` into `vmwgfx_saa.c`, from there to
`vmwgfx_xa_surface.c` and `vmwgfx_drmi.c`; results come back as Booleans that
choose between acceleration and fallback. Damage goes the other way: the
server's damage layer calls `saa_report_damage` at the end of an operation,
which updates the regions (`vmwgfx_dirty`) and completes DRI2 fronts
(`vmwgfx_operation_complete`). The block handler later pushes pending regions
to the framebuffer (`xorg_flush`). CRTCs and VT switches reach the same
pixmaps through `vmwgfx_scanout_ref`, `_unref`, `_refresh` and
`vmwgfx_saa_drop_master`.

## 2. Modules

| module | models |
|---|---|
| `PixelMemory` | what an X client is promised: pixmaps are a memory of pixels (abstract specification) |
| `VmwgfxPixmap` | one pixmap: its record and, as operators, every C function that moves its contents or storage |
| `VmwgfxSaa` | a screen: requests, mode setting, VT switching and DRI2 over several pixmaps; the properties |
| `MCVmwgfxSaa` | values of the constants for TLC |
| `VmwgfxPixmap_proofs`, `VmwgfxSaa_proofs` | the lemmas and theorems about them |
| `CommandQueue` | what the legacy command FIFO promises: a bounded queue (abstract specification) |
| `VmwareFifo` | the ring in device memory, the driver and the host at its two ends, and VT switches |
| `MCVmwareFifo` | values of its constants for TLC |
| `VmwareFifo_proofs` | its invariant, the theorems and the refinement proof |
| `VmwareCursor` | the legacy driver's hardware cursor: the server's thread against the signal handler that moves it |
| `MCVmwareCursor` | values of its constants for TLC |
| `VmwareCursor_proofs` | its invariant and the theorems |
| `VmwareScreen` | the legacy driver's screen: modes, registers, topologies, the control extension, VT switches, generations, composed with its video |
| `VmwareVideo` | the legacy Xv port, its memory and the host's stream registers, as operators |
| `MCVmwareScreen`, `VmwareScreen_proofs` | values of their constants for TLC; the invariants and the theorems |
| `XvImages` | how an image lies in memory: the planes, pitches and sizes that three files compute alike |
| `VmwgfxOverlay` | vmwgfx's overlay port with the kernel's streams and buffers, as operators |
| `VmwgfxTexVideo` | a port of the textured video and the blits it asked for, as operators |
| `VmwgfxXv` | both adaptors under the server's Xv layer, with other clients of the kernel and VT switches |
| `MCVmwgfxXv`, `VmwgfxXv_proofs` | values of their constants for TLC; the invariant and the theorems |
| `VmwgfxSession` | a server's dealings with vmwgfx from the probe to its end: failures of PreInit, mastership, wrapped functions, resizes, cursor references, outputs |
| `MCVmwgfxSession`, `VmwgfxSession_proofs` | values of its constants for TLC; the invariant and the theorems |
| `Bits2Pixels` | the expansion of bitmaps, half byte by half byte |
| `MCBits2Pixels`, `Bits2Pixels_proofs` | values for TLC; the invariant and the theorems |

`VmwgfxSaa` is built on `VmwgfxPixmap` and refines `PixelMemory`; `VmwareFifo`
refines `CommandQueue`. `VmwareScreen` EXTENDS `VmwareVideo`, and `VmwgfxXv`
both of its adaptors: the operators of a port take and return its record, and
the composing module has the state and the actions. The two drivers never run
together; `VmwgfxSession` has the choice between them and nothing else joins
the two halves. `VmwareCursor` meets `VmwareFifo` in one place only: a cursor's
definition is a command that is waited for, and is one step (`Define`) here.

### VmwgfxPixmap

A pixmap is a record: the backing flags, which storage exists, whether damage
is tracked, the regions, whether it is scanned out, the count of DRI2 fronts,
and the pixels of each place (`sw_bits`, `hw_bits`, `fb_bits`). A region is a
set of *tiles*, the parts of a pixmap that the regions of a run tell apart; a
pixel value is a colour or `Junk`, the contents of fresh storage. Freed storage
is `Junk` again, so anything that is read from the wrong place shows.

The driver's functions return a Boolean and change the pixmap as they go. Each
is an operator that returns the *set of its outcomes* `[ok, p]`, one per way it
can succeed or fail (an allocation, a device call, an unsupported format). A
caller continues with each outcome as the C code does: the order of calls and
what an early return leaves behind are those of the source, including the
things it forgets. Which definition stands for which lines is in
`PROJECT.json` under `map`.

Many results are ignored in this code, and the models have three ways to say
what follows.

* Where contents are given up, they are *lost*: `mem` says `Lost` of them from
  then on, and the properties are about what is not lost. This is what becomes
  of a download that fails as the VT is left (`vmwgfx_saa_drop_master` empties
  `dirty_hw` whatever came of it), of what `PushPixels` damages and does not
  set, and of what a GL client draws into a front buffer and reports by
  glXWaitGL. All runs have these (the last where there is a GL front).
* Where the screen is given up, the tiles are `unshown`, a history variable:
  `xorg_flush` moves on damage whose upload failed. All runs with HwPresents
  have that.
* The rest are events that the constant `Hazards` switches on by name, and that
  all passing runs leave out: `ignored_error` (the kernel refuses a transfer or a
  readback and `vmwgfx_drmi.c` returns 0), `ignored_present` (a present or a
  DirtyFB fails, and `xorg_flush` or `vmwgfx_present_done` does not look),
  `format_change` and `unref_presented` (section 5). A reference dropped while
  nothing is presented is harmless and always possible.

The theorems about storage and regions hold whatever `Hazards` is, those about
contents when it is empty.

### VmwgfxSaa

Each action is one request or callback from beginning to end: the
acceleration attempt, its fallback, the damage report that follows. Requests
that read what they draw on (`SwDraw`), that do not (`SwFill`), copies
(`CopyArea`), composites (`CompositeOver`, `CompositeSrc`), `GetImage`, pixmap
destruction, mode sets, DPMS off, VT switches, the block handler, and the DRI2
calls. `mem` records what the successful requests meant, and what was lost; no
action reads it. `PixelMemory` states the limits of the promise as actions of
its own: when the VT goes away any pixel may be lost (`Leave`), and `Push` and
`Share` may lose some of what they were asked to draw on. What is copied or
blended from a lost pixel is lost, and a pixel drawn over is not.

### VmwareFifo

The driver is one thread and the host another. `pc` says where the driver is
in `vmwareWriteWordToFIFO`, `vmwareWaitForFB`, `VMWARERestore` or
`VMWAREInitFIFO`; each of its accesses to device memory is an action of its
own, and the two tests for a full FIFO are two actions because each reads
`STOP`. `after` is the return address of `vmwareWaitForFB`, which all four
call. The host takes a word whenever `CONFIG_DONE` lets it read the FIFO, and
clears `BUSY` when nothing is left that it may read; that is how the driver
uses it, and the only part that is not translated from code. Words are opaque.
Offsets count words, not bytes. Between two words of a command the model may
give up the device, which the driver does not; it can only do more than the
code. Setting up the FIFO is one step, because the host does not look while
`CONFIG_DONE` is 0. What `VMWARERestoreRegs` does to the mode registers, and
the mapping of the memory, are left out.

### VmwareCursor

`pc` says where the server's thread is, from the test of a request's box down
to the single writes of `vmwareWriteCursorRegs`; `ret` is that function's
return address. Every read or write of something the handler writes
(`hwcur`, `cursorShouldBeHidden`, the registers) is a step of its own. The
handler (`Move`) is `vmwareSetCursorPosition` and `vmwareShowCursor` in one
step, because nothing interrupts it. `vmwareWriteReg` blocks the signal around
each access, so one write is atomic and two are not.

A request is a wrapper that may read a region (`VMWAREGetImage`,
`VMWARECopyWindow`, `VMWAREComposite`) with an update inside it whose region
shadowfb reports (`VMWAREPreDirtyBBUpdate`, `VMWAREPostDirtyBBUpdate`); either
region may be empty. `excluded` holds the wrapper's `hidden` and
`cursorExcludedForUpdate`, `at` the place the device last drew the cursor.

The cursor is one pixel wide and an update has one box. The hot spot is left
out; it moves all positions alike. Defining a cursor is two steps, with the
flag down in between; its words are `VmwareFifo`'s. What a mode switch restores
is written in one step. `up` is the server's: after `xf86SetCursor` has placed
and shown a cursor and until it has hidden it, the handler may run, and the
server hides it before it leaves the VT.

### VmwareScreen and VmwareVideo

An action is one call of the server into the driver, from beginning to end, for
none of them can be interrupted by another. A mode is its place in the list of
modes, which is what the code's pointers are: `VMwareCtrlDoSetRes` writes to a
mode it has a pointer to, and the server compares pointers. `ModeReg` is what
the driver asked for, `reg` and `displays` what the device has. A device that
is written a WIDTH and HEIGHT falls back to a single display, as the comment in
`vmwareNextXineramaState` says; `Hibernate` resets it while the VT is away. The
option that gives a topology is a sequence of tokens, so that
`VMWAREParseTopologyString` is modelled by what it accepts.

A port is a record: the function that its next image is given to (`play`), its
memory, the clip that was painted, the manager of spare VRAM (`mgr`) and the
registers of the host (`host`). `painted` is what the screen really shows; only
the server's exposures take it away. `isOn` is the Xv layer's: it stops ports
before a VT is left and closes them before the screen. Bytes and offsets are
real: 64 bytes a framebuffer line of the smallest mode, 256 of VRAM.

The comparison in `vmwareOffscreenAllocate` is one of unsigned longs and wraps
(`OffscreenFits`). The weight of green that `VMWAREPreInit` tests before it has
read it is 0. A request to set an attribute of a port that plays is left out:
the change would only show with the next clip.

### VmwgfxOverlay, VmwgfxTexVideo, VmwgfxXv

The kernel answers each of the four calls of the overlay's first frame by
itself (`Answers`), and other clients claim and give back streams at any time.
`frames`, `claimed` and `live` are the kernel's, `mapped`, `buf` and `clip` the
driver's. `xorg_flush`, which the port calls before it sends a frame, is what
makes `painted` `visible`. That flush is taken to work; `VmwgfxSaa` has what its
failures do.

The blits of a textured port are a queue that the device works off
(`FinishBlit`) at its own speed; waiting for a fence empties it. A blit is
`awaited` from its fence on, until the port gives the wait up: it lasts a
second at most, and `put_image` looks neither at its result nor at that of
`display_video`, so that after a time-out, a fence that could not be made or a
pixmap that could not be validated the sets go on changing turns. `awaited` is
history; no action reads it. The three surfaces of a set are redefined one by
one (`CheckYuvSurfaces`), with a failure at each. What a surface holds is the
image it was made for; the matrix follows the source rectangle (`Sources`),
which may be a part of the image.

### VmwgfxSession

`kept` is history: `drmDropMaster` failed when the VT was last left, so that
this server is still the kernel's master without it. `held` is what PreInit
opened and allocated, and `Steps` its steps in their
order: a failure at one keeps what the earlier steps took (`Acquired`) but for
what its label frees (`Unwound`). `master` is the kernel's view and `isMaster`
the driver's. `hook` has, for each function of `pScrn` and `pScreen` that the
driver wraps, the layer whose function is called; `saved` and `savedXv` are
where the two layers put what they found. `below` is the block handler of the
layer below, which may change at each call. A CRTC shows a size: contents are
`VmwgfxSaa`'s. A step after which the server gives up ends the behaviour
(`"ended"`).

### Bits2Pixels

One step is one half of a byte. The four functions differ in the size of a
pixel, which is an argument here, and in their tables, which are four operators
(`Table8` to `Table32`). Between the end of a row and the stride nothing is
addressed, so rows are the elements of a function.

### Abstractions

* One CRTC; a rotation shadow is one more pixmap it may show. `crtc->enabled`
  is true while the entry is set.
* A GC is either one that reads its destination or one that does not; `Blend`
  stands for every raster operation and operator that reads. Copies are GXcopy.
* Composites with the same pixmap as source and destination, with masks or
  alpha maps, are left out; so are hosted pixmaps and pixmap resizing.
* A staged format is not modelled: staging may fail, and a format that does
  not fit kills the surface when the hazard `format_change` is on.
* What a present or a DirtyFB puts on the screen is kept in `fb_bits` as a
  value; with HwPresents the surface is scanned out, and the code calls DirtyFB
  for it all the same.
* DirectPresents and HwPresents together are excluded: the first needs a GMR
  framebuffer to read back from.
* The server sets `vtSema` before EnterVT, so it equals `is_master`. When
  EnterVT cannot set a mode the server exits, when software storage cannot be
  created for an access the code draws through a NULL pointer, and when an
  entry without a reference is unreferenced a NULL region is emptied: those
  outcomes end the behaviour and are not steps of the model.
* A GL client's drawing is a part of the call that reports it (a copy or
  glXWaitGL).
* `RenderCheck` true makes composites always try the device; the behaviours
  with it false are among those with it true, as a try may fail.

## 3. Properties and runs

| run | screen | checks |
|---|---|---|
| `Saa_TwoPixmaps` | default options; 2 pixmaps of 2 tiles, 1 colour; requests in one tile or scrolling by one | `ContentsKept`, `NothingHeldAway`, refinement `ClientSpec` |
| `Saa_DirectPresents` | DirectPresents; 2 pixmaps of 1 tile, 1 colour, one a GL front | `SurfaceValid`, `RegionsAgree`, `HeldSomewhere`, `ScreenFresh`, `FrontsFlushed`, `ClientSpec` |
| `Saa_HwPresents` | HwPresents; same screen; weak fairness of the block handler | `TypeOK`, `ContentsKept`, `ScreenFresh`, `StorageAgrees`, `HandsOffAway`, `ScreenCatchesUp` |
| `Fifo_Ring` | ring of 4 words, 2 different words; weak fairness of the host and of the polling loop | `TypeOK`, `NeverOverrun`, `DrainedWhenAway`, `WaitsEnd`, refinement `QueueSpec` |
| `Cursor_Moves` | 2 by 2 places; requests of nothing, a corner or an edge; a device that can remove the cursor from its framebuffer | `TypeOK`, `OutOfSight`, `ComesBack`, `DefinedFirst` |
| `Bits_Rows` | bitmaps of two rows of two bytes, every width up to 16, all four pixel sizes | `RowsExpanded`, `PointersTogether` |
| `Legacy_Screen` | modes of one, two and three framebuffers of 64 bytes in 256 bytes of VRAM; two images, a topology that fits and one too large; two generations | `TypeOK`, `HostShowsTopology`, `SvgaIdKept`, `StreamApart`, `KeyPainted`, `SwitchedTogether`, `CurrentModeKept` |
| `Vmwgfx_Video` | two streams, two buffers, two clips, a small and a high definition image, shown whole or cropped; every call may fail; three blits in flight | `OverlayHeld`, `KeyShown`, `FrameWhole`, `CopiesApart` |
| `Vmwgfx_Session` | with the console and under both kinds of host; every failure but one; two cursors, three sizes, two generations | `MasterWithVT`, `HooksWhole`, `ShownWhole` |

* **ContentsKept**: in the place the driver would look, it finds what clients
  drew, but for lost pixels. This is the invariant behind the refinement:
  `ClientSpec` says that every step of the driver is a step of `PixelMemory`,
  and so every GetImage returns the pixels that were drawn, or anything where
  they were lost.
* **SurfaceValid**: a tile that no region marks and that was not lost is the
  same in surface and software. The validity checks of copies and composites
  rest on it.
* **RegionsAgree, HeldSomewhere**: software and surface are not both stale;
  presented tiles exist only with a framebuffer; contents that software lacks
  are in a surface that exists or on a framebuffer.
* **StorageAgrees**: flags, storage and damage agree after every failure.
* **ScreenFresh, ScreenCatchesUp**: the screen shows what was drawn except
  where pending damage says so, where a flush dropped damage whose upload
  failed, and where pixels were lost; and pending damage does not stay.
* **NothingHeldAway, HandsOffAway**: while the VT is away nothing is only in
  hardware and nothing is written to it.
* **FrontsFlushed**: a front buffer a GL client shares is up to date or queued.

* **NeverOverrun**: when a word is written, `NEXT_CMD` will not meet `STOP`:
  the host would take the FIFO for empty and drop all of it.
* **DrainedWhenAway**: the device is given up with nothing queued, and nothing
  is queued until it is taken again.
* **WaitsEnd**: the loop on `SVGA_REG_BUSY`, which has no timeout, ends.
* **QueueSpec**: each word written is taken once, in order.
* **OutOfSight**: from the moment a request took the cursor out of the
  framebuffer, no mouse move and no nested update shows it before the last
  exclusion ends.
* **ComesBack**: between requests no exclusion is left over, and the cursor the
  server moves is shown. A count that is one off hides it for good.
* **DefinedFirst**: while the host has not read the whole definition, no step
  shows or moves the cursor on the screen.
* **RowsExpanded, PointersTogether**: row by row the pixmap is what the bitmap
  says, no pixel is lost or stored twice between halves, and nothing is read or
  stored past the end of a row.
* **HostShowsTopology**: the device, whose topology is lost at every mode set,
  is carved up the way clients are told.
* **SwitchedTogether, CurrentModeKept**: clients see a topology change with the
  mode only, and no request rewrites the mode that is shown.
* **SvgaIdKept**: the device knows the negotiated ID, also after hibernation.
* **StreamApart, KeyPainted**: the memory of a stream is no part of the
  framebuffer of any mode, and is given back; a playing port's key is on the
  whole of its clip.
* **OverlayHeld, KeyShown**: a port holds one stream and one buffer or none,
  whatever failed; no frame is shown on an old key.
* **FrameWhole, CopiesApart**: no frame mixes surfaces or matrices of two, and
  none is copied into surfaces that a blit reads which the port waits for. It
  may be where the wait was given up: the code does no better.
* **MasterWithVT**: with the VT the kernel's master is this server and the
  driver's flag says so; without it the flag is clear and the kernel's master
  is not this server, unless `drmDropMaster` failed; and a PreInit that fails
  leaves no open connection to the legacy driver.
* **HooksWhole**: every wrapped function is reached and calls the layer below,
  as it is now; a closed screen leaves `pScrn` as it was found.
* **ShownWhole**: after any failure of a resize the CRTC shows the whole screen
  pixmap or nothing; cursors are referenced exactly once.

### Bounds, and why they are enough

Two pixmaps are what any one request relates; the root, which is scanned out,
and one that is not (and that GL clients open). The functions work tile by tile
except where they test whether a region is empty, act on a whole pixmap, or
move tiles: one tile explores the first, two tiles the others (a request that
covers part of what is dirty, a scroll). A tile needs two values, for a stale
one must differ from the current one: they are the one colour and `Junk`, which
`Blend`, an exclusive or, makes of one another, so that every drawing shows and
a blend on stale contents goes wrong. With two tiles TLC goes on only from
states where what is lost is one tile of the pixmap that is not the screen's
(the constraint `MCFewLost` of `Saa_TwoPixmaps`; a step that loses more is
still checked); the runs of one tile cut nothing. `MaxFronts = 1` bounds the
front buffers open on a pixmap at one. Nothing else is bounded: all regions are
finite sets. Each mutant in `PROJECT.json` is a plausible slip in one function
that its run catches.

A ring of four words, `Min = 2` and `Max = 6`, has both kinds of full (`STOP`
one ahead of `NEXT_CMD`, and the two at the ends) with words in between, and
wraps at every fill level. Two words tell order. The proofs lift both bounds.

Two places on either axis tell a cursor inside a region from one outside it,
also on one axis only. A request nests two exclusions, the deepest the code
does. All interleavings of one handler with the thread are explored.

Two rows and two bytes have every place of a row's end in a byte, and a row
after a tail. The proofs lift both bounds.

The screens of `Legacy_Screen` are a few bytes, but the places where sizes meet
are all there: a stream that fits beside every mode and one that fits beside
the smallest only, so that two mode sets end it; a topology as large as the
mode that may be shown and one larger than the device. A server has no modes
besides its first, the device's largest and the two dynamic ones
(`MCDefaultModes`). Two generations show what the first leaves behind.
`MaxGenerations` bounds them there and in `Vmwgfx_Session`.

Two streams let another client take one or both; two sets of surfaces are the
driver's own number, and three blits in flight (`MaxInflight`) are as many as a
device may lag behind before the sets repeat. `Vmwgfx_Video` has a server with
the overlay or with the textured video, never both; they share no state. All
its calls may fail. The `Faults` of
`Vmwgfx_Session` leave out a kernel that opens but does not tell its version:
the connection then stays open, and the server master, under the legacy driver.

### Fairness

`ScreenCatchesUp` needs weak fairness of `BlockHandler`. The server's
dispatch loop calls the block handlers every time before it waits for clients,
and the driver's is enabled as long as a CRTC shows a pixmap. Nothing is assumed
about clients, mode sets or VT switches.

`WaitsEnd` needs weak fairness of the driver's poll (`WaitEnds`; the loop does
nothing else), and of a host that was told to synchronise: it takes words
(`busy /\ TakeWord`) and reports (`Ready`). That is the device's contract for
`SVGA_REG_SYNC`. A host that nobody waits for may sleep.

`Legacy_Screen`, `Vmwgfx_Session` and `Bits_Rows` do not check deadlock: a
server whose PreInit fails, a server that ended and a call that returned have
stopped. All other runs do.

## 4. Proofs

`VmwgfxSaa_proofs` proves in its first half, for every set of pixmaps, tiles
and colours, every option and every subset of hazards:

* `TypeCorrect`: `Spec => []TypeOK`
* `StorageCorrect`: `Spec => []StorageAgrees`
* `RegionsCorrect`: `Spec => []RegionsAgree`

all three from `AlwaysInOrder`: `Spec => []IInv`. The assumptions used are
`OptionsAssumption` (the options are Booleans and the two present modes exclude
each other), `MaxFrontsAssumption`, `ScreenAssumption` and
`RequestsAssumption`; TLC evaluates them in each run.

None of the three is inductive. `StorageAgrees` needs the regions (a pixmap
whose damage is removed must hold nothing dirty), `RegionsAgree` needs to know
that only the CRTC's pixmap is scanned out (a destroyed pixmap or one that
loses its reference would keep presented tiles), and both need types. `IInv`
is their conjunction with: only the entry is scanned out, and there is no entry
while the VT is away.

The argument goes by functions, as the code does. `Migrates(p, q)` says that q
is p after contents moved: still in order, the same scanout state and fronts,
storage and regions related as every migrating function relates them. It is
reflexive and transitive, and each of the storage and transfer functions has a
lemma that all its outcomes migrate; compositions follow by transitivity. The
functions that do more (`Flush`, `DirtySw`, `DirtyHw`, `DirtyPresent`,
`ScanoutRef`, `ScanoutUnref`, `ScanoutRefresh`) have lemmas of their own. In
`VmwgfxSaa_proofs`, `Keeps` lifts this to a screen whose pixmaps each migrate,
one lemma per action shows that the action keeps `IInv`, and `NextIInv`
combines them.

The second half is about contents. For every set of pixmaps, tiles and colours,
every option, every raster operation and every failure but those that reach
nobody, with the hypothesis `NoHazards` (`Hazards = {}`):

* `ContentsAlwaysKept` (`ContentsKept`), `SurfaceAlwaysValid` (`SurfaceValid`),
  `AlwaysHeldSomewhere` (`HeldSomewhere`), `ScreenAlwaysFresh` (`ScreenFresh`),
  `FrontsAlwaysFlushed` (`FrontsFlushed`) and `NothingEverHeldAway`
  (`NothingHeldAway`), from `AlwaysWhole`: `Spec => []CInv`;
* `HandsAlwaysOffAway`: `Spec => HandsOffAway`;
* `ImplementsPixelMemory`: `Spec => ClientSpec`, the refinement.

The hypothesis is that of the runs, and it is needed: each hazard loses
contents in the code (section 5), `Bug_FormatChange` shows one. What it
excludes are the failures that reach nobody: of a transfer or readback that the
kernel refuses, and of a present or a DirtyFB. It does not exclude others:
allocations, mappings, uploads, downloads and staging may fail at any point,
where the caller looks at the result and where it does not
(`vmwgfx_saa_drop_master`, `xorg_flush`). What the last two cost is in the
properties: lost pixels and `unshown` damage are what they exempt, and nothing
else.

`ContentsKept` by itself is far from inductive. `CInv` adds to `IInv`:

* `Sound`, tile by tile (`TileSound`): what software lacks is in a surface that
  exists or was presented; a surface yet to be made is stale all over; what no
  region marks is equal in both; a presented tile is on the framebuffer.
  Without it an upload, a download or a new surface could change contents.
* `PendingSound`: a tile that waits to be presented is current in a surface
  that exists. The flush presents it from there without another look.
* `Flushed`, and that a pixmap with fronts, or one that is queued, has a
  surface: the flush of `sync_x_list` uploads only to one that exists.
* `Holds`: what the driver finds at each tile is what `mem` says.
* that what is shown is scanned out and `Fresh`, and `NothingHeldAway`.

Again the argument goes by functions. `Moves` is `Migrates` with contents where
they were (`VmwgfxPixmap_proofs`, second half), a preorder, and each storage and
transfer function has a lemma that all its outcomes move. The functions that
report damage render: `Renders(p, q, m)` says that q is whole, holds `m`, and is
as fresh on the screen as p was. For those that take or drop a framebuffer,
`SameContents`. A request between pixmaps moves contents on all of them and
renders on its destination, or only moves when it fails (`Transferred`), so that
a fallback can follow a failed attempt. That a drawing done only on the tiles
that were made current is the drawing the client meant is `LocalDrawing` and
`Local`: what is written depends on no other tiles. This is where a missing
readback would show, and where one does: the damage of `PushPixels` covers tiles
that it does not set, and what software lacked of those is what the request
loses. `ServesAll` collects
what a request does for all clients; mode sets and VT switches have lemmas of
their own.

While the VT is away every request comes down to software (`HwNotAway`), and
software leaves surface and framebuffer alone (`Leaves`): `HandsOffAway`, and
that nothing comes to be only in hardware, hence `NothingHeldAway`.

The refinement maps each request to one of the memory, or to `Internal` when it
failed. Only GetImage needs the invariant: what it returns is what `mem` has.

One assumption on the constants was found in this way: `GlPixmaps` and
`Scanouts` are disjoint (`ScreenAssumption`). A drawing of a GL client into the
surface of a scanned out pixmap would leave the screen stale with nothing
pending. The code never shares one: `dri2_do_create_buffer` gives the front of a
window no surface (it returns with `name` 0) and a fake front a new pixmap, and
a pixmap that is scanned out, the screen's or a rotation shadow, has no XID a
client could name as a pixmap of its own.

`VmwareFifo_proofs` proves, for rings of every size of at least two words,
wherever they start, and for every set of words (`FifoAssumption`):

* `RingInvariant`: `Spec => []IInv`, and from it `RingTypes` (`TypeOK`),
  `RingNeverOverrun` (`NeverOverrun`) and `RingDrained` (`DrainedWhenAway`);
* `RingIsQueue`: `Spec => QueueSpec`.

`NeverOverrun` is not inductive: it needs that what the first test ruled out is
still ruled out at the second although the host moved `STOP` in between
(`Tested`), and that a wait which has ended left `STOP` at `NEXT_CMD`
(`Waited`), which needs in turn that the host reads the FIFO during it, that is
that `CONFIG_DONE` is only clear between `VMWAREStopFIFO` and `VMWAREInitFIFO`
(`Idle`). For the refinement `Queued` maps the ring to the sequence of words
from `STOP` to `NEXT_CMD`; `Advance` is `Put`, `TakeWord` is `Take`, `Store`
changes no word queued, `InitFIFO` maps the empty queue to itself
(`DrainedWhenAway`), and the rest touch neither offset.

`VmwareCursor_proofs` proves, for every screen, every set of regions and both
kinds of device (`CursorAssumption`): `CursorTypes` (`TypeOK`),
`CursorOutOfSight`, `CursorComesBack` and `CursorDefinedFirst`, from
`CursorInvariant`: `Spec => []IInv`. The count alone is not inductive: `IInv`
says that `cursorSema` is the number of exclusions in force (`Counted`), that
they are nested as the calls are (`Nested`), with what arguments
`vmwareWriteCursorRegs` may be under way (`Called`), and that a cursor the
server moves is shown unless it is excluded or its registers are about to be
written (`Placed`, `Moved`).

`Bits2Pixels_proofs` proves, for bitmaps of every height and width, every
colour and all four pixel sizes (`RasterAssumption`): `RasterTypeOK` (no pointer
leaves its row; no run checks `TypeOK`, the other two properties break first),
`RasterRowsExpanded` (`RowsExpanded`) and `RasterPointersTogether`
(`PointersTogether`), from `IInv`: the rows before `i` are done and those after
untouched, the row itself is done up to `lpix` (`Progress`), the pointers stand
at the same pixel (`Position`), and in the tail `expbits` has the bits of the
pixels that are left (`TailBits`), which is what the code relies on when it
leaves the loop from either half.

`VmwgfxXv_proofs` proves, for every number of streams, buffers, images, clips
and attributes, every host and every call that may fail (`OverlayAssumption`,
`TexVideoAssumption`, `PortAssumption`): `XvOverlayHeld` (`OverlayHeld`),
`XvKeyShown` (`KeyShown`) and `XvFrameWhole` (`FrameWhole`), from `XvInOrder`:
`Spec => []IInv`; and `XvCopiesApart` (`CopiesApart`), whatever fails. None is
inductive: a port that plays must hold exactly one stream and one buffer of the
size it remembers (`Backed`), or the next frame of that size would be read
beyond its end; the clip that the port remembers must have been painted
(`Keyed`), because a frame of the same clip paints nothing; the matrix must be
that of `hdtv` and the attributes (`MatrixCurrent`), because a frame of the
same kind computes none; and a blit that is awaited must read the other set and
have the port's fence (`Apart`), or the next frame would not wait for it. One
lemma for each function of the port says that all its outcomes, the half-done
ones included, are in order.

`VmwareScreen_proofs` proves, for every device, list of modes, topology, image
and clip and any number of mode and VT switches, hibernations and generations
(`ScreenAssumption`, `VideoAssumption`, `LayoutsAssumption`): `ScreenTypes`
(`TypeOK`), `ScreenShowsTopology` (`HostShowsTopology`), `ScreenKeepsId`
(`SvgaIdKept`) and `ScreenPaintsKey` (`KeyPainted`), from `ScreenInOrder`:
`Spec => []IInv`; with it the action property `ScreenKeepsCurrentMode`
(`CurrentModeKept`), and without it `ScreenSwitchesTogether`
(`SwitchedTogether`), which every step has by itself.

* `SvgaIdKept` needs to know where the negotiated ID is while the VT is away:
  LeaveVT has put back the one the server found, a hibernation none at all, and
  EnterVT takes it from `suspensionSavedRegId` (`IdInOrder`).
* `CurrentModeKept` and the types need that the current mode is in the list in
  each phase that has a screen, and that the two dynamic modes are different
  ones (`ModesInOrder`): `VMwareCtrlDoSetRes` writes to the slot that is not
  current.
* `KeyPainted` and `StreamApart` need that the port either has no stream,
  memory and clip at all or has memory for the frame the host reads (`Closed`,
  `Open`), and that the server's `isOn` agrees with it (`PortInOrder`): only a
  port that is on is stopped before the VT is left.

`LayoutsAssumption` says that the far corner of a topology is a pair of
integers: `BoundingBox` is a fold, and what a fold returns for sequences of
every length takes an induction that the prover cannot make. TLC evaluates it.
`ScreenKeepsStreamApart` (`StreamApart`) has a hypothesis, `LargestFits`: VRAM
holds the framebuffer of the largest mode, a row of it and seven bytes. Without
it the theorem is false of the code: `vmwareOffscreenAllocate` compares unsigned
numbers, and where less than that is left the difference wraps
(`vmwarevideo.c:347`) and the stream is given memory of the framebuffer. The
run's device has more; the hazard is listed.

`VmwgfxSession_proofs` proves `SessionHooksWhole` (`HooksWhole`) and
`SessionShownWhole` (`ShownWhole`) from `SessionInOrder`: `Spec => []IInv`, and
`SessionMasterWithVT` (`MasterWithVT`), for every set of failures, sizes and
cursors (`SessionAssumption`). The first generation inherits mastership from
PreInit and later ones begin without (`MasterInOrder`), and which layer's
function is called depends on what each layer saved when it wrapped
(`HooksInOrder`): neither property is inductive without these. That the
kernel's master is another while the VT is away follows from drmDropMaster
having worked; where it failed, which `drv_leave_vt` only warns of, `kept` says
so. `MasterWithVT` is proved of kernels that tell their version: where
`drmGetVersion` fails, PreInit returns with its descriptor open and the legacy
driver finds a server that is still master (`vmwgfx_driver.c:273`, a hazard
that is listed), and `Faults` of the run leaves that failure out.

Only model-checked: the liveness properties `ScreenCatchesUp` and `WaitsEnd`,
for liveness under fairness and ENABLED are beyond the prover; every invariant,
action property and refinement that a run checks is proved as well. Induction
over data is beyond the prover too, which is why `LayoutsAssumption` is an
assumption. No module declares a RECURSIVE operator.

## 5. Divergences

Three runs end in a counterexample, each of one property that a comment in the
code promises:

| run | what TLC finds |
|---|---|
| `Bug_FormatChange` | a surface that a request needs in another format is killed and recreated without any region marked stale (`vmwgfx_saa.c:451`, `:49`), so its garbage counts as valid |
| `Bug_CursorRead` | a mouse move after the wrapper found the cursor elsewhere draws it into the part that is being read (`vmwarecurs.c:398`) |
| `Bug_TopologyFitsMode` | a pending topology is taken by any other mode switch, or by the next EnterVT, and does not cover the mode (`vmware.c:949`) |

More events lose contents or leave the screen stale, but no comment promises
otherwise, so no run reports them. Three are hazards, and putting their names
into `Hazards` shows `ContentsKept` violated: kernel errors that
`vmwgfx_drmi.c` drops (`ignored_error`, `vmwgfx_drmi.c:131` and `:386`),
presents whose failure is not looked at (`ignored_present`,
`vmwgfx_saa.c:1018`, `vmwgfx_driver.c:741`), and a framebuffer that is removed
before what was presented on it is read back (`unref_presented`,
`vmwgfx_saa.c:1573`; the manual warns that DirectPresents may cause rendering
errors, and these are some). The others are part of every run, and the
properties say what they cost: a download that fails as the VT is left
(`vmwgfx_saa.c:1608`), an upload that fails in the flush
(`vmwgfx_driver.c:725`), PushPixels, which damages a box it fills only in part
without a readback (`saa_unaccel.c:580`), and a GL client that draws into the
front buffer of a pixmap and reports it by glXWaitGL (`vmwgfx_dri2.c:345`). In
the same way textured video copies over a set that is still read where a wait
timed out (`vmwgfx_tex_video.c:519`) or a pixmap could not be validated
(`:597`), and `drmDropMaster` may fail unheeded.

## 6. Plan

In order of importance, each with its runs, then its proofs:

1. *Done:* `PixelMemory`, `VmwgfxPixmap`, `VmwgfxSaa`.
2. *Done:* `CommandQueue`, `VmwareFifo`, with the refinement proved.
3. *Done:* `VmwareCursor`, with its invariant proved.
4. *Done:* `VmwareScreen` with `VmwareVideo`; `VmwgfxXv` with its two ports,
   proved; `VmwgfxSession`; `Bits2Pixels`, proved.
5. `SaaAccess`: nesting of prepare and finish access, fallback count, error
   paths of the two-pixmap fallbacks.
6. `Dri2Buffer`: buffers of all attachments, their references and failures.
7. `PixmapList`, `DmaBuf`: list membership over resizes; map counts.
8. More than one CRTC over one pixmap (scanout lists), added to `VmwgfxSaa`.

Proofs after that: those of the modules still to be written, and
`HandsOffAway` and `HeldSomewhere` for single hazards that cannot break them,
with a hypothesis for each that can.

## 7. Not modelled

* Composite set-up (`vmwgfx_xa_composite.c`) translates Render state and keeps
  none; whether it accepts a request is a free choice in `VmwgfxSaa`.
* What the hosted back ends do with Mir and Wayland servers, which are outside
  the repository; only how they come and go.
* The intrusive lists, map counts, DRI2 buffers that are no fronts and the
  nesting of accesses: planned.
* Gamma, colour maps, cursor images, mode tables, connector properties, the
  meaning of options and what registers of the 3D device hold: data.
* The control utility and device headers. `PROJECT.json` lists every component
  with its status.

## 8. Running

    tlc -config Saa_TwoPixmaps.cfg MCVmwgfxSaa
    tlc -config Fifo_Ring.cfg MCVmwareFifo
    tlc -config Cursor_Moves.cfg MCVmwareCursor
    tlc -config Legacy_Screen.cfg MCVmwareScreen
    tlc -config Vmwgfx_Video.cfg MCVmwgfxXv
    tlc -config Vmwgfx_Session.cfg MCVmwgfxSession
    tlc -config Bits_Rows.cfg MCBits2Pixels
    tlapm VmwgfxSaa_proofs.tla
    tlapm VmwareFifo_proofs.tla
    tlapm VmwareCursor_proofs.tla
    tlapm Bits2Pixels_proofs.tla
    tlapm VmwgfxXv_proofs.tla
    tlapm VmwareScreen_proofs.tla
    tlapm VmwgfxSession_proofs.tla

The longest runs take one to three minutes; the proofs of each module up to
one, of `VmwgfxSaa_proofs` and the module it extends up to ten.
