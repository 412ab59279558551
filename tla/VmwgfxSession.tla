--------------------------- MODULE VmwgfxSession ---------------------------
(***************************************************************************)
(* A server's dealings with the vmwgfx driver from the probe to its end:   *)
(* the choice between the two drivers (src/vmware_bootstrap.c), what       *)
(* PreInit opens and a failure gives back, the mastership of the kernel's  *)
(* driver that goes with the VT, the functions of the screen that layers   *)
(* wrap, resizes, the hardware cursor, the control extension and the       *)
(* outputs, over VT switches and server generations (vmwgfx_driver.c,      *)
(* vmwgfx_crtc.c, vmwgfx_output.c, vmwgfx_ctrl.c, vmwgfx_hosted.c and its  *)
(* two back ends).  What the screen holds is VmwgfxSaa's matter, what Xv   *)
(* plays VmwgfxXv's.                                                       *)
(*                                                                         *)
(* "none" is the host of a server that has the console.  The other hosts   *)
(* are compositors: the driver borrows their connection to the kernel and  *)
(* sets no modes.                                                          *)
(***************************************************************************)
EXTENDS Integers, FiniteSets, Sequences

CONSTANTS
  Hosts,            (* what the server may run in: "none", "xmir", "xwl"   *)
  Faults,           (* the calls that may fail, and the steps of PreInit   *)
  FirstSize,        (* the virtual size that PreInit configures            *)
  Sizes,            (* the sizes RandR asks for                            *)
  MaxFbSize,        (* the pixels that display memory holds                *)
  Layouts,          (* the topologies that clients and options ask for     *)
  Connectors,       (* the connectors of the device                        *)
  Cursors, NoCursor,
  NoLayout,         (* the layout the host gave the kernel                 *)
  NoOutput,         (* a connector without an output                       *)
  NoScanout,        (* the CRTC is off                                     *)
  MaxGenerations    (* a bound on server regenerations                     *)

ASSUME SessionAssumption ==
  /\ Hosts \subseteq {"none", "xmir", "xwl"}
  /\ MaxGenerations \in Nat \ {0}
  /\ NoCursor \notin Cursors /\ NoLayout \notin Layouts

VARIABLES
  phase,            (* what the server has called so far                   *)
  generation,
  host,
  held,             (* what the driver has opened and allocated            *)
  options,          (* accelerate_render, SWCursor and check_fb_size       *)
  isMaster,         (* what the driver believes                            *)
  master,           (* the kernel's master: "this", "other" or "none"      *)
  kept,             (* history: drmDropMaster failed when the VT was left  *)
  vtSema,
  hook,             (* the functions of pScrn and pScreen, by their layer  *)
  saved, savedXv,   (* what the driver and the Xv layer found there        *)
  below,            (* the block handler of the layer below, as of now     *)
  xat, dri2_available,
  onHost,           (* hosted->pScreen is set                              *)
  virtual, pixmap,  (* the virtual size and the screen pixmap's            *)
  scanout,          (* what the CRTC shows: a size, or NoScanout           *)
  layout,           (* the kernel's layout of the outputs                  *)
  connector,        (* of each output, the layout when it was last asked   *)
  cursor,           (* ms->cursor                                          *)
  cursorRefs        (* the driver's references to each cursor              *)

session == <<generation, host, held, options>>
mastership == <<isMaster, master, kept, vtSema>>
hooks == <<hook, saved, savedXv, below>>
backends == <<xat, dri2_available, onHost>>
outputs == <<layout, connector>>
cursors == <<cursor, cursorRefs>>
vars == <<phase, session, mastership, hooks, backends, virtual, pixmap,
          scanout, outputs, cursors>>

----------------------------------------------------------------------------
Hosted == host # "none"
May(call) == IF call \in Faults THEN BOOLEAN ELSE {FALSE}

(* vmwgfx_modify_flags: what the driver needs of the console.              *)
ModifyFlags(flags) ==
  (flags \ {"IO"}) \cup (CASE host = "none" -> {}
                           [] host = "xmir" -> {"SKIP_CONSOLE"}
                           [] host = "xwl"  -> {"SKIP_CONSOLE", "WAYLAND"})

Console == "SKIP_CONSOLE" \notin ModifyFlags({"IO", "MMIO"})

ScrnHooks == {"EnterVT", "LeaveVT", "AdjustFrame"}
ScreenHooks == {"BlockHandler", "CreateScreenResources", "CloseScreen"}
Hooks == ScrnHooks \cup ScreenHooks

(* vmwgfx_wrap and vmwgfx_unwrap, of a set of functions.                   *)
Wrapped(vector, names) ==
  [f \in Hooks |-> IF f \in names THEN "driver" ELSE vector[f]]
Found(vector, names, before) ==
  [f \in Hooks |-> IF f \in names THEN vector[f] ELSE before[f]]
Unwrapped(vector, names, from) ==
  [f \in Hooks |-> IF f \in names THEN from[f] ELSE vector[f]]

(* The driver's function is called: it is first, or the Xv layer is and    *)
(* goes on to it.                                                          *)
Reaches(f) == hook[f] = "driver" \/ (hook[f] = "xv" /\ savedXv[f] = "driver")

----------------------------------------------------------------------------
(* drv_pre_init: the steps that may fail, in their order.                  *)
Steps == <<"bus", "hosted_create", "depth_bpp", "hosted_pre_init", "drm_open",
           "drm_get_version", "drm_version", "hw_caps", "depth", "weight",
           "visual", "options", "modes", "gamma", "load_fb", "load_dri2">>

Place(step) == CHOOSE n \in DOMAIN Steps : Steps[n] = step
Passed(step, fail) == fail = "nothing" \/ Place(step) < Place(fail)
From(step, fail) == fail # "nothing" /\ Place(step) <= Place(fail)

(* Steps that a server with, or without, a host does not take.             *)
Taken(step) ==
  /\ step \in {"hosted_create", "hosted_pre_init"} => Hosted
  /\ step = "modes" => ~Hosted

(* What the steps before fail took.  The connection is the host's, where   *)
(* it lends one.                                                           *)
Acquired(fail, borrowed) ==
  {"rec"} \cup (IF Hosted /\ Passed("hosted_create", fail)
                THEN {"hosted"} ELSE {})
          \cup (IF Passed("drm_open", fail)
                THEN {IF borrowed THEN "hosted_fd" ELSE "fd"} ELSE {})
          \cup (IF Passed("options", fail) THEN {"Options"} ELSE {})

(* The labels out_modes, out_depth, out_no_drm and out_err_bus.  A kernel  *)
(* that does not tell its version is left open: init_drm fails with fd     *)
(* set; a host that is not ready, or lacks the depth, is not destroyed.    *)
Unwound(fail) ==
  {"rec"} \cup (IF From("drm_open", fail) THEN {"hosted"} ELSE {})
          \cup (IF From("drm_version", fail) /\ ~Hosted THEN {"fd"} ELSE {})
          \cup (IF From("modes", fail) THEN {"Options"} ELSE {})

Leftover(fail, borrowed) == Acquired(fail, borrowed) \ Unwound(fail)

(* xorg_output_init: a connector that cannot be asked ends it, one whose   *)
(* output cannot be made is passed over.                                   *)
OutputInit(made, asked) ==
  [c \in Connectors |-> IF c \in made THEN asked ELSE NoOutput]

(* The layout of the configuration is given to the kernel; where that does *)
(* not work the driver only says so.                                       *)
SetTopologyOption(option, refused) ==
  IF Hosted \/ option = NoLayout \/ refused THEN layout ELSE option

Init ==
  /\ phase = "probed" /\ generation = 0 /\ host \in Hosts
  /\ held = {}
  /\ options = [accelerate |-> FALSE, sw_cursor |-> TRUE, check |-> FALSE]
  /\ isMaster = FALSE /\ master = "none" /\ kept = FALSE /\ vtSema = FALSE
  /\ hook = [f \in Hooks |-> "server"]
  /\ saved = hook /\ savedXv = hook /\ below = "server"
  /\ xat = "null" /\ dri2_available = FALSE /\ onHost = FALSE
  /\ virtual = FirstSize /\ pixmap = FirstSize /\ scanout = NoScanout
  /\ layout = NoLayout /\ connector = OutputInit({}, NoLayout)
  /\ cursor = NoCursor /\ cursorRefs = [c \in Cursors |-> 0]

(* VMwarePreinitStub: vmwgfx is tried, and where it fails the legacy       *)
(* driver, unless the server is hosted.  Opening the kernel's driver makes *)
(* the server its master.                                                  *)
PreInit ==
  /\ phase = "probed"
  /\ \E fail \in {s \in Faults \cap {Steps[n] : n \in DOMAIN Steps} : Taken(s)}
                   \cup {"nothing"},
        borrowed \in BOOLEAN, made \in SUBSET Connectors,
        option \in Layouts \cup {NoLayout}, refused \in May("update_layout") :
       /\ borrowed => Hosted
       /\ made = {} => Hosted \/ ~Passed("modes", fail)
       /\ held' = IF fail = "nothing" THEN Acquired(fail, borrowed)
                                      ELSE Leftover(fail, borrowed)
       /\ isMaster' = (fail = "nothing" /\ ~borrowed)
       /\ master' = IF "fd" \in held' THEN "this" ELSE master
       /\ layout' = IF Passed("options", fail)
                    THEN SetTopologyOption(option, refused) ELSE layout
       /\ IF fail = "nothing"
          THEN /\ phase' = "closed"
               /\ options' \in [accelerate : BOOLEAN, check : BOOLEAN,
                                sw_cursor : IF Hosted THEN {TRUE} ELSE BOOLEAN]
               /\ connector' = OutputInit(IF Hosted THEN {} ELSE made, layout')
          ELSE /\ phase' = IF Hosted THEN "refused" ELSE "legacy"
               /\ UNCHANGED <<options, connector>>
  /\ UNCHANGED <<generation, host, kept, vtSema, hooks, backends, virtual, pixmap,
                 scanout, cursors>>

----------------------------------------------------------------------------
(* drv_set_master.  drmSetMaster fails while another server is master.     *)
MasterRefused(fails) == ~Hosted /\ ~isMaster /\ (fails \/ master = "other")

SetMaster(fails) ==
  /\ isMaster' = (isMaster \/ ~MasterRefused(fails))
  /\ master' = IF Hosted \/ isMaster \/ MasterRefused(fails)
               THEN master ELSE "this"
  /\ kept' = FALSE

(* The render acceleration that ScreenInit ends up with; one of another    *)
(* version is destroyed.                                                   *)
Trackers == IF options.accelerate THEN {"null", "live"} ELSE {xat}

(* xorg_xv_init: the Xv layer wraps what the driver has, and CloseScreen,  *)
(* if there is an adaptor.                                                 *)
XvWraps == ScrnHooks \cup {"CloseScreen"}

XvInit(vector, adaptors) ==
  /\ hook' = IF adaptors
             THEN [f \in Hooks |-> IF f \in XvWraps THEN "xv" ELSE vector[f]]
             ELSE vector
  /\ savedXv' = IF adaptors THEN Found(vector, XvWraps, savedXv) ELSE savedXv

(* Mutant: the Xv layer comes first.                                       *)
WrapAllXvFirst(fresh, adaptors) ==
  /\ savedXv' = IF adaptors THEN Found(fresh, XvWraps, savedXv) ELSE savedXv
  /\ LET layered == [f \in Hooks |->
                       IF adaptors /\ f \in XvWraps THEN "xv" ELSE fresh[f]]
     IN  /\ saved' = Found(layered, Hooks, saved)
         /\ hook' = Wrapped(layered, Hooks)

(* The driver wraps the functions of the new screen, then those of pScrn,  *)
(* and only then lets the Xv layer wrap them.                              *)
WrapAll(fresh, adaptors) ==
  /\ saved' = Found(fresh, Hooks, saved)
  /\ XvInit(Wrapped(fresh, Hooks), adaptors)

(* drv_screen_init, of a server that has the VT again.  Where it fails the *)
(* server ends.                                                            *)
ScreenInit ==
  /\ phase = "closed" /\ generation < MaxGenerations
  /\ generation' = generation + 1
  /\ \E failing \in May("set_master"), hostFails \in May("hosted_screen_init"),
        adaptors \in BOOLEAN :
       /\ SetMaster(failing)
       /\ xat' \in Trackers
       /\ dri2_available' \in IF xat' = "live" THEN BOOLEAN ELSE {FALSE}
       /\ phase' = IF \/ MasterRefused(failing)
                      \/ Hosted /\ (xat' # "live" \/ hostFails)
                   THEN "ended" ELSE "started"
       /\ onHost' = (Hosted /\ phase' = "started")
       /\ vtSema' = (phase' = "started")
       /\ WrapAll([f \in Hooks |->
                     IF f \in ScreenHooks THEN "server" ELSE hook[f]], adaptors)
       /\ below' = "server"
  /\ pixmap' = virtual
  /\ UNCHANGED <<host, held, options, virtual, scanout, outputs, cursors>>

(* xf86SetDesiredModes shows the screen pixmap, or fails.  Only the master *)
(* may set a mode.                                                         *)
ModesSet(size, owner, fails) ==
  IF fails \/ owner # "this" THEN NoScanout ELSE size

(* drv_enter_vt, from then on the VT is held.  Where it fails the server   *)
(* ends.                                                                   *)
DoEnterVT ==
  \E failing \in May("set_master"), dark \in May("set_modes") :
    /\ SetMaster(failing)
    /\ scanout' = IF Hosted \/ MasterRefused(failing)
                  THEN scanout ELSE ModesSet(pixmap, master', dark)
    /\ phase' = IF MasterRefused(failing) \/ (~Hosted /\ scanout' = NoScanout)
                THEN "ended" ELSE "up"

CreateScreenResources ==
  /\ phase = "started" /\ hook["CreateScreenResources"] = "driver"
  /\ DoEnterVT
  /\ UNCHANGED <<session, vtSema, hooks, backends, virtual, pixmap, outputs,
                 cursors>>

(* vmwgfx_swap before and after the call: the layer below may have put     *)
(* another function in its place meanwhile.                                *)
SwapAround(now) ==
  /\ saved' = [saved EXCEPT !["BlockHandler"] = now]
  /\ UNCHANGED hook

BlockHandler ==
  /\ phase = "up"
  /\ below' \in {"server", "layer"} \ {below}
  /\ SwapAround(below')
  /\ UNCHANGED <<phase, session, mastership, savedXv, backends, virtual,
                 pixmap, scanout, outputs, cursors>>

----------------------------------------------------------------------------
(* Mutant: the driver forgets that it is master without telling the kernel. *)
DoLeaveVTUndropped ==
  /\ UNCHANGED master /\ kept' = FALSE
  /\ scanout' = IF Hosted THEN scanout ELSE NoScanout
  /\ isMaster' = FALSE

(* drv_leave_vt.  That drmDropMaster fails, and the kernel keeps the       *)
(* driver as its master, is only logged.                                   *)
DoLeaveVT ==
  /\ \E fails \in May("drop_master") :
       /\ master' = IF Hosted \/ fails \/ master # "this" THEN master ELSE "none"
       /\ kept' = (~Hosted /\ fails)
  /\ scanout' = IF Hosted THEN scanout ELSE NoScanout
  /\ isMaster' = FALSE

LeaveVT ==
  /\ phase = "up" /\ vtSema /\ Console /\ Reaches("LeaveVT")
  /\ DoLeaveVT
  /\ vtSema' = FALSE
  /\ UNCHANGED <<phase, session, hooks, backends, virtual, pixmap, outputs,
                 cursors>>

EnterVT ==
  /\ phase = "up" /\ ~vtSema /\ Reaches("EnterVT")
  /\ DoEnterVT
  /\ vtSema' = TRUE
  /\ UNCHANGED <<session, hooks, backends, virtual, pixmap, outputs, cursors>>

(* The server on another VT becomes master, or gives it up.                *)
OtherServer ==
  /\ phase = "up" /\ ~vtSema
  /\ \/ master = "none" /\ master' = "other"
     \/ master = "other" /\ master' = "none"
  /\ UNCHANGED <<phase, session, isMaster, kept, vtSema, hooks, backends,
                 virtual, pixmap, scanout, outputs, cursors>>

(* Mutant: the virtual size stays when the pixmap cannot be resized.       *)
ResizeFailedKeepsSize(size) == virtual' = size

ResizeFailed(size) == UNCHANGED virtual

(* drv_crtc_resize: the scanout goes, the pixmap is resized and the modes  *)
(* are set again.  That they cannot be set is only noticed when the size   *)
(* is the old one.                                                         *)
FitsMemory(size) == options.check => size[1] * size[2] <= MaxFbSize

Resize(size) ==
  /\ phase = "up" /\ ~Hosted /\ size # virtual /\ FitsMemory(size)
  /\ \E failing \in May("modify_pixmap"), dark \in May("set_modes") :
       /\ IF failing THEN ResizeFailed(size) /\ UNCHANGED pixmap
                     ELSE virtual' = size /\ pixmap' = size
       /\ scanout' = ModesSet(pixmap', master, dark)
       /\ phase' = IF failing /\ scanout' = NoScanout THEN "ended" ELSE "up"
  /\ UNCHANGED <<session, mastership, hooks, backends, outputs, cursors>>

----------------------------------------------------------------------------
(* vmwgfx_output_explicit_overlap, of outputs with the set of pixels that  *)
(* each shows.                                                             *)
ExplicitOverlap(bounds, implicit) ==
  \E a, b \in DOMAIN bounds :
    a # b /\ a \notin implicit /\ bounds[a] \cap bounds[b] # {}

(* Every output is implicit: what would make one explicit is compiled out. *)
UseHWCursor ==
  /\ ~options.sw_cursor
  /\ ~ExplicitOverlap([c \in Connectors |-> {pixmap}], Connectors)

(* The reference is taken before the old one is dropped: both may be of    *)
(* the same cursor.                                                        *)
KeepReference(c) ==
  /\ cursor' = c
  /\ cursorRefs' = [d \in Cursors |->
       cursorRefs[d] + (IF d = c THEN 1 ELSE 0) - (IF d = cursor THEN 1 ELSE 0)]

LoadCursor(c) ==
  /\ phase = "up" /\ vtSema /\ UseHWCursor
  /\ KeepReference(c)
  /\ UNCHANGED <<phase, session, mastership, hooks, backends, virtual, pixmap,
                 scanout, outputs>>

(* The control extension asks the kernel for a layout, also for another VT *)
(* than the one that is shown; the client is told when that fails.         *)
SetTopology(asked) ==
  /\ phase = "up"
  /\ layout' = asked
  /\ UNCHANGED <<phase, session, mastership, hooks, backends, virtual, pixmap,
                 scanout, connector, cursors>>

(* output_detect asks the kernel again, and goes on with what it knew      *)
(* where that fails.                                                       *)
Detect(c) ==
  /\ phase = "up" /\ connector[c] # NoOutput
  /\ connector' = [connector EXCEPT ![c] = layout]
  /\ UNCHANGED <<phase, session, mastership, hooks, backends, virtual, pixmap,
                 scanout, layout, cursors>>

----------------------------------------------------------------------------
(* The Xv layer unwraps before it calls the driver.                        *)
XvClosed(vector) ==
  IF vector["CloseScreen"] = "xv"
  THEN Unwrapped(vector, XvWraps, savedXv) ELSE vector

(* drv_close_screen.  LeaveVT is called through pScrn, then all is         *)
(* unwrapped.  The tracker's pointer stays.                                *)
CloseScreen ==
  /\ phase = "up"
  /\ LET vector == XvClosed(hook)
     IN  /\ IF vtSema /\ vector["LeaveVT"] = "driver"
            THEN DoLeaveVT
            ELSE UNCHANGED <<isMaster, master, kept, scanout>>
         /\ hook' = Unwrapped(vector, Hooks, saved)
  /\ vtSema' = FALSE
  /\ cursor' = NoCursor
  /\ cursorRefs' = [d \in Cursors |->
                     cursorRefs[d] - (IF d = cursor THEN 1 ELSE 0)]
  /\ onHost' = FALSE
  /\ xat' = IF xat = "live" THEN "dangling" ELSE xat
  /\ phase' = "closed"
  /\ UNCHANGED <<session, saved, savedXv, below, dri2_available, virtual,
                 pixmap, outputs>>

(* drv_free_screen at the end; the connection is the process's to close.   *)
FreeScreen ==
  /\ phase = "closed" /\ generation > 0
  /\ phase' = "freed"
  /\ held' = held \ {"hosted", "rec"}
  /\ UNCHANGED <<generation, host, options, mastership, hooks, backends,
                 virtual, pixmap, scanout, outputs, cursors>>

Next ==
  \/ PreInit
  \/ ScreenInit
  \/ CreateScreenResources
  \/ BlockHandler
  \/ LeaveVT
  \/ EnterVT
  \/ OtherServer
  \/ \E size \in Sizes : Resize(size)
  \/ \E c \in Cursors : LoadCursor(c)
  \/ \E asked \in Layouts : SetTopology(asked)
  \/ \E c \in Connectors : Detect(c)
  \/ CloseScreen
  \/ FreeScreen

Spec == Init /\ [][Next]_vars

----------------------------------------------------------------------------
(* A server that has the console is the kernel's master while it holds the *)
(* VT, and knows it.  Once it has left the VT the kernel's master is not   *)
(* this server, so that another one can be, and the driver knows that too; *)
(* the kernel alone may keep it, by failing drmDropMaster, which the       *)
(* driver takes as done.  This is so over switches, other servers, failing *)
(* calls and generations.  A server that gave up on vmwgfx left no open    *)
(* connection to the kernel's driver under the legacy one, whatever step   *)
(* failed (drv_set_master, drv_leave_vt, drv_pre_init; a kernel that does  *)
(* not tell its version is the exception, and is not among the faults).    *)
MasterWithVT ==
  /\ phase \in {"started", "up"} /\ vtSema /\ ~Hosted =>
       isMaster /\ master = "this"
  /\ phase \in {"up", "closed", "freed"} /\ generation > 0 /\ ~vtSema =>
       ~isMaster /\ (~Hosted /\ ~kept => master # "this")
  /\ phase = "legacy" => held \cap {"fd", "Options"} = {} /\ master # "this"

(* Whoever wraps and unwraps, the driver's functions are reached while the *)
(* screen is up, call the function of the layer below as it is now and     *)
(* never themselves, and a closed screen leaves pScrn as it was found, for *)
(* the next generation to wrap (the comment that xorg_xv_init must be      *)
(* called after the wrapping; vmwgfx_swap in the block handler).           *)
HooksWhole ==
  /\ phase \in {"started", "up"} =>
       \A f \in Hooks :
         /\ Reaches(f)
         /\ saved[f] = IF f = "BlockHandler" THEN below ELSE "server"
  /\ phase = "closed" => \A f \in ScrnHooks : hook[f] = "server"

(* Nothing is shown but the screen pixmap, whole, and by the kernel's      *)
(* master only, also after a resize that failed half-way; the driver has   *)
(* one reference to the cursor it loaded last and none to any other; and   *)
(* what needs the tracker never runs without it (drv_crtc_resize,          *)
(* drv_leave_vt, crtc_load_cursor_argb, drv_close_screen).                 *)
ShownWhole ==
  /\ phase = "up" => pixmap = virtual
  /\ phase = "up" /\ scanout # NoScanout =>
       scanout = pixmap /\ master = "this" /\ ~Hosted
  /\ \A c \in Cursors : cursorRefs[c] = IF c = cursor THEN 1 ELSE 0
  /\ phase \in {"started", "up"} =>
       /\ xat # "dangling"
       /\ dri2_available \/ Hosted => xat = "live"
=============================================================================
