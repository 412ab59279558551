------------------------ MODULE VmwgfxSession_proofs ------------------------
(***************************************************************************)
(* A server that has the console is the kernel's master while it holds the *)
(* VT and gives that up with it, reaches the driver's functions and shows  *)
(* its screen pixmap whole, for every set of hosts, faults, sizes, cursors *)
(* and connectors, and over any number of generations.                     *)
(***************************************************************************)
EXTENDS VmwgfxSession, TLAPS

Layers == {"server", "driver", "xv", "layer"}

SessionTypeOK ==
  /\ phase \in {"probed", "refused", "legacy", "closed", "started", "up",
                "ended", "freed"}
  /\ generation \in Nat
  /\ host \in {"none", "xmir", "xwl"}
  /\ isMaster \in BOOLEAN /\ kept \in BOOLEAN /\ vtSema \in BOOLEAN
  /\ hook \in [Hooks -> Layers]
  /\ saved \in [Hooks -> Layers] /\ savedXv \in [Hooks -> Layers]
  /\ below \in Layers
  /\ cursorRefs \in [Cursors -> Nat]

(* Who is master, in the phases before the screen is up and after.  The    *)
(* first generation inherits from PreInit what it opened; the later ones   *)
(* begin as EnterVT does, with nothing.                                    *)
MasterInOrder ==
  /\ phase = "probed" => master = "none" /\ ~isMaster /\ generation = 0
  /\ phase \in {"probed", "closed", "freed"} => ~vtSema
  /\ phase = "closed" /\ generation = 0 /\ ~Hosted => isMaster /\ master = "this"
  /\ phase \in {"closed", "up", "freed"} /\ generation > 0 /\ ~vtSema =>
       ~isMaster /\ (~Hosted /\ ~kept => master # "this")
  /\ phase \in {"started", "up"} /\ vtSema /\ ~Hosted =>
       isMaster /\ master = "this"
  /\ phase = "started" => vtSema
  /\ phase \in {"started", "up"} => generation > 0

(* The Xv layer lies over the driver, or there is none.                    *)
Layered ==
  \/ \A f \in Hooks : hook[f] = "driver"
  \/ /\ \A f \in XvWraps : hook[f] = "xv" /\ savedXv[f] = "driver"
     /\ \A f \in Hooks \ XvWraps : hook[f] = "driver"

HooksInOrder ==
  /\ phase \in {"started", "up"} =>
       /\ Layered
       /\ \A f \in Hooks :
            saved[f] = IF f = "BlockHandler" THEN below ELSE "server"
  /\ phase \in {"probed", "closed"} => \A f \in ScrnHooks : hook[f] = "server"

ShownInOrder ==
  /\ pixmap = virtual
  /\ Hosted \/ phase = "probed" => scanout = NoScanout
  /\ phase = "up" /\ scanout # NoScanout => scanout = pixmap /\ master = "this"
  /\ \A c \in Cursors : cursorRefs[c] = IF c = cursor THEN 1 ELSE 0
  /\ ~options.accelerate => xat = "null"
  /\ phase = "probed" => xat = "null"
  /\ phase \in {"started", "up"} =>
       /\ xat # "dangling"
       /\ dri2_available \/ Hosted => xat = "live"

(* The inductive invariant.                                                *)
IInv == SessionTypeOK /\ MasterInOrder /\ HooksInOrder /\ ShownInOrder

----------------------------------------------------------------------------
LEMMA HookNames ==
  /\ Hooks = {"EnterVT", "LeaveVT", "AdjustFrame", "BlockHandler",
              "CreateScreenResources", "CloseScreen"}
  /\ XvWraps \subseteq Hooks /\ ScrnHooks \subseteq XvWraps
  /\ "CloseScreen" \in XvWraps /\ "BlockHandler" \notin XvWraps
  /\ "BlockHandler" \notin ScrnHooks
BY DEF Hooks, ScrnHooks, ScreenHooks, XvWraps

LEMMA InitIInv == Init => IInv
<1> SUFFICES ASSUME Init PROVE IInv
  OBVIOUS
<1>1. SessionTypeOK
  BY SessionAssumption DEF Init, SessionTypeOK, Layers
<1>2. MasterInOrder /\ ShownInOrder
  BY SessionAssumption DEF Init, MasterInOrder, ShownInOrder
<1>3. HooksInOrder
  BY HookNames DEF Init, HooksInOrder
<1> QED
  BY <1>1, <1>2, <1>3 DEF IInv

(* Every name of a step is in one place of the sequence.                   *)
LEMMA PlaceOf ==
  ASSUME NEW n \in DOMAIN Steps
  PROVE  Place(Steps[n]) = n
<1>1. \A k \in DOMAIN Steps : Steps[k] = Steps[n] => k = n
  BY DEF Steps
<1> QED
  BY <1>1 DEF Place

LEMMA PreInitIInv == IInv /\ PreInit => IInv'
<1> SUFFICES ASSUME IInv, PreInit PROVE IInv'
  OBVIOUS
<1>1. PICK fail \in (Faults \cap {Steps[n] : n \in DOMAIN Steps}) \cup {"nothing"},
           borrowed \in BOOLEAN :
        /\ borrowed => Hosted
        /\ held' = IF fail = "nothing" THEN Acquired(fail, borrowed)
                                       ELSE Leftover(fail, borrowed)
        /\ isMaster' = (fail = "nothing" /\ ~borrowed)
        /\ master' = IF "fd" \in held' THEN "this" ELSE master
        /\ IF fail = "nothing"
           THEN /\ phase' = "closed"
                /\ options' \in [accelerate : BOOLEAN, check : BOOLEAN,
                                 sw_cursor : IF Hosted THEN {TRUE} ELSE BOOLEAN]
           ELSE /\ phase' = IF Hosted THEN "refused" ELSE "legacy"
                /\ UNCHANGED options
  BY DEF PreInit
<1>2. phase = "probed"
  BY DEF PreInit
<1>3. SessionTypeOK'
  BY <1>1 DEF IInv, SessionTypeOK, PreInit, session, hooks, backends, cursors
<1>4. fail = "nothing" /\ ~borrowed => "fd" \in held'
  BY <1>1 DEF Acquired, Passed
<1>5. MasterInOrder'
  <2>1. generation' = 0 /\ host' = host /\ ~vtSema'
    BY <1>2 DEF IInv, MasterInOrder, PreInit
  <2>2. CASE fail = "nothing"
    <3>1. ~Hosted => isMaster' /\ master' = "this"
      BY <1>1, <1>4, <2>2
    <3> QED
      BY <1>1, <2>1, <2>2, <3>1 DEF MasterInOrder, Hosted
  <2>3. CASE fail # "nothing"
    BY <1>1, <2>1, <2>3 DEF MasterInOrder
  <2> QED
    BY <2>2, <2>3
<1>6. HooksInOrder'
  BY <1>1, <1>2 DEF IInv, HooksInOrder, PreInit, hooks
<1>7. ShownInOrder'
  BY <1>1, <1>2 DEF IInv, ShownInOrder, PreInit, Hosted, backends, cursors
<1> QED
  BY <1>3, <1>5, <1>6, <1>7 DEF IInv

----------------------------------------------------------------------------
(* After drv_set_master the driver is master, as it believes, or was       *)
(* refused.                                                                *)
LEMMA SetMasterInOrder ==
  ASSUME NEW fails \in BOOLEAN, SetMaster(fails), ~Hosted,
         isMaster \in BOOLEAN, isMaster => master = "this"
  PROVE  \/ MasterRefused(fails)
         \/ isMaster' /\ master' = "this"
BY DEF SetMaster, MasterRefused

LEMMA ScreenInitIInv == IInv /\ ScreenInit => IInv'
<1> SUFFICES ASSUME IInv, ScreenInit PROVE IInv'
  OBVIOUS
<1> DEFINE fresh == [f \in Hooks |-> IF f \in ScreenHooks THEN "server" ELSE hook[f]]
<1>1. PICK failing \in BOOLEAN, hostFails \in BOOLEAN, adaptors \in BOOLEAN :
        /\ SetMaster(failing)
        /\ xat' \in Trackers
        /\ dri2_available' \in IF xat' = "live" THEN BOOLEAN ELSE {FALSE}
        /\ phase' = IF \/ MasterRefused(failing)
                       \/ Hosted /\ (xat' # "live" \/ hostFails)
                    THEN "ended" ELSE "started"
        /\ vtSema' = (phase' = "started")
        /\ WrapAll(fresh, adaptors)
        /\ below' = "server"
  BY DEF ScreenInit, May
<1>2. phase = "closed" /\ ~vtSema /\ generation' = generation + 1
  BY DEF IInv, MasterInOrder, ScreenInit
<1>3. UNCHANGED <<host, options, virtual, scanout, cursor, cursorRefs>>
      /\ pixmap' = virtual
  BY DEF ScreenInit, cursors
<1>4. \A f \in Hooks : fresh[f] = "server"
  BY <1>2 DEF IInv, HooksInOrder, Hooks
<1>5. saved' = [f \in Hooks |-> "server"]
  BY <1>1, <1>4 DEF WrapAll, Found
<1>6. /\ hook' = [f \in Hooks |-> IF adaptors /\ f \in XvWraps THEN "xv"
                                                               ELSE "driver"]
      /\ savedXv' = IF adaptors
                    THEN [f \in Hooks |-> IF f \in XvWraps THEN "driver"
                                                           ELSE savedXv[f]]
                    ELSE savedXv
  BY <1>1, HookNames DEF WrapAll, XvInit, Wrapped, Found
<1>7. isMaster' \in BOOLEAN /\ kept' = FALSE
  BY <1>1 DEF SetMaster
<1>8. SessionTypeOK'
  <2>1. /\ hook' \in [Hooks -> Layers] /\ saved' \in [Hooks -> Layers]
        /\ savedXv' \in [Hooks -> Layers] /\ below' \in Layers
    BY <1>1, <1>5, <1>6 DEF IInv, SessionTypeOK, Layers
  <2>2. phase' \in {"started", "ended"} /\ vtSema' \in BOOLEAN
    BY <1>1
  <2>3. isMaster' \in BOOLEAN /\ kept' \in BOOLEAN
    BY <1>7
  <2> QED
    BY <1>2, <1>3, <2>1, <2>2, <2>3 DEF IInv, SessionTypeOK
<1>9. MasterInOrder'
  <2>1. ~Hosted /\ isMaster => master = "this"
    BY <1>2 DEF IInv, MasterInOrder, SessionTypeOK
  <2>2. ~Hosted => MasterRefused(failing) \/ (isMaster' /\ master' = "this")
    BY <1>1, <2>1, SetMasterInOrder DEF IInv, SessionTypeOK
  <2>3. generation' \in Nat /\ generation' > 0
    BY <1>2 DEF IInv, SessionTypeOK
  <2> QED
    BY <1>1, <1>3, <2>2, <2>3 DEF MasterInOrder, Hosted
<1>10. HooksInOrder'
  BY <1>1, <1>5, <1>6, HookNames DEF HooksInOrder, Layered
<1>11. ShownInOrder'
  <2>1. ~options.accelerate => xat' = "null"
    BY <1>1 DEF IInv, ShownInOrder, Trackers
  <2>2. xat' # "dangling"
    BY <1>1 DEF IInv, ShownInOrder, Trackers
  <2> QED
    BY <1>1, <1>2, <1>3, <2>1, <2>2 DEF IInv, ShownInOrder, Hosted
<1> QED
  BY <1>8, <1>9, <1>10, <1>11 DEF IInv

(* drv_enter_vt, with the VT held afterwards.                              *)
LEMMA DoEnterVTIInv ==
  ASSUME IInv, DoEnterVT, phase \in {"started", "up"}, phase = "up" => ~vtSema,
         vtSema',
         UNCHANGED <<generation, host, options, hooks, backends, virtual, pixmap,
                     cursors>>
  PROVE  IInv'
<1>1. PICK failing \in BOOLEAN, dark \in BOOLEAN :
        /\ SetMaster(failing)
        /\ scanout' = IF Hosted \/ MasterRefused(failing)
                      THEN scanout ELSE ModesSet(pixmap, master', dark)
        /\ phase' = IF MasterRefused(failing) \/ (~Hosted /\ scanout' = NoScanout)
                    THEN "ended" ELSE "up"
  BY DEF DoEnterVT, May
<1>2. isMaster' \in BOOLEAN /\ kept' = FALSE
  BY <1>1 DEF SetMaster
<1>3. ~Hosted /\ isMaster => master = "this"
  BY DEF IInv, MasterInOrder
<1>4. ~Hosted => MasterRefused(failing) \/ (isMaster' /\ master' = "this")
  BY <1>1, <1>3, SetMasterInOrder DEF IInv, SessionTypeOK
<1>5. SessionTypeOK'
  BY <1>1, <1>2 DEF IInv, SessionTypeOK, hooks, cursors
<1>6. MasterInOrder'
  BY <1>1, <1>4 DEF IInv, MasterInOrder, Hosted
<1>7. HooksInOrder'
  BY <1>1 DEF IInv, HooksInOrder, Layered, hooks
<1>8. ShownInOrder'
  BY <1>1 DEF IInv, ShownInOrder, Hosted, ModesSet, backends, cursors
<1> QED
  BY <1>5, <1>6, <1>7, <1>8 DEF IInv

LEMMA CreateScreenResourcesIInv == IInv /\ CreateScreenResources => IInv'
<1> SUFFICES ASSUME IInv, CreateScreenResources PROVE IInv'
  OBVIOUS
<1>1. phase = "started" /\ vtSema'
  BY DEF IInv, MasterInOrder, CreateScreenResources
<1> QED
  BY <1>1, DoEnterVTIInv DEF CreateScreenResources, session

LEMMA EnterVTIInv == IInv /\ EnterVT => IInv'
BY DoEnterVTIInv DEF EnterVT, session

LEMMA BlockHandlerIInv == IInv /\ BlockHandler => IInv'
<1> SUFFICES ASSUME IInv, BlockHandler PROVE IInv'
  OBVIOUS
<1>1. /\ phase = "up" /\ phase' = "up" /\ below' \in {"server", "layer"}
      /\ saved' = [saved EXCEPT !["BlockHandler"] = below']
      /\ UNCHANGED <<generation, host, options, isMaster, master, kept, vtSema, hook,
                     savedXv, xat, dri2_available, virtual, pixmap, scanout,
                     cursor, cursorRefs>>
  BY DEF BlockHandler, SwapAround, session, mastership, backends, cursors
<1>2. SessionTypeOK'
  BY <1>1 DEF IInv, SessionTypeOK, Layers
<1>3. MasterInOrder'
  BY <1>1 DEF IInv, MasterInOrder, Hosted
<1>4. HooksInOrder'
  BY <1>1 DEF IInv, HooksInOrder, Layered, SessionTypeOK
<1>5. ShownInOrder'
  BY <1>1 DEF IInv, ShownInOrder, Hosted
<1> QED
  BY <1>2, <1>3, <1>4, <1>5 DEF IInv

----------------------------------------------------------------------------
(* drv_leave_vt lets go of what the kernel lets go of.                     *)
LEMMA DoLeaveVTLetsGo ==
  ASSUME DoLeaveVT, host' = host
  PROVE  /\ isMaster' = FALSE /\ kept' \in BOOLEAN
         /\ ~Hosted /\ ~kept' => master' # "this"
BY DEF DoLeaveVT, May, Hosted

LEMMA LeaveVTIInv == IInv /\ LeaveVT => IInv'
<1> SUFFICES ASSUME IInv, LeaveVT PROVE IInv'
  OBVIOUS
<1>1. /\ phase = "up" /\ phase' = "up" /\ vtSema' = FALSE
      /\ scanout' = (IF Hosted THEN scanout ELSE NoScanout)
      /\ UNCHANGED <<generation, host, options, hook, saved, savedXv, below, xat,
                     dri2_available, virtual, pixmap, cursor, cursorRefs>>
  BY DEF LeaveVT, DoLeaveVT, session, hooks, backends, cursors
<1>2. /\ isMaster' = FALSE /\ kept' \in BOOLEAN
      /\ ~Hosted /\ ~kept' => master' # "this"
  BY <1>1, DoLeaveVTLetsGo DEF LeaveVT
<1>3. SessionTypeOK'
  BY <1>1, <1>2 DEF IInv, SessionTypeOK
<1>4. MasterInOrder'
  BY <1>1, <1>2 DEF IInv, MasterInOrder, Hosted
<1>5. HooksInOrder'
  BY <1>1 DEF IInv, HooksInOrder, Layered
<1>6. ShownInOrder'
  BY <1>1 DEF IInv, ShownInOrder, Hosted
<1> QED
  BY <1>3, <1>4, <1>5, <1>6 DEF IInv

(* The other server can only become master when this one gave it up, and   *)
(* then nothing of this one is shown.                                      *)
LEMMA OtherServerIInv == IInv /\ OtherServer => IInv'
<1> SUFFICES ASSUME IInv, OtherServer PROVE IInv'
  OBVIOUS
<1>1. /\ phase = "up" /\ ~vtSema /\ master # "this" /\ master' # "this"
      /\ UNCHANGED <<phase, generation, host, options, isMaster, kept, vtSema, hook,
                     saved, savedXv, below, xat, dri2_available, virtual, pixmap,
                     scanout, cursor, cursorRefs>>
  BY DEF OtherServer, session, hooks, backends, cursors
<1>2. SessionTypeOK'
  BY <1>1 DEF IInv, SessionTypeOK
<1>3. MasterInOrder'
  BY <1>1 DEF IInv, MasterInOrder, Hosted
<1>4. HooksInOrder'
  BY <1>1 DEF IInv, HooksInOrder, Layered
<1>5. ShownInOrder'
  BY <1>1 DEF IInv, ShownInOrder, Hosted
<1> QED
  BY <1>2, <1>3, <1>4, <1>5 DEF IInv

(* A resize that fails half-way leaves the pixmap of the virtual size.     *)
LEMMA ResizeIInv == \A size \in Sizes : IInv /\ Resize(size) => IInv'
<1> SUFFICES ASSUME NEW size \in Sizes, IInv, Resize(size) PROVE IInv'
  OBVIOUS
<1>1. PICK failing \in BOOLEAN, dark \in BOOLEAN :
        /\ IF failing THEN ResizeFailed(size) /\ UNCHANGED pixmap
                      ELSE virtual' = size /\ pixmap' = size
        /\ scanout' = ModesSet(pixmap', master, dark)
        /\ phase' = IF failing /\ scanout' = NoScanout THEN "ended" ELSE "up"
  BY DEF Resize, May
<1>2. /\ phase = "up" /\ ~Hosted
      /\ UNCHANGED <<generation, host, options, isMaster, master, kept, vtSema, hook,
                     saved, savedXv, below, xat, dri2_available, cursor, cursorRefs>>
  BY DEF Resize, session, mastership, hooks, backends, cursors
<1>3. SessionTypeOK'
  BY <1>1, <1>2 DEF IInv, SessionTypeOK
<1>4. MasterInOrder'
  BY <1>1, <1>2 DEF IInv, MasterInOrder, Hosted
<1>5. HooksInOrder'
  BY <1>1, <1>2 DEF IInv, HooksInOrder, Layered
<1>6. ShownInOrder'
  BY <1>1, <1>2 DEF IInv, ShownInOrder, Hosted, ResizeFailed, ModesSet
<1> QED
  BY <1>3, <1>4, <1>5, <1>6 DEF IInv

LEMMA LoadCursorIInv == \A c \in Cursors : IInv /\ LoadCursor(c) => IInv'
<1> SUFFICES ASSUME NEW c \in Cursors, IInv, LoadCursor(c) PROVE IInv'
  OBVIOUS
<1>1. /\ cursor' = c
      /\ cursorRefs' = [d \in Cursors |->
           cursorRefs[d] + (IF d = c THEN 1 ELSE 0) - (IF d = cursor THEN 1 ELSE 0)]
      /\ UNCHANGED <<phase, generation, host, options, isMaster, master, kept, vtSema,
                     hook, saved, savedXv, below, xat, dri2_available, virtual,
                     pixmap, scanout>>
  BY DEF LoadCursor, KeepReference, session, mastership, hooks, backends
<1>2. \A d \in Cursors : cursorRefs[d] = IF d = cursor THEN 1 ELSE 0
  BY DEF IInv, ShownInOrder
<1>3. \A d \in Cursors : cursorRefs'[d] = IF d = c THEN 1 ELSE 0
  BY <1>1, <1>2
<1>4. SessionTypeOK'
  BY <1>1, <1>3 DEF IInv, SessionTypeOK
<1>5. MasterInOrder' /\ HooksInOrder'
  BY <1>1 DEF IInv, MasterInOrder, HooksInOrder, Layered, Hosted
<1>6. ShownInOrder'
  BY <1>1, <1>3 DEF IInv, ShownInOrder, Hosted
<1> QED
  BY <1>4, <1>5, <1>6 DEF IInv

(* What clients ask of the outputs touches nothing that IInv speaks of.    *)
LEMMA OutputsIInv ==
  ASSUME IInv,
         UNCHANGED <<phase, session, mastership, hooks, backends, virtual, pixmap,
                     scanout, cursors>>
  PROVE  IInv'
<1>1. UNCHANGED <<phase, generation, host, options, isMaster, master, kept, vtSema, hook,
                  saved, savedXv, below, xat, dri2_available, virtual, pixmap,
                  scanout, cursor, cursorRefs>>
  BY DEF session, mastership, hooks, backends, cursors
<1>2. SessionTypeOK' /\ MasterInOrder'
  BY <1>1 DEF IInv, SessionTypeOK, MasterInOrder, Hosted
<1>3. HooksInOrder' /\ ShownInOrder'
  BY <1>1 DEF IInv, HooksInOrder, Layered, ShownInOrder, Hosted
<1> QED
  BY <1>2, <1>3 DEF IInv

----------------------------------------------------------------------------
(* The functions of the closed screen are those the driver found, whether  *)
(* the Xv layer has gone before or was not there.                          *)
LEMMA CloseScreenHooks ==
  ASSUME IInv, CloseScreen
  PROVE  /\ XvClosed(hook)["LeaveVT"] = "driver"
         /\ hook' = [f \in Hooks |-> saved[f]]
<1>1. Layered /\ hook \in [Hooks -> Layers]
  BY DEF IInv, HooksInOrder, SessionTypeOK, CloseScreen
<1>2. \A f \in Hooks : XvClosed(hook)[f] = "driver"
  <2>1. CASE hook["CloseScreen"] = "xv"
    <3>1. \A f \in XvWraps : savedXv[f] = "driver"
      BY <1>1, <2>1, HookNames DEF Layered
    <3>2. \A f \in Hooks \ XvWraps : hook[f] = "driver"
      BY <1>1, <2>1, HookNames DEF Layered
    <3> QED
      BY <2>1, <3>1, <3>2 DEF XvClosed, Unwrapped
  <2>2. CASE hook["CloseScreen"] # "xv"
    BY <1>1, <2>2, HookNames DEF Layered, XvClosed
  <2> QED
    BY <2>1, <2>2
<1>3. hook' = Unwrapped(XvClosed(hook), Hooks, saved)
  BY DEF CloseScreen
<1> QED
  BY <1>2, <1>3, HookNames DEF Unwrapped

LEMMA CloseScreenIInv == IInv /\ CloseScreen => IInv'
<1> SUFFICES ASSUME IInv, CloseScreen PROVE IInv'
  OBVIOUS
<1>1. XvClosed(hook)["LeaveVT"] = "driver" /\ hook' = [f \in Hooks |-> saved[f]]
  BY CloseScreenHooks
<1>2. /\ phase = "up" /\ phase' = "closed" /\ vtSema' = FALSE
      /\ cursor' = NoCursor
      /\ cursorRefs' = [d \in Cursors |->
                          cursorRefs[d] - (IF d = cursor THEN 1 ELSE 0)]
      /\ xat' = (IF xat = "live" THEN "dangling" ELSE xat)
      /\ UNCHANGED <<generation, host, options, saved, savedXv, below, virtual,
                     pixmap>>
  BY DEF CloseScreen, session
<1>3. IF vtSema THEN DoLeaveVT ELSE UNCHANGED <<isMaster, master, kept, scanout>>
  BY <1>1 DEF CloseScreen
<1>4. /\ isMaster' = FALSE /\ kept' \in BOOLEAN
      /\ ~Hosted /\ ~kept' => master' # "this"
  <2>1. CASE vtSema
    BY <1>2, <1>3, <2>1, DoLeaveVTLetsGo
  <2>2. CASE ~vtSema
    BY <1>2, <1>3, <2>2 DEF IInv, MasterInOrder, SessionTypeOK
  <2> QED
    BY <2>1, <2>2
<1>5. Hosted => scanout' = NoScanout
  BY <1>3 DEF IInv, ShownInOrder, DoLeaveVT
<1>6. \A d \in Cursors : cursorRefs'[d] = 0
  BY <1>2 DEF IInv, ShownInOrder
<1>7. SessionTypeOK'
  <2>1. cursorRefs' \in [Cursors -> Nat]
    BY <1>2, <1>6
  <2>2. hook' \in [Hooks -> Layers]
    BY <1>1 DEF IInv, SessionTypeOK
  <2> QED
    BY <1>2, <1>4, <2>1, <2>2 DEF IInv, SessionTypeOK
<1>8. MasterInOrder'
  BY <1>2, <1>4 DEF IInv, MasterInOrder, SessionTypeOK, Hosted
<1>9. HooksInOrder'
  BY <1>1, <1>2, HookNames DEF IInv, HooksInOrder
<1>10. ShownInOrder'
  BY <1>2, <1>5, <1>6, SessionAssumption DEF IInv, ShownInOrder, Hosted
<1> QED
  BY <1>7, <1>8, <1>9, <1>10 DEF IInv

LEMMA FreeScreenIInv == IInv /\ FreeScreen => IInv'
<1> SUFFICES ASSUME IInv, FreeScreen PROVE IInv'
  OBVIOUS
<1>1. /\ phase = "closed" /\ phase' = "freed"
      /\ UNCHANGED <<generation, host, options, isMaster, master, kept, vtSema, hook,
                     saved, savedXv, below, xat, dri2_available, virtual, pixmap,
                     scanout, cursor, cursorRefs>>
  BY DEF FreeScreen, mastership, hooks, backends, cursors
<1>2. SessionTypeOK' /\ MasterInOrder' /\ HooksInOrder'
  BY <1>1 DEF IInv, SessionTypeOK, MasterInOrder, HooksInOrder, Hosted
<1>3. ShownInOrder'
  BY <1>1 DEF IInv, ShownInOrder, Hosted
<1> QED
  BY <1>2, <1>3 DEF IInv

LEMMA NextIInv == IInv /\ [Next]_vars => IInv'
<1> SUFFICES ASSUME IInv, [Next]_vars PROVE IInv'
  OBVIOUS
<1>1. ASSUME NEW asked \in Layouts, SetTopology(asked) PROVE IInv'
  BY <1>1, OutputsIInv DEF SetTopology
<1>2. ASSUME NEW c \in Connectors, Detect(c) PROVE IInv'
  BY <1>2, OutputsIInv DEF Detect
<1>3. CASE UNCHANGED vars
  BY <1>3, OutputsIInv DEF vars
<1> QED
  BY <1>1, <1>2, <1>3, PreInitIInv, ScreenInitIInv, CreateScreenResourcesIInv,
     BlockHandlerIInv, LeaveVTIInv, EnterVTIInv, OtherServerIInv, ResizeIInv,
     LoadCursorIInv, CloseScreenIInv, FreeScreenIInv
     DEF Next

(* In every reachable state mastership, the functions of the screen, what  *)
(* is shown and the references of cursors are in order.                    *)
THEOREM SessionInOrder == Spec => []IInv
BY InitIInv, NextIInv, PTL DEF Spec

----------------------------------------------------------------------------
(* What a failed PreInit leaves to the legacy driver.                      *)
LegacyClean ==
  phase = "legacy" => held \cap {"fd", "Options"} = {} /\ master # "this"

(* Each step that took something is undone by a label that every later     *)
(* failure reaches, but for a kernel that does not tell its version.       *)
LEMMA UnwoundClean ==
  ASSUME NEW fail \in {Steps[n] : n \in DOMAIN Steps} \ {"drm_get_version"}, ~Hosted
  PROVE  Leftover(fail, FALSE) \cap {"fd", "Options"} = {}
<1>1. PICK n \in DOMAIN Steps : fail = Steps[n]
  OBVIOUS
<1>2. Place(fail) = n
  BY <1>1, PlaceOf
<1>3. /\ 5 \in DOMAIN Steps /\ Steps[5] = "drm_open"
      /\ 7 \in DOMAIN Steps /\ Steps[7] = "drm_version"
      /\ 12 \in DOMAIN Steps /\ Steps[12] = "options"
      /\ 13 \in DOMAIN Steps /\ Steps[13] = "modes"
      /\ DOMAIN Steps = 1 .. 16
  BY DEF Steps
<1>4. /\ Place("drm_open") = 5 /\ Place("drm_version") = 7
      /\ Place("options") = 12 /\ Place("modes") = 13
  BY <1>3, PlaceOf
<1>5. n # 6 /\ fail # "nothing"
  BY <1>1 DEF Steps
<1>6. n \in 1 .. 16
  BY <1>3
<1> HIDE DEF Steps
<1>7. "fd" \in Acquired(fail, FALSE) => "fd" \in Unwound(fail)
  BY <1>2, <1>4, <1>5, <1>6 DEF Acquired, Unwound, Passed, From
<1>8. "Options" \in Acquired(fail, FALSE) => "Options" \in Unwound(fail)
  BY <1>2, <1>4, <1>5, <1>6 DEF Acquired, Unwound, Passed, From
<1> QED
  BY <1>7, <1>8 DEF Leftover

(* The console's server is master while it holds the VT; without the VT    *)
(* neither does the kernel have it as its master, unless it refused to let *)
(* go, nor does the driver think so; and the legacy driver finds the       *)
(* device free.  Of the steps of PreInit all but the one that does not     *)
(* close what it opened may fail.                                          *)
THEOREM SessionMasterWithVT ==
  ASSUME "drm_get_version" \notin Faults
  PROVE  Spec => []MasterWithVT
<1>1. Init => LegacyClean
  BY DEF Init, LegacyClean
<1>2. IInv /\ LegacyClean /\ [Next]_vars => LegacyClean'
  <2> SUFFICES ASSUME IInv, LegacyClean, [Next]_vars PROVE LegacyClean'
    OBVIOUS
  <2>1. CASE PreInit
    <3> SUFFICES ASSUME phase' = "legacy"
                 PROVE  held' \cap {"fd", "Options"} = {} /\ master' # "this"
      BY DEF LegacyClean
    <3>1. PICK fail \in (Faults \cap {Steps[n] : n \in DOMAIN Steps}) \cup {"nothing"},
               borrowed \in BOOLEAN :
            /\ borrowed => Hosted
            /\ held' = IF fail = "nothing" THEN Acquired(fail, borrowed)
                                           ELSE Leftover(fail, borrowed)
            /\ master' = IF "fd" \in held' THEN "this" ELSE master
            /\ fail = "nothing" => phase' = "closed"
            /\ fail # "nothing" => phase' = IF Hosted THEN "refused" ELSE "legacy"
      BY <2>1 DEF PreInit
    <3>2. fail # "nothing" /\ ~Hosted /\ borrowed = FALSE
      BY <3>1
    <3>3. fail \in {Steps[n] : n \in DOMAIN Steps} \ {"drm_get_version"}
      BY <3>1, <3>2
    <3>4. held' \cap {"fd", "Options"} = {}
      BY <3>1, <3>2, <3>3, UnwoundClean
    <3>5. master # "this"
      BY <2>1 DEF IInv, MasterInOrder, PreInit
    <3> QED
      BY <3>1, <3>4, <3>5
  <2>2. CASE ~PreInit
    <3>1. phase # "legacy" => phase' # "legacy"
      BY <2>2 DEF Next, vars, ScreenInit, CreateScreenResources, DoEnterVT,
         BlockHandler, LeaveVT, EnterVT, OtherServer, Resize, LoadCursor,
         SetTopology, Detect, CloseScreen, FreeScreen
    <3>2. phase = "legacy" => UNCHANGED vars
      BY <2>2 DEF Next, ScreenInit, CreateScreenResources, BlockHandler, LeaveVT,
         EnterVT, OtherServer, Resize, LoadCursor, SetTopology, Detect,
         CloseScreen, FreeScreen
    <3> QED
      BY <3>1, <3>2 DEF LegacyClean, vars, session, mastership
  <2> QED
    BY <2>1, <2>2
<1>3. IInv /\ LegacyClean => MasterWithVT
  BY DEF IInv, MasterInOrder, LegacyClean, MasterWithVT
<1> QED
  BY <1>1, <1>2, <1>3, SessionInOrder, PTL DEF Spec

(* The driver's functions are reached, and call those of the layer below.  *)
THEOREM SessionHooksWhole == Spec => []HooksWhole
<1>1. IInv => HooksWhole
  BY HookNames DEF IInv, HooksInOrder, Layered, HooksWhole, Reaches
<1> QED
  BY <1>1, SessionInOrder, PTL

(* What is shown is the screen pixmap, by the master; cursors are          *)
(* referenced once; the tracker is there where it is needed.               *)
THEOREM SessionShownWhole == Spec => []ShownWhole
<1>1. IInv => ShownWhole
  BY SessionAssumption
     DEF IInv, ShownInOrder, ShownWhole, Hosted
<1> QED
  BY <1>1, SessionInOrder, PTL

=============================================================================
