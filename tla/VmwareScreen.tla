---------------------------- MODULE VmwareScreen ----------------------------
(***************************************************************************)
(* The screen of the legacy driver: modes, the registers of the virtual    *)
(* device, the topology that clients see through Xinerama, the control     *)
(* extension that asks for modes and topologies, VT switches, server       *)
(* generations, and the Xv overlay that lives in the VRAM the mode leaves  *)
(* (src/vmware.c, src/vmwarectrl.c, src/vmwarexinerama.c,                  *)
(* src/vmware_common.c, src/vmwarevideo.c).                                *)
(*                                                                         *)
(* Sizes are pairs.  A mode is its place in pScrn->modes, which is what a  *)
(* pointer to it is to the code: DoSetRes changes modes it has pointers    *)
(* to.  A topology is a sequence of rectangles.  vgaHWInit and the set-up  *)
(* of visuals, which fail only for a misconfigured server, do not fail.    *)
(***************************************************************************)
EXTENDS VmwareVideo, SequencesExt

CONSTANTS
  Ids,              (* the IDs that devices implement, of 0, 1 and 2       *)
  Capabilities,     (* the sets of capabilities that devices have          *)
  MaxSize,          (* maxWidth and maxHeight of the device                *)
  MinInitial,       (* VMW_MIN_INITIAL_WIDTH and _HEIGHT                   *)
  Formats,          (* [depth, bpp]: what the device may report            *)
  DepthOptions,     (* [depth, bpp] the server is told to use, or NoOption *)
  DefaultModes,     (* VMWAREDefaultModes: the sizes ScreenInit adds       *)
  Requested,        (* the sizes SetRes is asked for                       *)
  Layouts,          (* the topologies SetTopology is asked for             *)
  GuiLayouts,       (* what the option may be: tokens, or NoOption         *)
  NoOption,
  MaxGenerations,   (* a bound on server regenerations                     *)
  Allocations,      (* whether malloc and calloc may fail: FALSE if so     *)
  NoState,          (* NULL for a topology                                 *)
  NoMode,           (* NULL for a mode                                     *)
  SingleDisplay     (* the topology a device is in after a mode is written *)

ASSUME ScreenAssumption ==
  /\ MaxSize \in Nat \X Nat /\ MinInitial \in Nat \X Nat
  /\ DefaultModes \subseteq Nat \X Nat /\ IsFiniteSet(DefaultModes)
  /\ Requested \subseteq Nat \X Nat
  /\ Ids \subseteq 0 .. 2
  /\ Allocations \subseteq BOOLEAN
  /\ MaxGenerations \in Nat \ {0}
  /\ NoMode \notin Nat /\ NoState \notin Layouts

VARIABLES
  phase,            (* what the server has called so far                   *)
  generation,
  GuiLayout,        (* the option of the configuration file               *)
  caps,             (* vmwareCapability                                    *)
  reg,              (* SVGA_REG_ENABLE, ID, WIDTH and HEIGHT of the device *)
  displays,         (* SVGA_REG_DISPLAY_*: the topology of the device      *)
  version,          (* the newest ID the device implements                 *)
  SavedReg,
  suspensionSavedRegId,
  vtSema,
  modes, currentMode, virtual,
  dynModes,
  ModeReg,          (* svga_reg_width and svga_reg_height                  *)
  xinerama, xineramaStatic,
  xineramaState, xineramaNextState,
  video,            (* the overlay port, VideoSetup when there is none     *)
  isOn              (* what the server's Xv layer thinks of the port       *)

device == <<reg, displays, version>>
topology == <<xinerama, xineramaStatic, xineramaState, xineramaNextState>>
modelist == <<modes, dynModes>>
server == <<phase, generation, GuiLayout, caps, SavedReg>>
vars == <<server, device, suspensionSavedRegId, vtSema, modelist, currentMode,
          virtual, ModeReg, topology, video, isOn>>

----------------------------------------------------------------------------
Bigger(a, b) == IF a > b THEN a ELSE b

Cover(a, b) == <<Bigger(a[1], b[1]), Bigger(a[2], b[2])>>
Within(a, b) == a[1] <= b[1] /\ a[2] <= b[2]

FbSize(size) == [size |-> size[1] * size[2], pitch |-> size[1]]

Rect(x, y, w, h) == [x_org |-> x, y_org |-> y, width |-> w, height |-> h]

(* The corner is kept in two shorts.                                       *)
Short(n) == ((n + 32768) % 65536) - 32768

(* The last corner of a topology.                                          *)
BoundingBox(layout) ==
  FoldLeft(LAMBDA far, r : <<Short(Bigger(far[1], r.x_org + r.width)),
                             Short(Bigger(far[2], r.y_org + r.height))>>,
           <<0, 0>>, layout)

ASSUME LayoutsAssumption ==
  \A layout \in Layouts : BoundingBox(layout) \in Int \X Int

(* VMWAREParseTopologyString on the tokens of the option: a number, or a   *)
(* character that ends one.  A last ";" is accepted.                       *)
Element == <<"x", "+", "+", ";">>

Outputs(tokens) == (Len(tokens) + 1) \div 8

ParseTopology(tokens) ==
  IF /\ Len(tokens) > 0 /\ Len(tokens) % 8 \in {0, 7}
     /\ \A k \in 1 .. 4 * Outputs(tokens) :
          /\ tokens[2 * k - 1] \in 0 .. 65535
          /\ 2 * k > Len(tokens) \/ tokens[2 * k] = Element[((k - 1) % 4) + 1]
  THEN [n \in 1 .. Outputs(tokens) |->
          LET at(k) == tokens[8 * (n - 1) + 2 * k - 1]
          IN  Rect(Short(at(3)), Short(at(4)), at(1), at(2))]
  ELSE NoState

----------------------------------------------------------------------------
(* What a client of the Xinerama extension is answered.                    *)
QueryScreens ==
  IF xinerama /\ xineramaState # NoState THEN xineramaState ELSE << >>

SingleOutput(size) == <<Rect(0, 0, size[1], size[2])>>

ChangesTopology(isXinerama, isStatic) == isXinerama /\ ~isStatic

(* The topology that goes with a mode, from the one before it.             *)
TopologyAfter(next, size, before, allocated) ==
  IF next # NoState THEN next
  ELSE IF allocated THEN SingleOutput(size)
  ELSE before

(* Mutant: the device is not told when the topology is a client's.         *)
DisplaysAlone(isXinerama, state, size) ==
  IF "topology" \in caps THEN SingleOutput(size) ELSE SingleDisplay

Displays(isXinerama, state, size) ==
  CASE "topology" \notin caps         -> SingleDisplay
    [] "topology" \in caps /\ ~isXinerama -> SingleOutput(size)
    [] "topology" \in caps /\ isXinerama ->
         IF state = NoState THEN << >> ELSE state

(* The state that was pending becomes visible, or the one that goes with a *)
(* mode nobody asked a topology for, and the device is told.  allocated:   *)
(* calloc gives the memory for a topology of one output.                   *)
NextXineramaState(isXinerama, isStatic, state, next, size, allocated) ==
  LET change == ChangesTopology(isXinerama, isStatic)
      now == IF change THEN TopologyAfter(next, size, state, allocated) ELSE state
  IN  /\ xineramaState' = now
      /\ xineramaNextState' = IF change THEN NoState ELSE next
      /\ displays' = Displays(isXinerama, now, size)

(* The registers of an ID the device does not implement keep their value.  *)
WriteId(r, id) == IF id \in 0 .. version THEN [r EXCEPT !.id = id] ELSE r

RestoreRegs(r, id, enable, size) ==
  [WriteId(r, id) EXCEPT !.enable = enable, !.size = size]

(* ModeReg has no ID of its own: what is written is no ID at all.          *)
NoId == -1

(* A mode is set on registers r.  It is written before the topology,       *)
(* because writing it resets the topology of the device.                   *)
ModeInit(mode, virt, r) ==
  /\ vtSema' = TRUE
  /\ ModeReg' = Cover(mode, virt)
  /\ reg' = RestoreRegs(r, NoId, TRUE, ModeReg')

----------------------------------------------------------------------------
(* A device starts with an ID of 0, whatever it implements.                *)
Init ==
  /\ phase = "probed" /\ generation = 0 /\ GuiLayout \in GuiLayouts
  /\ caps \in Capabilities
  /\ version \in Ids
  /\ reg = [enable |-> FALSE, id |-> 0, size |-> <<0, 0>>]
  /\ displays = SingleDisplay
  /\ SavedReg = reg /\ suspensionSavedRegId = 0
  /\ vtSema = FALSE
  /\ modes = << >> /\ dynModes = <<NoMode, NoMode>>
  /\ currentMode = NoMode /\ virtual = <<0, 0>> /\ ModeReg = <<0, 0>>
  /\ xinerama = FALSE /\ xineramaStatic = FALSE
  /\ xineramaState = NoState /\ xineramaNextState = NoState
  /\ video = VideoSetup /\ isOn = "off"

(* Both ends write the newest ID they know; the device keeps its own if    *)
(* that is older.                                                          *)
GetVMwareSvgaId(r) == WriteId(WriteId(r, 2), IF version >= 2 THEN 2 ELSE 1)

(* A depth that some hosts report stands for another.  The weight of green *)
(* is read further on: here it is still 0, and 16 stays 16.                *)
GreenWeight == 0

HostDepth(hw) ==
  CASE hw.depth = 16 /\ hw.bpp = 16 /\ GreenWeight = 5 -> 15
    [] hw.depth = 32 /\ hw.bpp = 32 -> 24
    [] OTHER -> hw.depth

(* The server must run at the depth of the host, except on hardware that   *)
(* emulates 8 bits and takes the bits per pixel it is given.  The server   *)
(* decides on the option (xf86SetDepthBpp).                                *)
DepthAgreed(hw, option) ==
  LET emulates == "8bit" \in caps
      depth == IF emulates THEN hw.depth ELSE HostDepth(hw)
      screen == IF option # NoOption THEN option
                ELSE [depth |-> depth, bpp |-> hw.bpp]
      read == IF screen.bpp # hw.bpp /\ emulates THEN screen.depth ELSE depth
  IN  /\ emulates \/ hw.depth \in {8, 15, 16, 24, 32}
      /\ screen.depth \in {8, 15, 16, 24}
      /\ screen.bpp = hw.bpp \/ emulates
      /\ screen.depth = read

(* The mode the driver offers is the one the host shows, within bounds.    *)
InitialMode(found) ==
  LET size == Cover(found, MinInitial)
  IN  IF Within(size, MaxSize) THEN size ELSE MinInitial

(* The modes of the monitor that are valid; the driver's own comes first,  *)
(* unless an option says it is not to be one.  The server prunes those     *)
(* that are larger than the device.                                        *)
FirstModes(found) ==
  {size \in {InitialMode(found)} \cup DefaultModes : Within(size, MaxSize)}

(* The registers are saved before any is written.  Where PreInit fails the *)
(* server goes on without the driver.                                      *)
PreInit ==
  /\ phase = "probed"
  /\ SavedReg' = reg
  /\ reg' = GetVMwareSvgaId(reg)
  /\ suspensionSavedRegId' = IF reg'.id # 0 THEN reg'.id
                             ELSE suspensionSavedRegId
  /\ \E hw \in Formats, option \in DepthOptions :
       IF reg'.id # 0 /\ DepthAgreed(hw, option) /\ FirstModes(reg.size) # {}
       THEN /\ phase' = "closed"
            /\ \E size \in FirstModes(reg.size) :
                 modes' = <<size>> /\ virtual' = size
            /\ currentMode' = 1
       ELSE /\ phase' = "failed"
            /\ UNCHANGED <<modes, currentMode, virtual>>
  /\ UNCHANGED <<generation, GuiLayout, caps, displays, version, vtSema,
                 dynModes, ModeReg, topology, video, isOn>>

(* The default modes that the device can show, and its largest one, join   *)
(* the list, again in every generation.                                    *)
AddDefaultModes(list) ==
  list \o SetToSeq({size \in DefaultModes : Within(size, MaxSize)}) \o <<MaxSize>>

(* useXinerama is the option where there is one; its default is what the   *)
(* device can do.  The topology of the options is read at every start.     *)
Configured == "multimon" \in caps /\ GuiLayout # NoOption

ConfiguredState == IF Configured THEN ParseTopology(GuiLayout) ELSE xineramaState

ScreenInit ==
  /\ phase = "closed" /\ generation < MaxGenerations
  /\ phase' = "up" /\ generation' = generation + 1
  /\ LET layout == ConfiguredState
         static == IF Configured THEN layout # NoState ELSE xineramaStatic
     IN  \E builtin \in BOOLEAN, allocated \in Allocations :
           /\ xinerama' = ("multimon" \in caps /\ ~builtin)
           /\ xineramaStatic' = static
           /\ ModeInit(modes[currentMode], virtual, reg)
           /\ video' = VideoSetup
           /\ NextXineramaState(xinerama', static, layout, xineramaNextState,
                                ModeReg', allocated)
  /\ modes' = AddDefaultModes(modes)
  /\ dynModes' = <<NoMode, NoMode>>
  /\ UNCHANGED <<GuiLayout, caps, version, SavedReg, suspensionSavedRegId,
                 currentMode, virtual, isOn>>

----------------------------------------------------------------------------
(* A mode switch.  The server lets RandR set the virtual size to the mode  *)
(* first, and VidMode zoom into the one there is.                          *)
SwitchMode(mode) ==
  /\ phase = "up" /\ vtSema
  /\ mode \in DOMAIN modes /\ mode # currentMode
  /\ virtual' \in {modes[mode], virtual} /\ Within(modes[mode], virtual')
  /\ \E allocated \in Allocations :
       /\ ModeInit(modes[mode], virtual', reg)
       /\ video' = CheckVideoSanity(video, FbSize(ModeReg'))
       /\ NextXineramaState(xinerama, xineramaStatic, xineramaState,
                            xineramaNextState, ModeReg', allocated)
  /\ currentMode' = mode
  /\ UNCHANGED <<server, version, suspensionSavedRegId, modelist, xinerama,
                 xineramaStatic, isOn>>

(* Mutant: there is one dynamic mode.                                      *)
DynamicSlotFirst == 1

(* The first dynamic mode that is not current; the loop adds the modes it  *)
(* comes to.                                                               *)
DynamicSlot == IF dynModes[1] # NoMode /\ dynModes[1] = currentMode THEN 2 ELSE 1

(* Mutant: the dynamic modes may be larger than the device.                *)
DoSetResAnySize(size) ==
  LET slot == DynamicSlot
      added == dynModes[slot] = NoMode
      list == IF added THEN Append(modes, size) ELSE modes
      mode == IF added THEN Len(list) ELSE dynModes[slot]
  IN  /\ modes' = [list EXCEPT ![mode] = size]
      /\ dynModes' = [dynModes EXCEPT ![slot] = mode]

(* The comparison is one of CARD32s: a corner below zero is too far away.  *)
DoSetRes(size) ==
  IF ~(Within(<<0, 0>>, size) /\ Within(size, MaxSize))
  THEN UNCHANGED modelist
  ELSE LET slot == DynamicSlot
           added == dynModes[slot] = NoMode
           list == IF added THEN Append(modes, size) ELSE modes
           mode == IF added THEN Len(list) ELSE dynModes[slot]
       IN  /\ modes' = [list EXCEPT ![mode] = size]
           /\ dynModes' = [dynModes EXCEPT ![slot] = mode]

(* VMwareCtrlSetRes: what was pending goes, the mode is offered.           *)
SetRes(size) ==
  /\ phase = "up"
  /\ xineramaNextState' = NoState
  /\ DoSetRes(size)
  /\ UNCHANGED <<server, device, suspensionSavedRegId, vtSema, currentMode,
                 virtual, ModeReg, xinerama, xineramaStatic, xineramaState,
                 video, isOn>>

(* Mutant: a topology as wide as the mode takes effect at once.            *)
SetTopologySameWidth(layout) ==
  /\ phase = "up" /\ xinerama /\ xineramaNextState = NoState
  /\ LET box == BoundingBox(layout)
     IN  IF box[1] = ModeReg[1]
         THEN /\ NextXineramaState(xinerama, xineramaStatic, xineramaState, layout,
                                   ModeReg, TRUE)
              /\ UNCHANGED modelist
         ELSE /\ xineramaNextState' = layout
              /\ DoSetRes(box)
              /\ UNCHANGED <<xineramaState, displays>>
  /\ UNCHANGED <<server, reg, version, suspensionSavedRegId, vtSema,
                 currentMode, virtual, ModeReg, xinerama, xineramaStatic,
                 video, isOn>>

(* VMwareCtrlSetTopology.  A topology that is pending already wins, and    *)
(* the client is told that its own was set.  One of the size of the mode   *)
(* takes effect at once; any other waits for the mode it is offered with.  *)
SetTopology(layout) ==
  /\ phase = "up" /\ xinerama /\ xineramaNextState = NoState
  /\ LET box == BoundingBox(layout)
     IN  IF box = ModeReg
         THEN /\ NextXineramaState(xinerama, xineramaStatic, xineramaState, layout,
                                   ModeReg, TRUE)
              /\ UNCHANGED modelist
         ELSE /\ xineramaNextState' = layout
              /\ DoSetRes(box)
              /\ UNCHANGED <<xineramaState, displays>>
  /\ UNCHANGED <<server, reg, version, suspensionSavedRegId, vtSema,
                 currentMode, virtual, ModeReg, xinerama, xineramaStatic,
                 video, isOn>>

----------------------------------------------------------------------------
(* VMWARERestore: the registers are those the server found.                *)
Restore(r) == RestoreRegs(r, SavedReg.id, SavedReg.enable, SavedReg.size)

(* The Xv layer has stopped its port before it lets the driver go.         *)
LeaveVT ==
  /\ phase = "up" /\ vtSema /\ isOn = "off"
  /\ suspensionSavedRegId' = reg.id
  /\ reg' = Restore(reg)
  /\ displays' = SingleDisplay
  /\ vtSema' = FALSE
  /\ UNCHANGED <<server, version, modelist, currentMode, virtual, ModeReg,
                 topology, video, isOn>>

(* A machine that hibernates while another VT is shown comes back with a   *)
(* device that is as new.                                                  *)
Hibernate ==
  /\ phase = "up" /\ ~vtSema
  /\ reg' = [enable |-> FALSE, id |-> 0, size |-> <<0, 0>>]
  /\ displays' = SingleDisplay
  /\ UNCHANGED <<server, version, suspensionSavedRegId, vtSema, modelist,
                 currentMode, virtual, ModeReg, topology, video, isOn>>

(* Mutant: the ID is not written.                                          *)
ReEnterNoId(r) == r

ReEnter(r) == WriteId(r, suspensionSavedRegId)

EnterVT ==
  /\ phase = "up" /\ ~vtSema
  /\ \E allocated \in Allocations :
       /\ ModeInit(modes[currentMode], virtual, ReEnter(reg))
       /\ video' = CheckVideoSanity(video, FbSize(ModeReg'))
       /\ NextXineramaState(xinerama, xineramaStatic, xineramaState,
                            xineramaNextState, ModeReg', allocated)
  /\ UNCHANGED <<server, version, suspensionSavedRegId, modelist, currentMode,
                 virtual, xinerama, xineramaStatic, isOn>>

(* The server closes its extensions, destroys every window, which stops    *)
(* the port, and closes the screen.  Without a topology the flag stays.    *)
CloseScreen ==
  /\ phase = "up" /\ isOn = "off"
  /\ phase' = "closed"
  /\ xineramaState' = IF xinerama THEN NoState ELSE xineramaState
  /\ xinerama' = (xinerama /\ xineramaState = NoState)
  /\ IF vtSema
     THEN /\ video' = VideoEnd(video)
          /\ reg' = Restore(reg)
          /\ displays' = SingleDisplay
     ELSE UNCHANGED <<video, reg, displays>>
  /\ vtSema' = FALSE
  /\ UNCHANGED <<generation, GuiLayout, caps, version, SavedReg,
                 suspensionSavedRegId, modelist, currentMode, virtual, ModeReg,
                 xineramaStatic, xineramaNextState, isOn>>

----------------------------------------------------------------------------
noVideo == <<server, device, suspensionSavedRegId, vtSema, modelist,
             currentMode, virtual, ModeReg, topology>>

(* XvPutImage through the server's layer, which does nothing on another VT *)
(* and remembers that a port that took an image is on.                     *)
PutImage(image, clip) ==
  /\ phase = "up" /\ vtSema
  /\ \E allocated \in Allocations :
       video' = XvPutImage(video, image, clip, FbSize(ModeReg), allocated)
  /\ isOn' = IF Succeeds(video') THEN "on" ELSE isOn
  /\ UNCHANGED noVideo

(* The window was exposed, moved or clipped away: whatever was drawn over  *)
(* the key, the next image must paint it again.                            *)
ClipNotify ==
  /\ phase = "up" /\ vtSema /\ isOn = "on"
  /\ video' = [StopVideo(video, FALSE) EXCEPT !.painted = NoClip]
  /\ isOn' = "pending"
  /\ UNCHANGED noVideo

(* The client, the end of its window or a VT switch stops the port.        *)
StopPort ==
  /\ phase = "up" /\ vtSema /\ isOn # "off"
  /\ video' = StopVideo(video, TRUE)
  /\ isOn' = "off"
  /\ UNCHANGED noVideo

(* A client sets the attribute before it plays: to a port that plays the   *)
(* change would only come with the next clip.                              *)
SetPortAttribute(value) ==
  /\ phase = "up" /\ isOn = "off" /\ value # video.autopaint
  /\ video' = SetAutopaint(video, value)
  /\ UNCHANGED <<noVideo, isOn>>

Next ==
  \/ PreInit
  \/ ScreenInit
  \/ \E mode \in DOMAIN modes : SwitchMode(mode)
  \/ \E size \in Requested : SetRes(size)
  \/ \E layout \in Layouts : SetTopology(layout)
  \/ LeaveVT
  \/ Hibernate
  \/ EnterVT
  \/ CloseScreen
  \/ \E image \in Images, clip \in Clips : PutImage(image, clip)
  \/ ClipNotify
  \/ StopPort
  \/ \E value \in BOOLEAN : SetPortAttribute(value)

Spec == Init /\ [][Next]_vars

----------------------------------------------------------------------------
Topologies == {<< >>, NoState} \cup Layouts

TypeOK ==
  /\ phase \in {"probed", "failed", "closed", "up"}
  /\ generation \in 0 .. MaxGenerations
  /\ caps \in Capabilities
  /\ version \in Ids /\ reg.id \in 0 .. version /\ reg.enable \in BOOLEAN
  /\ suspensionSavedRegId \in 0 .. version
  /\ vtSema \in BOOLEAN /\ (vtSema => phase = "up")
  /\ \A m \in DOMAIN modes : Within(modes[m], MaxSize)
  /\ currentMode \in DOMAIN modes \cup {NoMode}
  /\ \A slot \in 1 .. 2 : dynModes[slot] \in DOMAIN modes \cup {NoMode}
  /\ xinerama \in BOOLEAN /\ xineramaStatic \in BOOLEAN
  /\ xineramaNextState \in Topologies
  /\ VideoTypeOK(video)
  /\ isOn \in {"off", "pending", "on"}

(* While the VT is held the device shows the mode the driver set and       *)
(* carves it up the way clients are told: no order of mode switches, VT    *)
(* switches and requests that set a topology leaves the two different      *)
(* (vmwareNextXineramaState writes the device after the mode, because      *)
(* writing the mode resets its topology).                                  *)
HostShowsTopology ==
  phase = "up" /\ vtSema =>
    /\ reg.enable /\ reg.size = ModeReg
    /\ "topology" \in caps =>
         displays = IF xinerama THEN QueryScreens ELSE SingleOutput(ModeReg)

(* The device answers to the ID that PreInit negotiated whenever the       *)
(* driver has the VT, also after a hibernation that reset the device       *)
(* (VMWARELeaveVT, VMWAREEnterVT).  It is said of the first generation:    *)
(* CloseScreen restores the ID the server found and nothing negotiates     *)
(* again.                                                                  *)
SvgaIdKept == vtSema /\ generation = 1 => reg.id = version

(* The memory of a video stream never becomes part of the framebuffer,     *)
(* whatever mode is set while the stream plays, the host reads only memory *)
(* that the stream holds, and a screen that is closed leaves nothing       *)
(* allocated for the check of the next generation's first mode to find     *)
(* (vmwareCheckVideoSanity, vmwareVideoPlay, vmwareVideoEnd).              *)
StreamApart ==
  /\ StreamHeld(video)
  /\ vtSema /\ video.mgr.size # 0 =>
       /\ video.mgr.offset >= FbSize(ModeReg).size
       /\ video.mgr.offset + video.mgr.size <= VideoRam
  /\ phase # "up" => video.mgr = OffscreenInit

(* A port that plays, and paints its key itself, shows the key over all of *)
(* the clip of its last image: a stop for a while and the exposures that   *)
(* come with it make the next image paint it again, and a stream that is   *)
(* begun anew paints it first.                                             *)
KeyPainted ==
  isOn = "on" /\ video.host.enabled /\ video.autopaint =>
    video.painted = video.clip /\ video.clip # NoClip

(* Clients see another topology only when the mode is set, or when it is   *)
(* one of the size of the mode (the comment in vmwareNextXineramaState);   *)
(* one from the configuration they see in every mode and after every       *)
(* request.                                                                *)
SwitchedTogether ==
  [][phase = "up" /\ phase' = "up" /\ QueryScreens' # QueryScreens =>
       /\ ~xineramaStatic
       /\ \/ currentMode' # currentMode
          \/ ~vtSema /\ vtSema'
          \/ (BoundingBox(QueryScreens) = ModeReg)']_vars

(* No request resizes the mode the screen is in: the server does not       *)
(* switch to a mode it believes to be in (VMwareCtrlDoSetRes).             *)
CurrentModeKept ==
  [][(currentMode \in DOMAIN modes /\ currentMode' = currentMode =>
        modes'[currentMode] = modes[currentMode])]_vars

(* What a comment says of the topology that clients see and the mode:      *)
(* they are never inconsistent with each other.                            *)
TopologyFitsMode ==
  vtSema /\ xinerama /\ ~xineramaStatic /\ xineramaState # NoState =>
    BoundingBox(xineramaState) = ModeReg
=============================================================================
