------------------------ MODULE VmwareScreen_proofs ------------------------
(***************************************************************************)
(* The screen of the legacy driver: the device shows the mode and the      *)
(* topology that clients are told, keeps its ID, and gives a video stream  *)
(* memory of its own, for every device, list of modes, topology, image and *)
(* clip, and over any number of mode switches, VT switches, hibernations   *)
(* and generations.                                                        *)
(***************************************************************************)
EXTENDS VmwareScreen, FiniteSetTheorems, TLAPS

----------------------------------------------------------------------------
(* The port of the overlay.                                                *)
Regions == Clips \cup {NoClip}
FrameSizes == {ImageSize(image) : image \in Images}
Areas == [size : Nat, offset : Int]

Ports ==
  [play : {"InitStream", "Play"}, size : FrameSizes \cup {0},
   fbarea : {Allocated(size) : size \in FrameSizes} \cup {NoArea},
   autopaint : BOOLEAN, clip : Regions, painted : Regions, mgr : Areas,
   host : [enabled : BOOLEAN, offset : Int,
           planes : {Planes(image) : image \in Images} \cup {NoPlanes}]]

(* The planes lie within so many bytes.                                    *)
End(plane) == plane.offset + plane.pitch * plane.rows

Fits(planes, bytes) ==
  \A k \in DOMAIN planes : End(planes[k]) \in Nat /\ End(planes[k]) <= bytes

(* No stream: nothing is allocated and the host reads nothing.             *)
Closed(v) ==
  /\ v.play = "InitStream" /\ v.fbarea = NoArea /\ v.mgr = OffscreenInit
  /\ ~v.host.enabled /\ v.clip = NoClip

(* A stream has memory for its last frame, which the host reads.           *)
Open(v) ==
  /\ v.play = "Play" /\ v.fbarea # NoArea /\ v.mgr = v.fbarea
  /\ v.size <= v.fbarea.size
  /\ v.host.enabled => /\ v.host.offset = v.fbarea.offset
                       /\ Fits(v.host.planes, v.fbarea.size)

(* A clip that is remembered was painted, or the client paints.            *)
Keyed(v) == v.autopaint /\ v.clip # NoClip => v.painted = v.clip

InOrder(v) == v \in Ports /\ (Closed(v) \/ Open(v)) /\ Keyed(v)

(* The planes of an image follow one another up to its size.               *)
LEMMA PlanesFit ==
  ASSUME NEW image \in Images
  PROVE  /\ ImageSize(image) \in Nat
         /\ Fits(Planes(image), ImageSize(image))
<1> DEFINE w == Even(AtMost(image.width, MaxImage))
           h == AtMost(image.height, MaxImage)
           rows == Even(h)
           y == Pitch(w)
           uv == Pitch(w \div 2)
           half == rows \div 2
<1>1. /\ image.format \in {"YV12", "YUY2", "UYVY"}
      /\ image.width \in Nat /\ image.height \in Nat
  BY VideoAssumption DEF IsImage
<1>2. w \in Nat /\ h \in Nat
  BY <1>1 DEF Even, AtMost, MaxImage
<1>3. rows \in Nat /\ y \in Nat
  BY <1>2 DEF Even, Pitch
<1>4. uv \in Nat /\ half \in Nat
  BY <1>2, <1>3 DEF Pitch
<1> DEFINE luma == y * rows
           chroma == uv * half
<1>5. CASE image.format = "YV12"
  <2>1. Planes(image) =
          << [offset |-> 0, pitch |-> y, rows |-> rows],
             [offset |-> luma, pitch |-> uv, rows |-> half],
             [offset |-> luma + chroma, pitch |-> uv, rows |-> half] >>
    BY <1>5 DEF Planes
  <2>2. ImageSize(image) = luma + chroma + chroma
    BY <1>5, <2>1 DEF ImageSize
  <2>3. luma \in Nat /\ chroma \in Nat
    BY <1>3, <1>4
  <2>4. DOMAIN Planes(image) = 1 .. 3
    BY <2>1
  <2> HIDE DEF w, h, rows, y, uv, half
  <2>5. End(Planes(image)[1]) = luma
    BY <1>3, <2>1 DEF End
  <2>6. End(Planes(image)[2]) = luma + chroma
    BY <1>3, <1>4, <2>1 DEF End
  <2>7. End(Planes(image)[3]) = luma + chroma + chroma
    BY <1>3, <1>4, <2>1 DEF End
  <2> HIDE DEF luma, chroma
  <2> QED
    BY <2>2, <2>3, <2>4, <2>5, <2>6, <2>7 DEF Fits
<1>6. CASE image.format # "YV12"
  <2> DEFINE bytes == (2 * w) * h
  <2>1. Planes(image) = << [offset |-> 0, pitch |-> 2 * w, rows |-> h] >>
    BY <1>1, <1>6 DEF Planes
  <2>2. ImageSize(image) = bytes
    BY <1>1, <1>6, <2>1 DEF ImageSize
  <2>3. bytes \in Nat
    BY <1>2
  <2> HIDE DEF w, h
  <2> QED
    BY <2>1, <2>2, <2>3 DEF Fits, End
<1> QED
  BY <1>5, <1>6

LEMMA EightBelowType ==
  ASSUME NEW n \in Int
  PROVE  EightBelow(n) \in Int /\ EightBelow(n) <= n /\ n - 7 <= EightBelow(n)
BY DEF EightBelow

LEMMA AllocatedType ==
  ASSUME NEW size \in FrameSizes
  PROVE  /\ size \in Nat /\ Allocated(size) \in Areas /\ Allocated(size) # NoArea
         /\ Allocated(size).size = size
<1>1. size \in Nat
  BY PlanesFit DEF FrameSizes
<1>2. EightBelow(VideoRam - size) \in Int
  BY <1>1, VideoAssumption, EightBelowType
<1> QED
  BY <1>1, <1>2, VideoAssumption DEF Allocated, Areas

LEMMA PortTypes ==
  ASSUME NEW v \in Ports
  PROVE  /\ v.size \in Nat
         /\ v.fbarea # NoArea => v.fbarea \in Areas
BY AllocatedType DEF Ports

LEMMA VideoSetupClosed == VideoSetup \in Ports /\ Closed(VideoSetup) /\ Keyed(VideoSetup)
BY DEF VideoSetup, Ports, Regions, Areas, Closed, Keyed, OffscreenInit, Disabled, NoPlanes

(* Whatever the port held, EndStream gives it back.                        *)
LEMMA EndStreamClosed ==
  ASSUME NEW v \in Ports, Closed(v) \/ Open(v), ~v.host.enabled
  PROVE  /\ EndStream(v) \in Ports /\ Closed(EndStream(v)) /\ Keyed(EndStream(v))
         /\ EndStream(v).autopaint = v.autopaint
<1>1. CASE v.fbarea = NoArea
  BY <1>1 DEF EndStream, Ports, Closed, Open, Keyed, Regions
<1>2. CASE v.fbarea # NoArea
  <2> DEFINE freed == OffscreenFree(v)
  <2>1. OffscreenInit \in Areas
    BY DEF OffscreenInit, Areas
  <2>2. freed = [v EXCEPT !.fbarea = NoArea, !.mgr = OffscreenInit]
    BY DEF OffscreenFree
  <2>3. freed \in Ports
    BY <2>1, <2>2 DEF Ports
  <2>4. /\ freed.fbarea = NoArea /\ freed.mgr = OffscreenInit
        /\ freed.host = v.host /\ freed.autopaint = v.autopaint
    BY <2>2 DEF Ports
  <2>5. EndStream(v) = [freed EXCEPT !.play = "InitStream", !.size = 0, !.clip = NoClip]
    BY <1>2 DEF EndStream
  <2> HIDE DEF freed
  <2>6. EndStream(v) \in Ports
    BY <2>3, <2>5 DEF Ports, Regions
  <2>7. /\ EndStream(v).play = "InitStream" /\ EndStream(v).clip = NoClip
        /\ EndStream(v).fbarea = NoArea /\ EndStream(v).mgr = OffscreenInit
        /\ EndStream(v).host = v.host /\ EndStream(v).autopaint = v.autopaint
    BY <2>3, <2>4, <2>5 DEF Ports
  <2> QED
    BY <2>6, <2>7 DEF Closed, Keyed
<1> QED
  BY <1>1, <1>2

LEMMA StopVideoClosed ==
  ASSUME NEW v, InOrder(v)
  PROVE  LET w == StopVideo(v, TRUE)
         IN  w \in Ports /\ Closed(w) /\ Keyed(w)
<1> DEFINE hidden == [v EXCEPT !.clip = NoClip]
           off == [hidden EXCEPT !.host = Disabled]
<1>1. StopVideo(v, TRUE) = EndStream(off)
  BY DEF StopVideo
<1>2. /\ hidden \in Ports /\ hidden.clip = NoClip
      /\ \A f \in {"play", "size", "fbarea", "mgr", "host"} : hidden[f] = v[f]
  BY DEF InOrder, Ports, Regions
<1>3. /\ Disabled \in [enabled : BOOLEAN, offset : Int,
                       planes : {Planes(image) : image \in Images} \cup {NoPlanes}]
      /\ ~Disabled.enabled /\ Disabled.planes = NoPlanes
  BY DEF Disabled
<1> HIDE DEF hidden
<1>4. /\ off \in Ports /\ off.host = Disabled
      /\ \A f \in {"play", "size", "fbarea", "mgr", "clip"} : off[f] = hidden[f]
  BY <1>2, <1>3 DEF Ports
<1> HIDE DEF off
<1>5. CASE Closed(v)
  BY <1>1, <1>2, <1>3, <1>4, <1>5, EndStreamClosed DEF Closed
<1>6. CASE Open(v)
  <2>1. Open(off)
    BY <1>2, <1>3, <1>4, <1>6 DEF Open
  <2> QED
    BY <1>1, <1>3, <1>4, <2>1, EndStreamClosed
<1> QED
  BY <1>5, <1>6 DEF InOrder

(* A stop for a while makes the next image paint the key.                  *)
LEMMA PauseInOrder ==
  ASSUME NEW v, InOrder(v)
  PROVE  InOrder([StopVideo(v, FALSE) EXCEPT !.painted = NoClip])
BY DEF InOrder, StopVideo, Ports, Closed, Open, Keyed, Regions

LEMMA PaintKeyInOrder ==
  ASSUME NEW v \in Ports, Open(v), NEW clip \in Clips
  PROVE  LET w == PaintKey(v, clip)
         IN  /\ w \in Ports /\ Open(w) /\ Keyed(w) /\ w.clip = clip
             /\ w.size = v.size /\ w.fbarea = v.fbarea /\ w.mgr = v.mgr
BY DEF PaintKey, Ports, Open, Keyed, Regions

(* An image that the memory holds is shown with its key painted.           *)
LEMMA PlayFrameInOrder ==
  ASSUME NEW v \in Ports, Open(v), Keyed(v), NEW image \in Images, NEW clip \in Clips,
         ImageSize(image) <= v.fbarea.size
  PROVE  LET w == PlayFrame(v, image, clip)
         IN  /\ InOrder(w) /\ Open(w) /\ w.clip = clip
             /\ w.mgr = v.mgr
<1> DEFINE size == ImageSize(image)
           planes == Planes(image)
           sent == [v EXCEPT !.size = size,
                             !.host = [enabled |-> TRUE, offset |-> v.fbarea.offset,
                                       planes |-> planes]]
<1>1. size \in FrameSizes /\ size \in Nat /\ size <= v.fbarea.size
  BY PlanesFit DEF FrameSizes
<1>2. planes \in {Planes(i) : i \in Images} /\ Fits(planes, size)
  BY PlanesFit
<1>3. v.fbarea \in Areas
  BY PortTypes DEF Open
<1>4. PlayFrame(v, image, clip) = IF v.clip = clip THEN sent ELSE PaintKey(sent, clip)
  BY DEF PlayFrame
<1>5. Fits(planes, v.fbarea.size)
  BY <1>1, <1>2, <1>3 DEF Fits, Areas
<1> HIDE DEF size, planes
<1>6. sent \in Ports
  BY <1>1, <1>2, <1>3 DEF Ports, Areas
<1>7. /\ Open(sent) /\ Keyed(sent) /\ sent.mgr = v.mgr /\ sent.clip = v.clip
  BY <1>1, <1>5 DEF Ports, Open, Keyed
<1> HIDE DEF sent
<1> QED
  BY <1>4, <1>6, <1>7, PaintKeyInOrder DEF InOrder

(* The first frame of a stream: it is shown from memory of its own, or     *)
(* nothing is.                                                             *)
LEMMA InitStreamInOrder ==
  ASSUME NEW v \in Ports, Closed(v), Keyed(v), NEW image \in Images, NEW clip \in Clips,
         NEW fb, NEW allocated \in BOOLEAN
  PROVE  LET w == InitStream(v, image, clip, fb, allocated)
         IN  /\ InOrder(w)
             /\ \/ /\ Open(w) /\ w.clip = clip
                   /\ w.mgr = Allocated(ImageSize(image))
                   /\ OffscreenFits(fb, ImageSize(image))
                \/ Closed(w)
<1> DEFINE size == ImageSize(image)
           area == Allocated(size)
           opened == [v EXCEPT !.play = "Play", !.size = size,
                               !.fbarea = area, !.mgr = area]
<1>1. CASE allocated /\ OffscreenFits(fb, size)
  <2>1. /\ size \in FrameSizes /\ size \in Nat
        /\ area \in Areas /\ area # NoArea /\ area.size = size
    BY AllocatedType DEF FrameSizes
  <2>2. InitStream(v, image, clip, fb, allocated) =
          PlayFrame(PaintKey(opened, clip), image, clip)
    BY <1>1 DEF InitStream
  <2>3. area \in {Allocated(s) : s \in FrameSizes}
    BY <2>1
  <2>4. size <= area.size
    BY <2>1
  <2>5. OffscreenFits(fb, ImageSize(image)) /\ area = Allocated(ImageSize(image))
    BY <1>1
  <2> HIDE DEF size, area
  <2>6. opened \in Ports
    BY <2>1, <2>3 DEF Ports
  <2>7. /\ opened.play = "Play" /\ opened.size = size /\ opened.fbarea = area
        /\ opened.mgr = area /\ opened.host = v.host
    BY DEF Ports
  <2> HIDE DEF opened
  <2>8. Open(opened)
    BY <2>1, <2>4, <2>7 DEF Open, Closed
  <2> DEFINE painted == PaintKey(opened, clip)
  <2>9. /\ painted \in Ports /\ Open(painted) /\ Keyed(painted)
         /\ painted.fbarea = area /\ painted.mgr = area
    BY <2>6, <2>7, <2>8, PaintKeyInOrder
  <2> HIDE DEF painted
  <2>10. ImageSize(image) <= painted.fbarea.size
    BY <2>4, <2>9 DEF size
  <2> QED
    BY <2>2, <2>5, <2>9, <2>10, PlayFrameInOrder DEF painted
<1>2. CASE ~(allocated /\ OffscreenFits(fb, size))
  <2>1. InitStream(v, image, clip, fb, allocated) = EndStream(v)
    BY <1>2 DEF InitStream
  <2> QED
    BY <2>1, EndStreamClosed DEF InOrder, Closed
<1> QED
  BY <1>1, <1>2

(* An image that the driver accepts plays; one that it refuses leaves the  *)
(* port closed.  The memory is that of before, or it is allocated beside   *)
(* the framebuffer.                                                        *)
LEMMA XvPutImageInOrder ==
  ASSUME NEW v, InOrder(v), NEW image \in Images, NEW clip \in Clips,
         NEW fb, NEW allocated \in BOOLEAN
  PROVE  LET w == XvPutImage(v, image, clip, fb, allocated)
         IN  /\ InOrder(w)
             /\ \/ /\ Open(w) /\ w.clip = clip
                   /\ \/ w.mgr = v.mgr
                      \/ /\ w.mgr = Allocated(ImageSize(image))
                         /\ OffscreenFits(fb, ImageSize(image))
                \/ Closed(w)
<1> DEFINE w == XvPutImage(v, image, clip, fb, allocated)
<1>1. CASE v.play = "InitStream"
  <2>1. w = InitStream(v, image, clip, fb, allocated)
    BY <1>1 DEF XvPutImage
  <2>2. v \in Ports /\ Closed(v) /\ Keyed(v)
    BY <1>1 DEF InOrder, Open
  <2> QED
    BY <2>1, <2>2, InitStreamInOrder
<1>2. CASE v.play # "InitStream" /\ ImageSize(image) > v.size
  <2> DEFINE off == StopVideo(v, TRUE)
  <2>1. w = InitStream(off, image, clip, fb, allocated)
    BY <1>2 DEF XvPutImage, Play
  <2>2. off \in Ports /\ Closed(off) /\ Keyed(off)
    BY StopVideoClosed
  <2> HIDE DEF off
  <2> QED
    BY <2>1, <2>2, InitStreamInOrder
<1>3. CASE v.play # "InitStream" /\ ~(ImageSize(image) > v.size)
  <2>1. w = PlayFrame(v, image, clip)
    BY <1>3 DEF XvPutImage, Play
  <2>2. v \in Ports /\ Open(v) /\ Keyed(v)
    BY <1>3 DEF InOrder, Closed
  <2>3. ImageSize(image) <= v.fbarea.size
    BY <1>3, <2>2, PortTypes, PlanesFit DEF Open, Areas
  <2> QED
    BY <2>1, <2>2, <2>3, PlayFrameInOrder
<1> QED
  BY <1>1, <1>2, <1>3

LEMMA CheckVideoSanityInOrder ==
  ASSUME NEW v, InOrder(v), NEW fb
  PROVE  LET w == CheckVideoSanity(v, fb)
         IN  /\ InOrder(w)
             /\ \/ w = v /\ (v.mgr.size = 0 \/ v.mgr.offset > fb.size)
                \/ Closed(w)
<1>1. CASE v.mgr.size = 0 \/ v.mgr.offset > fb.size
  BY <1>1 DEF CheckVideoSanity
<1>2. CASE ~(v.mgr.size = 0 \/ v.mgr.offset > fb.size)
  BY <1>2, StopVideoClosed DEF CheckVideoSanity, InOrder
<1> QED
  BY <1>1, <1>2

LEMMA VideoEndClosed ==
  ASSUME NEW v, InOrder(v), Closed(v)
  PROVE  InOrder(VideoEnd(v)) /\ Closed(VideoEnd(v))
<1>1. EndStream(v) \in Ports /\ Closed(EndStream(v))
  BY EndStreamClosed DEF InOrder, Closed
<1>2. VideoEnd(v) \in Ports /\ Closed(VideoEnd(v))
  BY <1>1 DEF VideoEnd, Ports, Closed
<1> QED
  BY <1>2 DEF InOrder, Closed, Keyed

LEMMA SetAutopaintClosed ==
  ASSUME NEW v, InOrder(v), Closed(v), NEW value \in BOOLEAN
  PROVE  InOrder(SetAutopaint(v, value)) /\ Closed(SetAutopaint(v, value))
<1>1. SetAutopaint(v, value) \in Ports /\ Closed(SetAutopaint(v, value))
  BY DEF SetAutopaint, InOrder, Ports, Closed
<1> QED
  BY <1>1 DEF InOrder, Closed, Keyed

(* What the invariants of the runs say of a port in order.                 *)
LEMMA PortPromises ==
  ASSUME NEW v, InOrder(v)
  PROVE  VideoTypeOK(v) /\ StreamHeld(v)
<1>1. VideoTypeOK(v)
  BY DEF InOrder, Ports, VideoTypeOK, FrameSizes, Regions
<1>2. StreamHeld(v)
  BY DEF InOrder, Closed, Open, StreamHeld, Fits, End
<1> QED
  BY <1>1, <1>2

----------------------------------------------------------------------------
(* The sizes the device can show, and what its registers may hold.         *)
Sizes == {size \in Nat \X Nat : Within(size, MaxSize)}
Registers(newest) == [enable : BOOLEAN, id : 0 .. newest, size : Nat \X Nat]

(* The inductive invariant.                                                *)
ServerInOrder ==
  /\ phase \in {"probed", "failed", "closed", "up"}
  /\ generation \in 0 .. MaxGenerations
  /\ caps \in Capabilities
  /\ xinerama \in BOOLEAN /\ xineramaStatic \in BOOLEAN
  /\ xineramaNextState \in Topologies

DeviceInOrder ==
  /\ version \in Ids
  /\ reg \in Registers(version) /\ SavedReg \in Registers(version)
  /\ suspensionSavedRegId \in 0 .. version
  /\ vtSema \in BOOLEAN /\ (vtSema => phase = "up")

(* The current mode is in the list from PreInit on, and the two dynamic    *)
(* modes are different ones.                                               *)
ModesInOrder ==
  /\ modes \in Seq(Sizes) /\ virtual \in Sizes /\ ModeReg \in Sizes
  /\ phase = "probed" => modes = << >>
  /\ currentMode \in DOMAIN modes \cup {NoMode}
  /\ phase \in {"closed", "up"} => currentMode \in DOMAIN modes
  /\ dynModes \in [1 .. 2 -> Nat \cup {NoMode}]
  /\ \A slot \in 1 .. 2 : dynModes[slot] \in DOMAIN modes \cup {NoMode}
  /\ dynModes[1] = NoMode \/ dynModes[1] # dynModes[2]

(* In the first generation the negotiated ID is in the device, or saved    *)
(* for as long as the VT is away.                                          *)
IdInOrder ==
  /\ phase = "probed" => generation = 0
  /\ phase = "up" => generation > 0
  /\ phase = "closed" /\ generation = 0 => reg.id = version
  /\ phase = "up" /\ generation = 1 =>
       IF vtSema THEN reg.id = version ELSE suspensionSavedRegId = version

(* A port that the server believes to be off has no stream, and one that   *)
(* is on and plays has a clip.                                             *)
PortInOrder ==
  /\ InOrder(video)
  /\ isOn \in {"off", "pending", "on"}
  /\ isOn = "off" => Closed(video)
  /\ phase # "up" => isOn = "off"
  /\ isOn = "on" /\ Open(video) => video.clip # NoClip

IInv ==
  /\ ServerInOrder
  /\ DeviceInOrder
  /\ ModesInOrder
  /\ IdInOrder
  /\ PortInOrder
  /\ HostShowsTopology

----------------------------------------------------------------------------
(* Sizes, registers and the list of modes.                                 *)
LEMMA CoverType ==
  /\ \A a, b \in Nat \X Nat : Cover(a, b) \in Nat \X Nat
  /\ \A a, b \in Sizes : Cover(a, b) \in Sizes
BY ScreenAssumption DEF Cover, Bigger, Sizes, Within

LEMMA SizesType ==
  /\ MaxSize \in Sizes /\ <<0, 0>> \in Sizes
  /\ Sizes \subseteq Nat \X Nat
BY ScreenAssumption DEF Sizes, Within

LEMMA ToSeqType ==
  ASSUME NEW S, IsFiniteSet(S)
  PROVE  SetToSeq(S) \in Seq(S)
<1>1. PICK f \in [1 .. Cardinality(S) -> S] : IsInjective(f)
  BY FS_CardinalityType DEF ExistsBijection, Bijection, Injection, IsInjective
<1>2. SetToSeq(S) \in [1 .. Cardinality(S) -> S]
  BY <1>1 DEF SetToSeq
<1> QED
  BY <1>2, FS_CardinalityType

(* The modes that ScreenInit adds are behind those that are there.         *)
LEMMA AddDefaultModesType ==
  ASSUME NEW list \in Seq(Sizes)
  PROVE  /\ AddDefaultModes(list) \in Seq(Sizes)
         /\ Len(list) <= Len(AddDefaultModes(list))
         /\ \A m \in DOMAIN list : AddDefaultModes(list)[m] = list[m]
<1> DEFINE S == {size \in DefaultModes : Within(size, MaxSize)}
           more == SetToSeq(S) \o <<MaxSize>>
<1>1. IsFiniteSet(S) /\ S \subseteq Sizes
  BY ScreenAssumption, FS_Subset DEF Sizes
<1>2. SetToSeq(S) \in Seq(Sizes)
  BY <1>1, ToSeqType
<1>3. AddDefaultModes(list) = (list \o SetToSeq(S)) \o <<MaxSize>>
  BY DEF AddDefaultModes
<1> HIDE DEF S
<1> QED
  BY <1>2, <1>3, SizesType

LEMMA WriteIdType ==
  ASSUME NEW r \in Registers(version), NEW id
  PROVE  /\ WriteId(r, id) \in Registers(version)
         /\ id \in 0 .. version => WriteId(r, id).id = id
         /\ id \notin 0 .. version => WriteId(r, id) = r
BY DEF WriteId, Registers

LEMMA RestoreRegsType ==
  ASSUME NEW r \in Registers(version), NEW id, NEW enable \in BOOLEAN,
         NEW size \in Nat \X Nat
  PROVE  LET w == RestoreRegs(r, id, enable, size)
         IN  /\ w \in Registers(version) /\ w.enable = enable /\ w.size = size
             /\ w.id = WriteId(r, id).id
<1> DEFINE q == WriteId(r, id)
<1>1. q \in Registers(version)
  BY WriteIdType
<1>2. RestoreRegs(r, id, enable, size) = [q EXCEPT !.enable = enable, !.size = size]
  BY DEF RestoreRegs
<1> HIDE DEF q
<1> QED
  BY <1>1, <1>2 DEF Registers, q

(* A mode that is set is what the device shows; its ID stays.              *)
LEMMA ModeInitShows ==
  ASSUME NEW mode \in Sizes, NEW virt \in Sizes, NEW r \in Registers(version),
         ModeInit(mode, virt, r)
  PROVE  /\ vtSema' /\ ModeReg' \in Sizes
         /\ reg' \in Registers(version) /\ reg'.id = r.id
         /\ reg'.enable /\ reg'.size = ModeReg'
<1>1. ModeReg' \in Sizes /\ ModeReg' \in Nat \X Nat
  BY CoverType, SizesType DEF ModeInit
<1>2. WriteId(r, NoId).id = r.id
  BY WriteIdType DEF NoId
<1>3. vtSema' = TRUE /\ reg' = RestoreRegs(r, NoId, TRUE, ModeReg')
  BY DEF ModeInit
<1> DEFINE q == WriteId(r, NoId)
<1>4. q \in Registers(version)
  BY WriteIdType
<1>5. reg' = [q EXCEPT !.enable = TRUE, !.size = ModeReg']
  BY <1>3 DEF RestoreRegs
<1>6. q.id = r.id
  BY <1>2
<1> HIDE DEF q
<1> QED
  BY <1>1, <1>3, <1>4, <1>5, <1>6 DEF Registers

(* What is told to the device is what clients are told.                    *)
LEMMA TopologyTold ==
  ASSUME NEW isXinerama \in BOOLEAN, NEW isStatic \in BOOLEAN, NEW state,
         NEW next \in Topologies, NEW size, NEW allocated \in BOOLEAN,
         NextXineramaState(isXinerama, isStatic, state, next, size, allocated)
  PROVE  /\ xineramaNextState' \in Topologies
         /\ "topology" \in caps =>
              displays' = IF isXinerama
                          THEN IF xineramaState' = NoState THEN << >> ELSE xineramaState'
                          ELSE SingleOutput(size)
BY DEF NextXineramaState, Displays, Topologies, ChangesTopology

(* A request changes a dynamic mode that is not the current one, or adds   *)
(* one.                                                                    *)
LEMMA DoSetResModes ==
  ASSUME ModesInOrder, NEW size, size \in Int \X Int, DoSetRes(size)
  PROVE  /\ modes' \in Seq(Sizes) /\ Len(modes) <= Len(modes')
         /\ currentMode \in DOMAIN modes => modes'[currentMode] = modes[currentMode]
         /\ dynModes' \in [1 .. 2 -> Nat \cup {NoMode}]
         /\ \A slot \in 1 .. 2 : dynModes'[slot] \in DOMAIN modes' \cup {NoMode}
         /\ dynModes'[1] = NoMode \/ dynModes'[1] # dynModes'[2]
<1>1. CASE ~(Within(<<0, 0>>, size) /\ Within(size, MaxSize))
  BY <1>1 DEF DoSetRes, ModesInOrder, modelist
<1>2. CASE Within(<<0, 0>>, size) /\ Within(size, MaxSize)
  <2> DEFINE slot == DynamicSlot
             list == IF dynModes[slot] = NoMode THEN Append(modes, size) ELSE modes
             mode == IF dynModes[slot] = NoMode THEN Len(list) ELSE dynModes[slot]
  <2>1. /\ modes' = [list EXCEPT ![mode] = size]
        /\ dynModes' = [dynModes EXCEPT ![slot] = mode]
    BY <1>2 DEF DoSetRes
  <2>2. size \in Sizes
    BY <1>2, ScreenAssumption DEF Within, Sizes
  <2>3. slot \in 1 .. 2 /\ (slot = 1 => dynModes[1] = NoMode \/ dynModes[1] # currentMode)
        /\ (slot = 2 => dynModes[1] # NoMode /\ dynModes[1] = currentMode)
    BY DEF DynamicSlot
  <2> HIDE DEF slot
  <2>4. CASE dynModes[slot] = NoMode
    <3>1. list = Append(modes, size) /\ mode = Len(modes) + 1
      BY <2>4 DEF ModesInOrder
    <3>2. /\ list \in Seq(Sizes) /\ Len(list) = Len(modes) + 1
          /\ \A m \in DOMAIN modes : list[m] = modes[m]
      BY <2>2, <3>1 DEF ModesInOrder
    <3> HIDE DEF list
    <3> HIDE DEF mode
    <3> DEFINE n == Len(modes)
    <3>3. modes \in Seq(Sizes)
      BY DEF ModesInOrder
    <3>4. n \in Nat /\ DOMAIN modes = 1 .. n /\ mode = n + 1
      BY <3>3, <3>1
    <3>5. list \in [1 .. Len(list) -> Sizes]
      BY <3>2
    <3>6. /\ n \in Nat /\ DOMAIN modes = 1 .. n /\ mode = n + 1
          /\ list \in [1 .. n + 1 -> Sizes]
      BY <3>4, <3>5, <3>2
    <3> HIDE DEF n
    <3>7. /\ modes' \in [1 .. n + 1 -> Sizes]
          /\ \A m \in 1 .. n : modes'[m] = list[m]
      BY <2>1, <2>2, <3>6
    <3>8. modes' \in Seq(Sizes) /\ Len(modes') = n + 1
      BY <3>6, <3>7
    <3>9. modes \in Seq(Sizes)
      BY DEF ModesInOrder
    <3>10. Len(modes) <= Len(modes') /\ \A m \in DOMAIN modes : modes'[m] = modes[m]
      BY <3>2, <3>6, <3>7, <3>8 DEF n
    <3>11. DOMAIN modes' = 1 .. n + 1
      BY <3>7
    <3>12. dynModes' \in [1 .. 2 -> Nat \cup {NoMode}]
      BY <2>1, <2>3, <3>6 DEF ModesInOrder
    <3>13. \A s \in 1 .. 2 : dynModes'[s] \in DOMAIN modes' \cup {NoMode}
      BY <2>1, <2>3, <3>6, <3>11 DEF ModesInOrder
    <3>14. dynModes'[1] = NoMode \/ dynModes'[1] # dynModes'[2]
      BY <2>1, <2>3, <3>6, ScreenAssumption DEF ModesInOrder
    <3> QED
      BY <3>8, <3>10, <3>12, <3>13, <3>14
  <2>5. CASE dynModes[slot] # NoMode
    <3>1. list = modes /\ mode = dynModes[slot]
      BY <2>5
    <3>2. mode \in DOMAIN modes
      BY <2>3, <2>5, <3>1 DEF ModesInOrder
    <3>3. mode # currentMode
      BY <2>3, <2>5, <3>1 DEF ModesInOrder
    <3>4. dynModes' = dynModes
      BY <2>1, <2>3, <3>1 DEF ModesInOrder
    <3>5. /\ modes \in [1 .. Len(modes) -> Sizes] /\ Len(modes) \in Nat
          /\ modes' = [modes EXCEPT ![mode] = size]
      BY <2>1, <3>1 DEF ModesInOrder
    <3> HIDE DEF list, mode
    <3>6. /\ modes' \in [1 .. Len(modes) -> Sizes]
          /\ \A m \in DOMAIN modes \ {mode} : modes'[m] = modes[m]
      BY <2>2, <3>5
    <3>7. modes' \in Seq(Sizes) /\ Len(modes') = Len(modes) /\ DOMAIN modes' = DOMAIN modes
      BY <3>5, <3>6
    <3> QED
      BY <3>3, <3>4, <3>6, <3>7 DEF ModesInOrder
  <2> QED
    BY <2>4, <2>5
<1> QED
  BY <1>1, <1>2

----------------------------------------------------------------------------
(* Every action keeps the invariant.                                       *)
LEMMA InitInOrder == Init => IInv
<1> SUFFICES ASSUME Init PROVE IInv
  OBVIOUS
<1>1. ServerInOrder
  <2>1. /\ phase = "probed" /\ generation = 0 /\ caps \in Capabilities
        /\ xinerama = FALSE /\ xineramaStatic = FALSE /\ xineramaNextState = NoState
    BY DEF Init
  <2>2. 0 \in 0 .. MaxGenerations
    BY ScreenAssumption
  <2> QED
    BY <2>1, <2>2 DEF ServerInOrder, Topologies
<1>2. DeviceInOrder
  <2>1. /\ version \in Ids /\ SavedReg = reg /\ suspensionSavedRegId = 0
        /\ reg = [enable |-> FALSE, id |-> 0, size |-> <<0, 0>>]
        /\ vtSema = FALSE
    BY DEF Init
  <2>2. 0 \in 0 .. version
    BY <2>1, ScreenAssumption
  <2>3. reg \in Registers(version)
    BY <2>1, <2>2 DEF Registers
  <2> QED
    BY <2>1, <2>2, <2>3 DEF DeviceInOrder
<1>3. ModesInOrder
  <2>1. << >> \in Seq(Sizes) /\ <<NoMode, NoMode>> \in [1 .. 2 -> Nat \cup {NoMode}]
    OBVIOUS
  <2> QED
    BY <2>1, SizesType DEF Init, ModesInOrder
<1>4. IdInOrder
  BY DEF Init, IdInOrder
<1>5. PortInOrder
  BY VideoSetupClosed DEF Init, PortInOrder, InOrder, Closed, Open
<1>6. HostShowsTopology
  BY DEF Init, HostShowsTopology
<1> QED
  BY <1>1, <1>2, <1>3, <1>4, <1>5, <1>6 DEF IInv

(* What only concerns the port.                                            *)
LEMMA PortAlone ==
  ASSUME IInv, UNCHANGED noVideo, PortInOrder'
  PROVE  IInv'
<1> USE DEF noVideo, server, device, modelist, topology
<1>1. ServerInOrder'
  BY DEF IInv, ServerInOrder
<1>2. DeviceInOrder'
  BY DEF IInv, DeviceInOrder
<1>3. ModesInOrder'
  BY DEF IInv, ModesInOrder
<1>4. IdInOrder'
  BY DEF IInv, IdInOrder
<1>5. HostShowsTopology'
  BY DEF IInv, HostShowsTopology, QueryScreens
<1> QED
  BY <1>1, <1>2, <1>3, <1>4, <1>5 DEF IInv

LEMMA FirstModesType ==
  ASSUME NEW found \in Nat \X Nat
  PROVE  FirstModes(found) \subseteq Sizes
BY CoverType, ScreenAssumption DEF FirstModes, InitialMode, Sizes

LEMMA PreInitInOrder == IInv /\ PreInit => IInv'
<1> SUFFICES ASSUME IInv, PreInit PROVE IInv'
  OBVIOUS
<1> USE DEF topology
<1> DEFINE first == WriteId(reg, 2)
           newest == IF version >= 2 THEN 2 ELSE 1
<1>1. version \in 0 .. 2
  BY ScreenAssumption DEF IInv, DeviceInOrder
<1>2. reg \in Registers(version)
  BY DEF IInv, DeviceInOrder
<1>3. first \in Registers(version) /\ reg' = WriteId(first, newest)
  BY <1>2, WriteIdType DEF PreInit, GetVMwareSvgaId
<1> HIDE DEF first
<1>4. reg' \in Registers(version)
  BY <1>3, WriteIdType
<1>5. reg'.id # 0 => reg'.id = version
  <2>1. CASE version = 0
    BY <1>4, <2>1 DEF Registers
  <2>2. CASE version # 0
    <3>1. newest \in 0 .. version /\ newest = version
      BY <1>1, <2>2
    <3> HIDE DEF newest
    <3> QED
      BY <1>3, <3>1, WriteIdType
  <2> QED
    BY <2>1, <2>2
<1> HIDE DEF newest
<1>6. /\ phase = "probed" /\ phase' \in {"closed", "failed"}
      /\ phase' = "closed" =>
           reg'.id # 0 /\ currentMode' = 1 /\ \E size \in Sizes : modes' = <<size>> /\ virtual' = size
      /\ phase' = "failed" => UNCHANGED <<modes, currentMode, virtual>>
  BY <1>2, FirstModesType DEF PreInit, Registers
<1>7. ServerInOrder'
  BY <1>6 DEF PreInit, IInv, ServerInOrder
<1>8. DeviceInOrder'
  <2>1. version' = version /\ SavedReg' = reg
    BY DEF PreInit
  <2>2. suspensionSavedRegId' \in 0 .. version
    BY <1>4 DEF PreInit, IInv, DeviceInOrder, Registers
  <2>3. vtSema' = FALSE
    BY <1>6 DEF PreInit, IInv, DeviceInOrder
  <2> QED
    BY <1>2, <1>4, <2>1, <2>2, <2>3 DEF IInv, DeviceInOrder
<1>9. ModesInOrder'
  <2>1. /\ dynModes' = dynModes /\ ModeReg' = ModeReg /\ modes = << >>
        /\ ModesInOrder
    BY <1>6 DEF PreInit, IInv, ModesInOrder
  <2>2. CASE phase' = "closed"
    <3>1. PICK size \in Sizes : modes' = <<size>> /\ virtual' = size
      BY <1>6, <2>2
    <3>2. modes' \in Seq(Sizes) /\ DOMAIN modes' = 1 .. 1 /\ currentMode' \in DOMAIN modes'
      BY <1>6, <2>2, <3>1
    <3> QED
      BY <2>1, <2>2, <3>1, <3>2 DEF ModesInOrder
  <2>3. CASE phase' = "failed"
    BY <1>6, <2>1, <2>3 DEF ModesInOrder
  <2> QED
    BY <1>6, <2>2, <2>3
<1>10. IdInOrder'
  BY <1>5, <1>6 DEF PreInit, IInv, IdInOrder
<1>11. PortInOrder'
  BY <1>6 DEF PreInit, IInv, PortInOrder
<1>12. HostShowsTopology'
  BY <1>6 DEF HostShowsTopology
<1> QED
  BY <1>7, <1>8, <1>9, <1>10, <1>11, <1>12 DEF IInv

(* A mode that was set and a topology that was told are what clients see.  *)
LEMMA ShowsWhatIsTold ==
  ASSUME caps' = caps, reg'.enable, reg'.size = ModeReg',
         "topology" \in caps =>
           displays' = IF xinerama'
                       THEN IF xineramaState' = NoState THEN << >> ELSE xineramaState'
                       ELSE SingleOutput(ModeReg')
  PROVE  HostShowsTopology'
BY DEF HostShowsTopology, QueryScreens

LEMMA ScreenInitInOrder == IInv /\ ScreenInit => IInv'
<1> SUFFICES ASSUME IInv, ScreenInit PROVE IInv'
  OBVIOUS
<1>1. PICK builtin \in BOOLEAN, allocated \in Allocations :
        /\ xinerama' = ("multimon" \in caps /\ ~builtin)
        /\ ModeInit(modes[currentMode], virtual, reg)
        /\ video' = VideoSetup
        /\ NextXineramaState(xinerama', xineramaStatic', ConfiguredState,
                             xineramaNextState, ModeReg', allocated)
        /\ xineramaStatic' = IF Configured THEN ConfiguredState # NoState
                             ELSE xineramaStatic
  BY DEF ScreenInit
<1>2. /\ caps' = caps /\ version' = version /\ SavedReg' = SavedReg
      /\ suspensionSavedRegId' = suspensionSavedRegId /\ phase = "closed" /\ phase' = "up"
      /\ generation' = generation + 1 /\ generation < MaxGenerations
      /\ isOn' = isOn /\ currentMode' = currentMode /\ virtual' = virtual
      /\ modes' = AddDefaultModes(modes) /\ dynModes' = <<NoMode, NoMode>>
  BY DEF ScreenInit
<1>3. xinerama' \in BOOLEAN
  BY <1>1
<1>4. xineramaStatic' \in BOOLEAN
  BY <1>1 DEF IInv, ServerInOrder
<1>5. modes \in Seq(Sizes) /\ virtual \in Sizes /\ currentMode \in DOMAIN modes
  BY <1>2 DEF IInv, ModesInOrder
<1>6. modes[currentMode] \in Sizes /\ reg \in Registers(version)
  BY <1>5 DEF IInv, DeviceInOrder
<1>7. /\ vtSema' /\ ModeReg' \in Sizes
      /\ reg' \in Registers(version) /\ reg'.id = reg.id
      /\ reg'.enable /\ reg'.size = ModeReg'
  BY <1>1, <1>5, <1>6, ModeInitShows
<1>8. allocated \in BOOLEAN /\ xineramaNextState \in Topologies
  BY ScreenAssumption DEF IInv, ServerInOrder
<1>9. /\ xineramaNextState' \in Topologies
      /\ "topology" \in caps =>
           displays' = IF xinerama'
                       THEN IF xineramaState' = NoState THEN << >> ELSE xineramaState'
                       ELSE SingleOutput(ModeReg')
  <2> DEFINE layout == ConfiguredState
  <2>1. NextXineramaState(xinerama', xineramaStatic', layout, xineramaNextState,
                          ModeReg', allocated)
    BY <1>1
  <2> HIDE DEF layout
  <2> QED
    BY <1>3, <1>4, <1>8, <2>1 DEF NextXineramaState, Displays, Topologies, ChangesTopology
<1>10. ServerInOrder'
  <2>1. generation' \in 0 .. MaxGenerations
    BY <1>2, ScreenAssumption DEF IInv, ServerInOrder
  <2> QED
    BY <1>2, <1>3, <1>4, <1>9, <2>1 DEF IInv, ServerInOrder, Topologies
<1>11. DeviceInOrder'
  <2>1. vtSema' = TRUE
    BY <1>1 DEF ModeInit
  <2> QED
    BY <1>2, <1>7, <2>1 DEF IInv, DeviceInOrder
<1>12. ModesInOrder'
  <2>1. dynModes' \in [1 .. 2 -> Nat \cup {NoMode}] /\ dynModes'[1] = NoMode /\ dynModes'[2] = NoMode
    BY <1>2
  <2>2. modes' \in Seq(Sizes) /\ Len(modes) <= Len(modes')
    BY <1>2, <1>5, AddDefaultModesType
  <2>3. currentMode' \in DOMAIN modes'
    BY <1>2, <1>5, <2>2
  <2> QED
    BY <1>2, <1>5, <1>7, <2>1, <2>2, <2>3 DEF ModesInOrder
<1>13. IdInOrder'
  BY <1>2, <1>7, ScreenAssumption DEF IInv, IdInOrder, ServerInOrder
<1>14. PortInOrder'
  BY <1>1, <1>2, VideoSetupClosed DEF IInv, PortInOrder, InOrder, Open, Closed
<1>15. HostShowsTopology'
  BY <1>2, <1>7, <1>9, ShowsWhatIsTold
<1> QED
  BY <1>10, <1>11, <1>12, <1>13, <1>14, <1>15 DEF IInv

(* A mode is set on a screen that is up: by a switch of modes, or because  *)
(* the VT comes back.                                                      *)
LEMMA ModeSetInOrder ==
  ASSUME IInv, phase = "up",
         NEW mode \in DOMAIN modes, virtual' \in Sizes,
         NEW r \in Registers(version), generation = 1 => r.id = version,
         NEW allocated \in Allocations,
         ModeInit(modes[mode], virtual', r),
         video' = CheckVideoSanity(video, FbSize(ModeReg')),
         NextXineramaState(xinerama, xineramaStatic, xineramaState, xineramaNextState,
                           ModeReg', allocated),
         currentMode' = mode,
         UNCHANGED <<server, version, suspensionSavedRegId, modelist, xinerama,
                     xineramaStatic, isOn>>
  PROVE  IInv'
<1> USE DEF server, modelist
<1>1. /\ modes \in Seq(Sizes) /\ modes[mode] \in Sizes
      /\ xinerama \in BOOLEAN /\ xineramaStatic \in BOOLEAN
      /\ xineramaNextState \in Topologies /\ allocated \in BOOLEAN
  BY ScreenAssumption DEF IInv, ModesInOrder, ServerInOrder
<1>2. /\ vtSema' /\ ModeReg' \in Sizes
      /\ reg' \in Registers(version) /\ reg'.id = r.id
      /\ reg'.enable /\ reg'.size = ModeReg'
  BY <1>1, ModeInitShows
<1>3. /\ xineramaNextState' \in Topologies
      /\ "topology" \in caps =>
           displays' = IF xinerama
                       THEN IF xineramaState' = NoState THEN << >> ELSE xineramaState'
                       ELSE SingleOutput(ModeReg')
  BY <1>1, TopologyTold
<1>4. InOrder(video') /\ (video' = video \/ Closed(video'))
  BY CheckVideoSanityInOrder DEF IInv, PortInOrder
<1>5. ServerInOrder'
  BY <1>3 DEF IInv, ServerInOrder, Topologies
<1>6. DeviceInOrder'
  <2>1. vtSema' = TRUE
    BY DEF ModeInit
  <2> QED
    BY <1>2, <2>1 DEF IInv, DeviceInOrder
<1>7. ModesInOrder'
  BY <1>2 DEF IInv, ModesInOrder
<1>8. IdInOrder'
  BY <1>2 DEF IInv, IdInOrder
<1>9. PortInOrder'
  BY <1>4 DEF IInv, PortInOrder, Open, Closed
<1>10. HostShowsTopology'
  BY <1>2, <1>3, ShowsWhatIsTold
<1> QED
  BY <1>5, <1>6, <1>7, <1>8, <1>9, <1>10 DEF IInv

LEMMA SwitchModeInOrder ==
  IInv /\ (\E mode \in DOMAIN modes : SwitchMode(mode)) => IInv'
<1> SUFFICES ASSUME IInv, NEW mode \in DOMAIN modes, SwitchMode(mode)
             PROVE  IInv'
  OBVIOUS
<1>1. PICK allocated \in Allocations :
        /\ ModeInit(modes[mode], virtual', reg)
        /\ video' = CheckVideoSanity(video, FbSize(ModeReg'))
        /\ NextXineramaState(xinerama, xineramaStatic, xineramaState,
                             xineramaNextState, ModeReg', allocated)
  BY DEF SwitchMode
<1>2. virtual' \in Sizes /\ phase = "up" /\ currentMode' = mode
  BY DEF SwitchMode, IInv, ModesInOrder
<1>3. reg \in Registers(version) /\ (generation = 1 => reg.id = version)
  BY DEF SwitchMode, IInv, IdInOrder, DeviceInOrder
<1>4. UNCHANGED <<server, version, suspensionSavedRegId, modelist, xinerama,
                  xineramaStatic, isOn>>
  BY DEF SwitchMode
<1> QED
  BY <1>1, <1>2, <1>3, <1>4, ModeSetInOrder

LEMMA EnterVTInOrder == IInv /\ EnterVT => IInv'
<1> SUFFICES ASSUME IInv, EnterVT
             PROVE  IInv'
  OBVIOUS
<1> DEFINE r == ReEnter(reg)
<1>1. PICK allocated \in Allocations :
        /\ ModeInit(modes[currentMode], virtual, r)
        /\ video' = CheckVideoSanity(video, FbSize(ModeReg'))
        /\ NextXineramaState(xinerama, xineramaStatic, xineramaState,
                             xineramaNextState, ModeReg', allocated)
  BY DEF EnterVT
<1>2. /\ virtual' = virtual /\ virtual' \in Sizes /\ phase = "up"
      /\ currentMode' = currentMode /\ currentMode \in DOMAIN modes
  BY DEF EnterVT, IInv, ModesInOrder
<1>3. r \in Registers(version) /\ (generation = 1 => r.id = version)
  BY WriteIdType DEF EnterVT, ReEnter, IInv, IdInOrder, DeviceInOrder
<1>4. UNCHANGED <<server, version, suspensionSavedRegId, modelist, xinerama,
                  xineramaStatic, isOn>>
  BY DEF EnterVT
<1> HIDE DEF r
<1>5. ModeInit(modes[currentMode], virtual', r)
  BY <1>1, <1>2
<1> QED
  BY <1>1, <1>2, <1>3, <1>4, <1>5, ModeSetInOrder

(* A request leaves the device alone, or tells it a topology at once.      *)
LEMMA RequestInOrder ==
  ASSUME IInv, ModesInOrder', xineramaNextState' \in Topologies,
         UNCHANGED <<server, reg, version, suspensionSavedRegId, vtSema, currentMode,
                     virtual, ModeReg, xinerama, xineramaStatic, video, isOn>>,
         HostShowsTopology'
  PROVE  IInv'
<1> USE DEF server
<1>1. ServerInOrder'
  BY DEF IInv, ServerInOrder, Topologies
<1>2. DeviceInOrder'
  BY DEF IInv, DeviceInOrder
<1>3. IdInOrder'
  BY DEF IInv, IdInOrder
<1>4. PortInOrder'
  BY DEF IInv, PortInOrder
<1> QED
  BY <1>1, <1>2, <1>3, <1>4 DEF IInv

LEMMA DoSetResInOrder ==
  ASSUME IInv, phase = "up", NEW size \in Int \X Int, DoSetRes(size),
         UNCHANGED <<server, currentMode, virtual, ModeReg>>
  PROVE  ModesInOrder'
<1>1. /\ modes' \in Seq(Sizes) /\ Len(modes) <= Len(modes')
      /\ dynModes' \in [1 .. 2 -> Nat \cup {NoMode}]
      /\ \A slot \in 1 .. 2 : dynModes'[slot] \in DOMAIN modes' \cup {NoMode}
      /\ dynModes'[1] = NoMode \/ dynModes'[1] # dynModes'[2]
  BY DoSetResModes DEF IInv
<1>2. modes \in Seq(Sizes)
  BY DEF IInv, ModesInOrder
<1>3. DOMAIN modes \subseteq DOMAIN modes'
  BY <1>1, <1>2
<1> QED
  BY <1>1, <1>3 DEF IInv, ModesInOrder, server

LEMMA SetResInOrder == IInv /\ (\E size \in Requested : SetRes(size)) => IInv'
<1> SUFFICES ASSUME IInv, NEW size \in Requested, SetRes(size)
             PROVE  IInv'
  OBVIOUS
<1>1. size \in Int \X Int
  BY ScreenAssumption
<1>2. ModesInOrder'
  BY <1>1, DoSetResInOrder DEF SetRes, server
<1>3. HostShowsTopology'
  BY DEF SetRes, IInv, HostShowsTopology, QueryScreens, server, device
<1> QED
  BY <1>2, <1>3, RequestInOrder DEF SetRes, Topologies, server, device

LEMMA SetTopologyInOrder == IInv /\ (\E layout \in Layouts : SetTopology(layout)) => IInv'
<1> SUFFICES ASSUME IInv, NEW layout \in Layouts, SetTopology(layout)
             PROVE  IInv'
  OBVIOUS
<1> DEFINE box == BoundingBox(layout)
<1>1. box \in Int \X Int
  BY LayoutsAssumption
<1>2. /\ phase = "up" /\ layout \in Topologies /\ UNCHANGED <<server, virtual, ModeReg, currentMode>>
      /\ UNCHANGED <<server, reg, version, suspensionSavedRegId, vtSema, currentMode,
                     virtual, ModeReg, xinerama, xineramaStatic, video, isOn>>
  BY DEF SetTopology, Topologies
<1>3. CASE box = ModeReg
  <2>1. /\ NextXineramaState(xinerama, xineramaStatic, xineramaState, layout, ModeReg, TRUE)
        /\ UNCHANGED modelist
    BY <1>3 DEF SetTopology
  <2>2. xinerama \in BOOLEAN /\ xineramaStatic \in BOOLEAN
    BY DEF IInv, ServerInOrder
  <2>3. /\ xineramaNextState' \in Topologies
        /\ "topology" \in caps =>
             displays' = IF xinerama
                         THEN IF xineramaState' = NoState THEN << >> ELSE xineramaState'
                         ELSE SingleOutput(ModeReg)
    BY <1>2, <2>1, <2>2, TopologyTold
  <2>4. HostShowsTopology'
    BY <1>2, <2>3 DEF IInv, HostShowsTopology, QueryScreens, server
  <2>5. ModesInOrder'
    BY <1>2, <2>1 DEF IInv, ModesInOrder, modelist, server
  <2> QED
    BY <1>2, <2>3, <2>4, <2>5, RequestInOrder
<1>4. CASE box # ModeReg
  <2>1. xineramaNextState' = layout /\ DoSetRes(box) /\ UNCHANGED <<xineramaState, displays>>
    BY <1>4 DEF SetTopology
  <2> HIDE DEF box
  <2>2. ModesInOrder'
    BY <1>1, <1>2, <2>1, DoSetResInOrder
  <2>3. HostShowsTopology'
    BY <1>2, <2>1 DEF IInv, HostShowsTopology, QueryScreens, server
  <2> QED
    BY <1>2, <2>1, <2>2, <2>3, RequestInOrder
<1> QED
  BY <1>3, <1>4

(* The registers that the server found are put back.                       *)
LEMMA RestoreType == IInv => Restore(reg) \in Registers(version)
<1> SUFFICES ASSUME IInv PROVE Restore(reg) \in Registers(version)
  OBVIOUS
<1>1. /\ reg \in Registers(version) /\ SavedReg.enable \in BOOLEAN
      /\ SavedReg.size \in Nat \X Nat
  BY DEF IInv, DeviceInOrder, Registers
<1> QED
  BY <1>1, RestoreRegsType DEF Restore

LEMMA LeaveVTInOrder == IInv /\ LeaveVT => IInv'
<1> SUFFICES ASSUME IInv, LeaveVT PROVE IInv'
  OBVIOUS
<1> USE DEF server, modelist, topology
<1>1. /\ phase' = "up" /\ phase = "up" /\ vtSema' = FALSE /\ vtSema
      /\ suspensionSavedRegId' = reg.id /\ reg' = Restore(reg)
  BY DEF LeaveVT
<1>2. ServerInOrder'
  BY DEF LeaveVT, IInv, ServerInOrder, Topologies
<1>3. DeviceInOrder'
  <2>1. reg' \in Registers(version)
    BY <1>1, RestoreType
  <2>2. reg.id \in 0 .. version
    BY DEF IInv, DeviceInOrder, Registers
  <2> QED
    BY <1>1, <2>1, <2>2 DEF LeaveVT, IInv, DeviceInOrder
<1>4. ModesInOrder'
  BY DEF LeaveVT, IInv, ModesInOrder
<1>5. IdInOrder'
  BY <1>1 DEF LeaveVT, IInv, IdInOrder
<1>6. PortInOrder'
  BY <1>1 DEF LeaveVT, IInv, PortInOrder
<1>7. HostShowsTopology'
  BY <1>1 DEF HostShowsTopology
<1> QED
  BY <1>2, <1>3, <1>4, <1>5, <1>6, <1>7 DEF IInv

LEMMA HibernateInOrder == IInv /\ Hibernate => IInv'
<1> SUFFICES ASSUME IInv, Hibernate PROVE IInv'
  OBVIOUS
<1> USE DEF server, modelist, topology
<1>1. /\ phase' = "up" /\ phase = "up" /\ vtSema' = vtSema /\ ~vtSema
      /\ reg' = [enable |-> FALSE, id |-> 0, size |-> <<0, 0>>]
  BY DEF Hibernate
<1>2. ServerInOrder'
  BY DEF Hibernate, IInv, ServerInOrder, Topologies
<1>3. DeviceInOrder'
  <2>1. 0 \in 0 .. version
    BY ScreenAssumption DEF IInv, DeviceInOrder
  <2>2. reg' \in Registers(version)
    BY <1>1, <2>1 DEF Registers
  <2> QED
    BY <1>1, <2>2 DEF Hibernate, IInv, DeviceInOrder
<1>4. ModesInOrder'
  BY DEF Hibernate, IInv, ModesInOrder
<1>5. IdInOrder'
  BY <1>1 DEF Hibernate, IInv, IdInOrder
<1>6. PortInOrder'
  BY <1>1 DEF Hibernate, IInv, PortInOrder
<1>7. HostShowsTopology'
  BY <1>1 DEF HostShowsTopology
<1> QED
  BY <1>2, <1>3, <1>4, <1>5, <1>6, <1>7 DEF IInv

LEMMA CloseScreenInOrder == IInv /\ CloseScreen => IInv'
<1> SUFFICES ASSUME IInv, CloseScreen PROVE IInv'
  OBVIOUS
<1> USE DEF modelist
<1>1. /\ phase = "up" /\ phase' = "closed" /\ vtSema' = FALSE /\ isOn = "off"
      /\ caps' = caps /\ generation' = generation
      /\ xineramaStatic' = xineramaStatic /\ xineramaNextState' = xineramaNextState
      /\ video' = video \/ video' = VideoEnd(video)
      /\ reg' = reg \/ reg' = Restore(reg)
      /\ isOn' = isOn
  BY DEF CloseScreen
<1>2. ServerInOrder'
  <2>1. xinerama' \in BOOLEAN
    BY DEF CloseScreen
  <2> QED
    BY <1>1, <2>1 DEF IInv, ServerInOrder, Topologies
<1>3. DeviceInOrder'
  <2>1. reg' \in Registers(version)
    BY <1>1, RestoreType DEF IInv, DeviceInOrder
  <2> QED
    BY <1>1, <2>1 DEF CloseScreen, IInv, DeviceInOrder
<1>4. ModesInOrder'
  BY <1>1 DEF CloseScreen, IInv, ModesInOrder
<1>5. IdInOrder'
  BY <1>1, ScreenAssumption DEF IInv, IdInOrder, ServerInOrder
<1>6. PortInOrder'
  BY <1>1, VideoEndClosed DEF IInv, PortInOrder, Open, Closed
<1>7. HostShowsTopology'
  BY <1>1 DEF HostShowsTopology
<1> QED
  BY <1>2, <1>3, <1>4, <1>5, <1>6, <1>7 DEF IInv

LEMMA PutImageInOrder ==
  IInv /\ (\E image \in Images, clip \in Clips : PutImage(image, clip)) => IInv'
<1> SUFFICES ASSUME IInv, NEW image \in Images, NEW clip \in Clips, PutImage(image, clip)
             PROVE  IInv'
  OBVIOUS
<1>1. PICK allocated \in Allocations :
        video' = XvPutImage(video, image, clip, FbSize(ModeReg), allocated)
  BY DEF PutImage
<1>2. /\ InOrder(video')
      /\ (Open(video') /\ video'.clip = clip) \/ Closed(video')
  BY <1>1, XvPutImageInOrder, ScreenAssumption DEF IInv, PortInOrder
<1>3. /\ phase = "up" /\ UNCHANGED noVideo
      /\ isOn' = IF Succeeds(video') THEN "on" ELSE isOn
  BY DEF PutImage
<1>4. PortInOrder'
  <2>1. clip # NoClip
    BY VideoAssumption
  <2> QED
    BY <1>2, <1>3, <2>1
    DEF IInv, PortInOrder, Succeeds, Open, Closed, noVideo, server
<1> QED
  BY <1>3, <1>4, PortAlone

LEMMA ClipNotifyInOrder == IInv /\ ClipNotify => IInv'
<1> SUFFICES ASSUME IInv, ClipNotify PROVE IInv'
  OBVIOUS
<1>1. InOrder(video')
  BY PauseInOrder DEF ClipNotify, IInv, PortInOrder
<1>2. PortInOrder'
  BY <1>1 DEF ClipNotify, IInv, PortInOrder, noVideo, server
<1> QED
  BY <1>2, PortAlone DEF ClipNotify

LEMMA StopPortInOrder == IInv /\ StopPort => IInv'
<1> SUFFICES ASSUME IInv, StopPort PROVE IInv'
  OBVIOUS
<1>1. InOrder(video') /\ Closed(video')
  BY StopVideoClosed DEF StopPort, IInv, PortInOrder, InOrder
<1>2. PortInOrder'
  BY <1>1 DEF StopPort, PortInOrder
<1> QED
  BY <1>2, PortAlone DEF StopPort

LEMMA SetPortAttributeInOrder ==
  IInv /\ (\E value \in BOOLEAN : SetPortAttribute(value)) => IInv'
<1> SUFFICES ASSUME IInv, NEW value \in BOOLEAN, SetPortAttribute(value)
             PROVE  IInv'
  OBVIOUS
<1>1. InOrder(video') /\ Closed(video')
  BY SetAutopaintClosed DEF SetPortAttribute, IInv, PortInOrder
<1>2. PortInOrder'
  BY <1>1 DEF SetPortAttribute, IInv, PortInOrder, noVideo, server, Open, Closed
<1> QED
  BY <1>2, PortAlone DEF SetPortAttribute

LEMMA StutterInOrder == IInv /\ UNCHANGED vars => IInv'
<1> SUFFICES ASSUME IInv, UNCHANGED vars PROVE IInv'
  OBVIOUS
<1>1. UNCHANGED noVideo /\ video' = video /\ isOn' = isOn
  BY DEF vars, noVideo
<1>2. PortInOrder'
  BY <1>1 DEF IInv, PortInOrder, noVideo, server
<1> QED
  BY <1>1, <1>2, PortAlone

(* Everything that is in order stays in order.                             *)
THEOREM ScreenInOrder == Spec => []IInv
<1>1. Init => IInv
  BY InitInOrder
<1>2. IInv /\ [Next]_vars => IInv'
  BY PreInitInOrder, ScreenInitInOrder, SwitchModeInOrder, SetResInOrder,
     SetTopologyInOrder, LeaveVTInOrder, HibernateInOrder, EnterVTInOrder,
     CloseScreenInOrder, PutImageInOrder, ClipNotifyInOrder, StopPortInOrder,
     SetPortAttributeInOrder, StutterInOrder
  DEF Next
<1> QED
  BY <1>1, <1>2, PTL DEF Spec

(* The registers, the list of modes, the topologies and the port have      *)
(* their types, and no mode is larger than the device.                     *)
THEOREM ScreenTypes == Spec => []TypeOK
<1>1. IInv => TypeOK
  <2> SUFFICES ASSUME IInv PROVE TypeOK
    OBVIOUS
  <2>1. \A m \in DOMAIN modes : Within(modes[m], MaxSize)
    BY DEF IInv, ModesInOrder, Sizes
  <2>2. VideoTypeOK(video)
    BY PortPromises DEF IInv, PortInOrder
  <2>3. reg.id \in 0 .. version /\ reg.enable \in BOOLEAN
    BY DEF IInv, DeviceInOrder, Registers
  <2> QED
    BY <2>1, <2>2, <2>3
    DEF TypeOK, IInv, ServerInOrder, DeviceInOrder, ModesInOrder, PortInOrder
<1> QED
  BY <1>1, ScreenInOrder, PTL

(* While the VT is held the device shows the mode that was set and the     *)
(* topology that clients are told (vmwareNextXineramaState).               *)
THEOREM ScreenShowsTopology == Spec => []HostShowsTopology
<1>1. IInv => HostShowsTopology
  BY DEF IInv
<1> QED
  BY <1>1, ScreenInOrder, PTL

(* The device answers to the ID that PreInit negotiated (VMWAREEnterVT).   *)
THEOREM ScreenKeepsId == Spec => []SvgaIdKept
<1>1. IInv => SvgaIdKept
  BY DEF IInv, IdInOrder, DeviceInOrder, SvgaIdKept
<1> QED
  BY <1>1, ScreenInOrder, PTL

(* A port that plays shows the key over its clip (vmwareVideoPlay,         *)
(* vmwareStopVideo).                                                       *)
THEOREM ScreenPaintsKey == Spec => []KeyPainted
<1>1. IInv => KeyPainted
  BY DEF IInv, PortInOrder, InOrder, Closed, Open, Keyed, KeyPainted
<1> QED
  BY <1>1, ScreenInOrder, PTL

----------------------------------------------------------------------------
(* The memory of a stream.  VRAM that holds the largest framebuffer, a row *)
(* and seven bytes more leaves a spare that is not below zero in any mode. *)
LargestFits == FbSize(MaxSize).size + FbSize(MaxSize).pitch + 7 <= VideoRam

(* What is allocated is behind the framebuffer and ends with VRAM.         *)
BesideFrame ==
  video.mgr.size # 0 =>
    /\ video.mgr.offset >= FbSize(ModeReg).size
    /\ video.mgr.offset + video.mgr.size <= VideoRam

LEMMA ProductMonotone ==
  ASSUME NEW a \in Nat, NEW b \in Nat, NEW c \in Nat, NEW d \in Nat, a <= c, b <= d
  PROVE  a * b \in Nat /\ a * b <= c * d
<1>1. a * b \in Nat /\ c * d \in Nat /\ a * d \in Nat
  OBVIOUS
<1>2. a * b <= a * d
  <2>1. PICK k \in Nat : d = b + k
    <3>1. d - b \in Nat /\ d = b + (d - b)
      OBVIOUS
    <3> QED
      BY <3>1
  <2>2. a * d = a * b + a * k /\ a * k \in Nat
    BY <2>1
  <2> QED
    BY <1>1, <2>2
<1>3. a * d <= c * d
  <2>1. PICK k \in Nat : c = a + k
    <3>1. c - a \in Nat /\ c = a + (c - a)
      OBVIOUS
    <3> QED
      BY <3>1
  <2>2. c * d = a * d + k * d /\ k * d \in Nat
    BY <2>1
  <2> QED
    BY <1>1, <2>2
<1> QED
  BY <1>1, <1>2, <1>3

LEMMA SpareOfMode ==
  ASSUME LargestFits, NEW size \in Sizes
  PROVE  /\ FbSize(size).size \in Nat /\ FbSize(size).pitch \in Nat
         /\ Spare(FbSize(size)) >= 0
<1>1. /\ size[1] \in Nat /\ size[2] \in Nat /\ MaxSize[1] \in Nat /\ MaxSize[2] \in Nat
      /\ size[1] <= MaxSize[1] /\ size[2] <= MaxSize[2]
  BY ScreenAssumption DEF Sizes, Within
<1> DEFINE bytes == size[1] * size[2]
           largest == MaxSize[1] * MaxSize[2]
<1>2. bytes \in Nat /\ bytes <= largest /\ largest \in Nat
  BY <1>1, ProductMonotone
<1>3. /\ FbSize(size).size = bytes /\ FbSize(size).pitch = size[1]
      /\ FbSize(MaxSize).size = largest /\ FbSize(MaxSize).pitch = MaxSize[1]
  BY DEF FbSize
<1> HIDE DEF bytes, largest
<1> QED
  BY <1>1, <1>2, <1>3, VideoAssumption DEF Spare, LargestFits

(* What fits is allocated beside the framebuffer.                          *)
LEMMA AllocatedBeside ==
  ASSUME LargestFits, NEW size \in Sizes, NEW image \in Images,
         OffscreenFits(FbSize(size), ImageSize(image))
  PROVE  LET area == Allocated(ImageSize(image))
         IN  /\ area.offset >= FbSize(size).size
             /\ area.offset + area.size <= VideoRam
<1> DEFINE bytes == ImageSize(image)
           frame == FbSize(size).size
           pitch == FbSize(size).pitch
<1>1. frame \in Nat /\ pitch \in Nat /\ Spare(FbSize(size)) >= 0
  BY SpareOfMode
<1>2. bytes \in Nat /\ VideoRam \in Nat
  BY PlanesFit, VideoAssumption
<1>3. Spare(FbSize(size)) = VideoRam - frame - pitch - 7
  BY DEF Spare
<1> HIDE DEF bytes, frame, pitch
<1>4. VideoRam - frame - pitch - 7 >= bytes
  <2>1. Spare(FbSize(size)) >= bytes
    BY <1>1, <1>2, <1>3 DEF OffscreenFits, bytes
  <2> QED
    BY <1>3, <2>1
<1>5. VideoRam - bytes \in Int
  BY <1>2
<1>6. /\ EightBelow(VideoRam - bytes) \in Int
      /\ EightBelow(VideoRam - bytes) <= VideoRam - bytes
      /\ VideoRam - bytes - 7 <= EightBelow(VideoRam - bytes)
  BY <1>5, EightBelowType
<1>7. Allocated(ImageSize(image)) = [size |-> bytes, offset |-> EightBelow(VideoRam - bytes)]
  BY DEF Allocated, bytes
<1> DEFINE offset == EightBelow(VideoRam - bytes)
<1>8. /\ Allocated(ImageSize(image)).size = bytes
      /\ Allocated(ImageSize(image)).offset = offset
  BY <1>7
<1>9. /\ offset \in Int /\ offset <= VideoRam - bytes /\ VideoRam - bytes - 7 <= offset
  BY <1>6
<1> HIDE DEF offset
<1>10. offset >= frame /\ offset + bytes <= VideoRam
  BY <1>1, <1>2, <1>4, <1>9
<1> QED
  BY <1>8, <1>10 DEF frame

(* A mode is set with the port checked.                                    *)
LEMMA SanityBeside ==
  ASSUME IInv, BesideFrame, ModeReg' \in Sizes, LargestFits,
         video' = CheckVideoSanity(video, FbSize(ModeReg'))
  PROVE  BesideFrame'
<1> DEFINE fb == FbSize(ModeReg')
<1>1. (video' = video /\ (video.mgr.size = 0 \/ video.mgr.offset > fb.size)) \/ Closed(video')
  BY CheckVideoSanityInOrder DEF IInv, PortInOrder
<1>2. fb.size \in Nat
  BY SpareOfMode
<1>3. video.mgr.offset \in Int
  BY DEF IInv, PortInOrder, InOrder, Ports, Areas
<1>4. CASE Closed(video')
  BY <1>4 DEF BesideFrame, Closed, OffscreenInit
<1>5. CASE video' = video /\ (video.mgr.size = 0 \/ video.mgr.offset > fb.size)
  <2> HIDE DEF fb
  <2>1. video.mgr.size # 0 => video.mgr.offset >= fb.size
    BY <1>2, <1>3, <1>5
  <2> QED
    BY <1>5, <2>1 DEF BesideFrame, fb
<1> QED
  BY <1>1, <1>4, <1>5

LEMMA BesideFrameKept ==
  ASSUME LargestFits, IInv, IInv', BesideFrame, [Next]_vars
  PROVE  BesideFrame'
<1> USE DEF noVideo, server, device, modelist, topology
<1>1. ModeReg \in Sizes /\ ModeReg' \in Sizes
  BY DEF IInv, ModesInOrder
<1>2. CASE video' = video /\ ModeReg' = ModeReg
  BY <1>2 DEF BesideFrame
<1>3. CASE Closed(video')
  BY <1>3 DEF BesideFrame, Closed, OffscreenInit
<1>4. CASE ScreenInit
  BY <1>3, <1>4, VideoSetupClosed DEF ScreenInit
<1>5. ASSUME NEW mode \in DOMAIN modes, SwitchMode(mode)
      PROVE  BesideFrame'
  BY <1>1, <1>5, SanityBeside DEF SwitchMode
<1>6. CASE EnterVT
  BY <1>1, <1>6, SanityBeside DEF EnterVT
<1>7. CASE CloseScreen
  BY <1>2, <1>3, <1>7, VideoEndClosed DEF CloseScreen, IInv, PortInOrder
<1>8. ASSUME NEW image \in Images, NEW clip \in Clips, PutImage(image, clip)
      PROVE  BesideFrame'
  <2>1. PICK allocated \in Allocations :
          video' = XvPutImage(video, image, clip, FbSize(ModeReg), allocated)
    BY <1>8 DEF PutImage
  <2>2. \/ video'.mgr = video.mgr
        \/ /\ video'.mgr = Allocated(ImageSize(image))
           /\ OffscreenFits(FbSize(ModeReg), ImageSize(image))
        \/ Closed(video')
    BY <2>1, XvPutImageInOrder, ScreenAssumption DEF IInv, PortInOrder
  <2>3. ModeReg' = ModeReg
    BY <1>8 DEF PutImage
  <2>4. CASE video'.mgr = video.mgr
    BY <2>3, <2>4 DEF BesideFrame
  <2>5. CASE /\ video'.mgr = Allocated(ImageSize(image))
             /\ OffscreenFits(FbSize(ModeReg), ImageSize(image))
    BY <1>1, <2>3, <2>5, AllocatedBeside DEF BesideFrame
  <2> QED
    BY <1>3, <2>2, <2>4, <2>5
<1>9. CASE ClipNotify
  <2>1. video'.mgr = video.mgr /\ ModeReg' = ModeReg
    BY <1>9 DEF ClipNotify, StopVideo, IInv, PortInOrder, InOrder, Ports
  <2> QED
    BY <2>1 DEF BesideFrame
<1>10. CASE StopPort
  BY <1>3, <1>10, StopVideoClosed DEF StopPort, IInv, PortInOrder
<1>11. ASSUME NEW value \in BOOLEAN, SetPortAttribute(value)
       PROVE  BesideFrame'
  BY <1>3, <1>11, SetAutopaintClosed DEF SetPortAttribute, IInv, PortInOrder
<1>12. CASE PreInit
  BY <1>2, <1>12 DEF PreInit
<1>13. ASSUME NEW size \in Requested, SetRes(size)
       PROVE  BesideFrame'
  BY <1>2, <1>13 DEF SetRes
<1>14. ASSUME NEW layout \in Layouts, SetTopology(layout)
       PROVE  BesideFrame'
  BY <1>2, <1>14 DEF SetTopology
<1>15. CASE LeaveVT
  BY <1>2, <1>15 DEF LeaveVT
<1>16. CASE Hibernate
  BY <1>2, <1>16 DEF Hibernate
<1>17. CASE UNCHANGED vars
  BY <1>2, <1>17 DEF vars
<1> QED
  BY <1>4, <1>5, <1>6, <1>7, <1>8, <1>9, <1>10, <1>11, <1>12, <1>13, <1>14, <1>15,
     <1>16, <1>17
  DEF Next

(* The memory of a stream is never part of the framebuffer, the host reads *)
(* only memory that the stream holds, and a closed screen leaves nothing   *)
(* allocated, where VRAM holds the largest mode (vmwareCheckVideoSanity,   *)
(* vmwareOffscreenAllocate).                                               *)
THEOREM ScreenKeepsStreamApart ==
  ASSUME LargestFits
  PROVE  Spec => []StreamApart
<1>1. Init => BesideFrame
  BY DEF Init, VideoSetup, OffscreenInit, BesideFrame
<1>2. IInv /\ IInv' /\ BesideFrame /\ [Next]_vars => BesideFrame'
  BY BesideFrameKept
<1>3. IInv /\ BesideFrame => StreamApart
  BY PortPromises DEF IInv, PortInOrder, Closed, BesideFrame, StreamApart
<1> QED
  BY <1>1, <1>2, <1>3, ScreenInOrder, PTL DEF Spec

----------------------------------------------------------------------------
(* Clients see another topology only with a mode that is set, or when it   *)
(* is of the size of the mode (vmwareNextXineramaState).                   *)
THEOREM ScreenSwitchesTogether == Spec => SwitchedTogether
<1> DEFINE Step ==
      phase = "up" /\ phase' = "up" /\ QueryScreens' # QueryScreens =>
        /\ ~xineramaStatic
        /\ \/ currentMode' # currentMode
           \/ ~vtSema /\ vtSema'
           \/ (BoundingBox(QueryScreens) = ModeReg)'
<1>1. ASSUME [Next]_vars PROVE Step
  <2> SUFFICES ASSUME phase = "up", phase' = "up", QueryScreens' # QueryScreens
               PROVE  /\ ~xineramaStatic
                      /\ \/ currentMode' # currentMode
                         \/ ~vtSema /\ vtSema'
                         \/ (BoundingBox(QueryScreens) = ModeReg)'
    OBVIOUS
  <2> USE DEF noVideo, server, device, modelist, topology
  <2>1. ~(xinerama' = xinerama /\ xineramaState' = xineramaState)
    BY DEF QueryScreens
  <2>2. ASSUME NEW mode \in DOMAIN modes, SwitchMode(mode)
        PROVE  ~xineramaStatic /\ currentMode' # currentMode
    BY <2>1, <2>2 DEF SwitchMode, NextXineramaState, ChangesTopology
  <2>3. CASE EnterVT
    BY <2>1, <2>3 DEF EnterVT, NextXineramaState, ChangesTopology, ModeInit
  <2>4. ASSUME NEW layout \in Layouts, SetTopology(layout)
        PROVE  ~xineramaStatic /\ (BoundingBox(QueryScreens) = ModeReg)'
    <3>1. /\ BoundingBox(layout) = ModeReg /\ xinerama /\ xinerama' = xinerama
          /\ NextXineramaState(xinerama, xineramaStatic, xineramaState, layout, ModeReg, TRUE)
          /\ ModeReg' = ModeReg
      BY <2>1, <2>4 DEF SetTopology
    <3>2. layout # NoState
      BY ScreenAssumption
    <3>3. ~xineramaStatic /\ xineramaState' = layout
      BY <2>1, <3>1, <3>2 DEF NextXineramaState, ChangesTopology, TopologyAfter
    <3>4. QueryScreens' = layout
      BY <3>1, <3>2, <3>3 DEF QueryScreens
    <3> QED
      BY <3>1, <3>3, <3>4
  <2>5. CASE PreInit
    BY <2>5 DEF PreInit
  <2>6. CASE ScreenInit
    BY <2>6 DEF ScreenInit
  <2>7. CASE CloseScreen
    BY <2>7 DEF CloseScreen
  <2>8. ASSUME NEW size \in Requested, SetRes(size) PROVE FALSE
    BY <2>1, <2>8 DEF SetRes
  <2>9. CASE LeaveVT \/ Hibernate
    BY <2>1, <2>9 DEF LeaveVT, Hibernate
  <2>10. ASSUME NEW image \in Images, NEW clip \in Clips, PutImage(image, clip) PROVE FALSE
    BY <2>1, <2>10 DEF PutImage
  <2>11. CASE ClipNotify \/ StopPort
    BY <2>1, <2>11 DEF ClipNotify, StopPort
  <2>12. ASSUME NEW value \in BOOLEAN, SetPortAttribute(value) PROVE FALSE
    BY <2>1, <2>12 DEF SetPortAttribute
  <2>13. CASE UNCHANGED vars
    BY <2>1, <2>13 DEF vars
  <2> QED
    BY <1>1, <2>2, <2>3, <2>4, <2>5, <2>6, <2>7, <2>8, <2>9, <2>10, <2>11, <2>12,
       <2>13
    DEF Next
<1>2. [Next]_vars => [Step]_vars
  BY <1>1
<1> QED
  BY <1>2, PTL DEF Spec, SwitchedTogether

(* No request resizes the mode the screen is in (VMwareCtrlDoSetRes).      *)
THEOREM ScreenKeepsCurrentMode == Spec => CurrentModeKept
<1> DEFINE Step ==
      currentMode \in DOMAIN modes /\ currentMode' = currentMode =>
        modes'[currentMode] = modes[currentMode]
<1>1. ASSUME IInv, [Next]_vars PROVE Step
  <2> SUFFICES ASSUME currentMode \in DOMAIN modes, currentMode' = currentMode
               PROVE  modes'[currentMode] = modes[currentMode]
    OBVIOUS
  <2> USE DEF noVideo, server, device, modelist, topology
  <2>1. modes \in Seq(Sizes) /\ ModesInOrder
    BY <1>1 DEF IInv, ModesInOrder
  <2>2. CASE modes' = modes
    BY <2>2
  <2>3. CASE PreInit
    <3>1. modes = << >>
      BY <1>1, <2>3 DEF PreInit, IInv, ModesInOrder
    <3> QED
      BY <3>1
  <2>4. CASE ScreenInit
    BY <2>1, <2>4, AddDefaultModesType DEF ScreenInit
  <2>5. ASSUME NEW size \in Requested, SetRes(size)
        PROVE  modes'[currentMode] = modes[currentMode]
    <3>1. size \in Int \X Int
      BY ScreenAssumption
    <3> QED
      BY <2>1, <2>5, <3>1, DoSetResModes DEF SetRes
  <2>6. ASSUME NEW layout \in Layouts, SetTopology(layout)
        PROVE  modes'[currentMode] = modes[currentMode]
    <3> DEFINE box == BoundingBox(layout)
    <3>1. box \in Int \X Int
      BY LayoutsAssumption
    <3>2. DoSetRes(box) \/ modes' = modes
      BY <2>6 DEF SetTopology
    <3> HIDE DEF box
    <3> QED
      BY <2>1, <2>2, <3>1, <3>2, DoSetResModes
  <2>7. ASSUME NEW mode \in DOMAIN modes, SwitchMode(mode) PROVE modes' = modes
    BY <2>7 DEF SwitchMode
  <2>8. CASE LeaveVT \/ Hibernate \/ EnterVT \/ CloseScreen
    BY <2>2, <2>8 DEF LeaveVT, Hibernate, EnterVT, CloseScreen
  <2>9. ASSUME NEW image \in Images, NEW clip \in Clips, PutImage(image, clip)
        PROVE  modes' = modes
    BY <2>9 DEF PutImage
  <2>10. CASE ClipNotify \/ StopPort
    BY <2>2, <2>10 DEF ClipNotify, StopPort
  <2>11. ASSUME NEW value \in BOOLEAN, SetPortAttribute(value) PROVE modes' = modes
    BY <2>11 DEF SetPortAttribute
  <2>12. CASE UNCHANGED vars
    BY <2>2, <2>12 DEF vars
  <2> QED
    BY <1>1, <2>2, <2>3, <2>4, <2>5, <2>6, <2>7, <2>8, <2>9, <2>10, <2>11, <2>12
    DEF Next
<1>2. IInv /\ [Next]_vars => [Step]_vars
  BY <1>1
<1> QED
  BY <1>2, ScreenInOrder, PTL DEF Spec, CurrentModeKept
=============================================================================
