-------------------------- MODULE VmwgfxXv_proofs --------------------------
(***************************************************************************)
(* The ports of vmwgfx hold what the device reads, show no frame before    *)
(* its key and no frame of mixed surfaces, for every number of streams,    *)
(* buffers, images and clips, and whatever fails.                          *)
(***************************************************************************)
EXTENDS VmwgfxXv, TLAPS

(* The port holds nothing.                                                 *)
Idle(o) ==
  /\ o.claimed = {} /\ o.mapped = {} /\ o.buf = NoHandle
  /\ \A s \in Streams : o.frames[s] = NoFrame
  /\ \A h \in Handles : o.live[h] = 0

(* The port holds one stream and, mapped, one buffer of its size, and      *)
(* shows at most a frame from that buffer.                                 *)
Backed(o) ==
  /\ o.streamId \in Streams /\ o.buf \in Handles /\ o.size # 0
  /\ o.claimed = {o.streamId} /\ o.mapped = {o.buf}
  /\ \A h \in Handles : o.live[h] = IF h = o.buf THEN o.size ELSE 0
  /\ \A s \in Streams :
       o.frames[s] # NoFrame =>
         s = o.streamId /\ o.frames[s] = [handle |-> o.buf, size |-> o.size]

(* A clip that is remembered was painted, or the client paints.            *)
Keyed(o) == Plays(o) /\ o.autopaint /\ o.clip # NoClip => o.painted = o.clip

Ordered(o) ==
  /\ o \in OverlayPorts
  /\ IF Plays(o) THEN Backed(o) ELSE Idle(o)
  /\ Keyed(o)

KeySeen(o) == Plays(o) /\ o.autopaint => o.visible = o.clip /\ o.clip # NoClip

OverlayInOrder ==
  IF overlay = NoPort THEN isOn["overlay"] = "off"
  ELSE /\ Ordered(overlay)
       /\ overlay.claimed \cap others = {}
       /\ isOn["overlay"] = "off" => ~Plays(overlay)
       /\ isOn["overlay"] = "on" => KeySeen(overlay)

Values == Attributes \cup {"default"}
Matrices == [hdtv : BOOLEAN, attributes : Values]
Surfaces == {NoSurface} \cup {Component(image, c) : image \in Images, c \in Components}
Blits == [image : Images, source : Sources, attributes : Values, cm : Matrices,
          planes : [Components -> Surfaces]]
InFlight == [set : Sets, awaited : BOOLEAN]

TexturePorts ==
  [fence : BOOLEAN, attributes : Values, hdtv : BOOLEAN, cm : Matrices,
   current_set : Sets, yuv : [Sets -> [Components -> Surfaces]],
   inflight : Seq(InFlight), last : Blits \cup {NoBlit}]

MatrixCurrent(t) == t.cm = ConversionMatrix(t.hdtv, t.attributes)

Whole(t) == t \in TexturePorts /\ MatrixCurrent(t) /\ ShownWhole(t)

TextureInOrder ==
  \/ texture = NoPort /\ isOn["texture"] = "off"
  \/ Whole(texture)

LayerTypeOK ==
  /\ isOn \in [{"overlay", "texture"} -> {"off", "pending", "on"}]
  /\ others \subseteq Streams
  /\ phase = "closed" =>
       /\ overlay = NoPort /\ texture = NoPort
       /\ \A port \in DOMAIN isOn : isOn[port] = "off"

(* The inductive invariant.                                                *)
IInv == LayerTypeOK /\ OverlayInOrder /\ TextureInOrder

----------------------------------------------------------------------------
(* What a stopped port held is given back.                                 *)
LEMMA CleanupIdle ==
  ASSUME NEW o \in OverlayPorts, IF Plays(o) THEN Backed(o) ELSE Idle(o)
  PROVE  /\ Cleanup(o) \in OverlayPorts
         /\ ~Plays(Cleanup(o)) /\ Idle(Cleanup(o))
<1>1. CASE o.play = "port_init"
  BY <1>1 DEF Cleanup, Plays
<1>2. CASE o.play # "port_init"
  <2>1. Plays(o) /\ Backed(o)
    BY <1>2 DEF OverlayPorts, Plays
  <2> DEFINE given == UnrefStream([o EXCEPT !.play = "port_init"], o.streamId)
  <2>2. /\ given \in OverlayPorts /\ given.play = "port_init"
        /\ given.buf = o.buf /\ given.live = o.live /\ given.mapped = o.mapped
        /\ given.claimed = {}
        /\ \A s \in Streams : given.frames[s] = NoFrame
    BY <2>1 DEF OverlayPorts, UnrefStream, Backed, Frames, NoFrame
  <2>3. Cleanup(o) = BufferFree(given)
    BY <1>2 DEF Cleanup
  <2> HIDE DEF given
  <2>4. given.buf \in Handles
    BY <2>1, <2>2 DEF Backed
  <2> DEFINE freed == BufferFree(given)
  <2>5. freed \in OverlayPorts
    BY <2>2, <2>4 DEF OverlayPorts, BufferFree, DmabufDestroy
  <2>6. /\ freed.play = "port_init" /\ freed.claimed = {}
        /\ freed.frames = given.frames /\ freed.buf = NoHandle
    BY <2>2 DEF OverlayPorts, BufferFree, DmabufDestroy
  <2>7. freed.mapped = {}
    BY <2>1, <2>2 DEF OverlayPorts, BufferFree, DmabufDestroy, Backed
  <2>8. \A h \in Handles : freed.live[h] = 0
    BY <2>1, <2>2, <2>4 DEF OverlayPorts, BufferFree, DmabufDestroy, Backed
  <2> HIDE DEF freed
  <2> QED
    BY <2>2, <2>3, <2>5, <2>6, <2>7, <2>8 DEF Idle, Plays, freed
<1> QED
  BY <1>1, <1>2

LEMMA StopIdle ==
  ASSUME NEW o, Ordered(o)
  PROVE  /\ StopVideo(o, TRUE) \in OverlayPorts
         /\ ~Plays(StopVideo(o, TRUE)) /\ Idle(StopVideo(o, TRUE))
<1> DEFINE hidden == [o EXCEPT !.clip = NoClip]
<1>1. /\ hidden \in OverlayPorts
      /\ IF Plays(hidden) THEN Backed(hidden) ELSE Idle(hidden)
  BY DEF Ordered, OverlayPorts, Plays, Backed, Idle, ClipBoxes
<1>2. StopVideo(o, TRUE) = Cleanup(hidden)
  BY DEF StopVideo
<1> HIDE DEF hidden
<1> QED
  BY <1>1, <1>2, CleanupIdle

(* A stop for a while forgets the clip and nothing else.                   *)
LEMMA PauseOrdered ==
  ASSUME NEW o, Ordered(o)
  PROVE  LET p == [StopVideo(o, FALSE) EXCEPT !.painted = NoClip, !.visible = NoClip]
         IN  Ordered(p) /\ p.claimed = o.claimed
BY DEF Ordered, OverlayPorts, StopVideo, Plays, Backed, Idle, Keyed, ClipBoxes

(* The frame is sent with its key painted and flushed, or the port is      *)
(* stopped.                                                                *)
LEMMA SendFrameOrdered ==
  ASSUME NEW o \in OverlayPorts, Plays(o), Backed(o), Keyed(o),
         NEW image \in Images, o.size = ImageSize(image),
         NEW clip \in Clips, NEW answer
  PROVE  LET r == SendFrame(o, image, clip, answer)
         IN  Ordered(r) /\ KeySeen(r) /\ r.claimed \subseteq o.claimed
<1> DEFINE keyed == Flush(PaintKey(o, clip))
<1>1. clip \in ClipBoxes /\ clip # NoClip
  BY OverlayAssumption DEF ClipBoxes
<1>2. keyed \in OverlayPorts
  BY <1>1 DEF OverlayPorts, Flush, PaintKey, ClipBoxes
<1>3. /\ Plays(keyed) /\ Backed(keyed) /\ keyed.claimed = o.claimed
      /\ keyed.size = o.size /\ keyed.clip = clip
  BY <1>1 DEF OverlayPorts, Flush, PaintKey, Plays, Backed
<1>4. keyed.autopaint => keyed.painted = clip /\ keyed.visible = clip
  BY <1>1 DEF OverlayPorts, Flush, PaintKey, Plays, Keyed
<1> HIDE DEF keyed
<1>5. CASE answer.control
  <2>1. SendFrame(o, image, clip, answer) = ControlStream(keyed, image)
    BY <1>5 DEF SendFrame, keyed
  <2> DEFINE r == ControlStream(keyed, image)
  <2>2. [handle |-> keyed.buf, size |-> ImageSize(image)] \in Frames
    BY <1>2, OverlayAssumption DEF OverlayPorts, Frames
  <2>3. r \in OverlayPorts
    BY <1>2, <1>3, <2>2 DEF OverlayPorts, ControlStream, Backed
  <2>4. Plays(r) /\ Backed(r) /\ r.claimed = o.claimed
    BY <1>2, <1>3 DEF OverlayPorts, ControlStream, Plays, Backed
  <2>5. Keyed(r) /\ KeySeen(r)
    BY <1>1, <1>2, <1>3, <1>4 DEF OverlayPorts, ControlStream, Plays, Keyed, KeySeen
  <2> QED
    BY <2>1, <2>3, <2>4, <2>5 DEF Ordered
<1>6. CASE ~answer.control
  <2>1. SendFrame(o, image, clip, answer) = Cleanup(keyed)
    BY <1>6 DEF SendFrame, keyed
  <2> QED
    BY <1>2, <1>3, <2>1, CleanupIdle DEF Ordered, Keyed, KeySeen, Idle
<1> QED
  BY <1>5, <1>6

(* Whatever the kernel answers to the first frame, the port plays with all *)
(* that it needs or holds nothing, and only a stream that was free.        *)
LEMMA PortInitOrdered ==
  ASSUME NEW o \in OverlayPorts, ~Plays(o), Idle(o),
         NEW image \in Images, NEW clip \in Clips,
         NEW taken, NEW answer \in Answers(taken)
  PROVE  LET r == PortInit(o, image, clip, answer)
         IN  Ordered(r) /\ KeySeen(r) /\ r.claimed \cap taken = {}
<1> DEFINE size == ImageSize(image)
           claimed == [o EXCEPT !.streamId = answer.stream,
                                !.claimed = @ \cup {answer.stream},
                                !.size = size]
           backed == BufferAlloc(claimed, size, answer)
<1>1. size \in Nat /\ size # 0
  BY OverlayAssumption
<1> HIDE DEF size
<1>2. CASE answer.stream = NoStream
  BY <1>2 DEF PortInit, Ordered, Keyed, KeySeen, Idle
<1>3. CASE answer.stream # NoStream
  <2>1. answer.stream \in Streams \ taken
    BY <1>3 DEF Answers
  <2>2. /\ claimed \in OverlayPorts /\ claimed.streamId = answer.stream
        /\ claimed.claimed = {answer.stream} /\ claimed.size = size
        /\ claimed.play = o.play /\ claimed.buf = o.buf /\ claimed.mapped = {}
        /\ claimed.live = o.live /\ claimed.frames = o.frames
    BY <1>1, <2>1 DEF OverlayPorts, Idle
  <2> HIDE DEF claimed
  <2>3. PortInit(o, image, clip, answer) =
          IF backed.buf = NoHandle THEN UnrefStream(backed, answer.stream)
          ELSE SendFrame([backed EXCEPT !.clip = NoClip, !.play = "port_play"],
                         image, clip, answer)
    BY <1>3 DEF PortInit, claimed, size
  <2>4. CASE answer.handle = NoHandle \/ ~answer.map
    <3> DEFINE r == UnrefStream(backed, answer.stream)
    <3>1. /\ backed \in OverlayPorts /\ backed.buf = NoHandle
          /\ backed.claimed = {answer.stream} /\ backed.play = o.play
          /\ backed.mapped = {} /\ backed.frames = o.frames
          /\ \A h \in Handles : backed.live[h] = 0
      BY <2>2, <2>4, <1>1
         DEF OverlayPorts, Answers, BufferAlloc, DmabufAlloc, DmabufDestroy, Idle
    <3>2. PortInit(o, image, clip, answer) = r
      BY <2>3, <3>1
    <3> HIDE DEF backed
    <3>3. r \in OverlayPorts /\ Idle(r) /\ ~Plays(r)
      BY <3>1, <2>1 DEF OverlayPorts, UnrefStream, Idle, Frames, NoFrame, Plays
    <3> QED
      BY <3>2, <3>3 DEF Ordered, Keyed, KeySeen, Idle
  <2>5. CASE answer.handle # NoHandle /\ answer.map
    <3> DEFINE opened == [backed EXCEPT !.clip = NoClip, !.play = "port_play"]
    <3>1. answer.handle \in Handles
      BY <2>5 DEF Answers
    <3>2. /\ backed \in OverlayPorts /\ backed.buf = answer.handle
          /\ backed.claimed = {answer.stream} /\ backed.streamId = answer.stream
          /\ backed.mapped = {answer.handle} /\ backed.frames = o.frames
          /\ backed.size = size
          /\ \A h \in Handles :
               backed.live[h] = IF h = answer.handle THEN size ELSE 0
      BY <2>2, <2>5, <3>1, <1>1
         DEF OverlayPorts, BufferAlloc, DmabufAlloc, DmabufMap, Idle
    <3>3. backed.buf # NoHandle
      BY <3>1, <3>2, OverlayAssumption
    <3> HIDE DEF backed
    <3>4. opened \in OverlayPorts /\ Plays(opened) /\ opened.claimed = {answer.stream}
      BY <3>2 DEF OverlayPorts, Plays, ClipBoxes
    <3>5. Backed(opened) /\ Keyed(opened) /\ opened.size = size
      BY <2>1, <3>1, <3>2, <1>1 DEF OverlayPorts, Backed, Keyed, Idle
    <3>6. PortInit(o, image, clip, answer) = SendFrame(opened, image, clip, answer)
      BY <2>3, <3>3
    <3> HIDE DEF opened
    <3> QED
      BY <2>1, <3>4, <3>5, <3>6, SendFrameOrdered DEF size
  <2> QED
    BY <2>4, <2>5
<1> QED
  BY <1>2, <1>3

(* So does every later frame.                                              *)
LEMMA PutImageOrdered ==
  ASSUME NEW o, Ordered(o), NEW taken, o.claimed \cap taken = {},
         NEW image \in Images, NEW clip \in Clips, NEW answer \in Answers(taken)
  PROVE  LET r == PutImage(o, image, clip, answer)
         IN  Ordered(r) /\ KeySeen(r) /\ r.claimed \cap taken = {}
<1>1. CASE o.play = "port_init"
  BY <1>1, PortInitOrdered DEF PutImage, Ordered, Plays
<1>2. CASE o.play # "port_init" /\ ImageSize(image) = o.size
  BY <1>2, SendFrameOrdered DEF PutImage, PortPlay, Ordered, Plays, OverlayPorts
<1>3. CASE o.play # "port_init" /\ ImageSize(image) # o.size
  BY <1>3, StopIdle, PortInitOrdered DEF PutImage, PortPlay
<1> QED
  BY <1>1, <1>2, <1>3

----------------------------------------------------------------------------
LEMMA HDBoolean == \A source \in Sources : HD(source) \in BOOLEAN
BY DEF HD

(* The same blits, awaited no more.                                        *)
LEMMA AbandonedType ==
  ASSUME NEW q \in Seq(InFlight)
  PROVE  /\ Abandoned(q) \in Seq(InFlight)
         /\ \A k \in DOMAIN Abandoned(q) : Abandoned(q)[k].awaited = FALSE
<1>1. DOMAIN q = 1 .. Len(q) /\ Len(q) \in Nat
  OBVIOUS
<1>2. Abandoned(q) = [k \in 1 .. Len(q) |-> [set |-> q[k].set, awaited |-> FALSE]]
  BY <1>1 DEF Abandoned
<1>3. \A k \in 1 .. Len(q) : [set |-> q[k].set, awaited |-> FALSE] \in InFlight
  <2> SUFFICES ASSUME NEW k \in 1 .. Len(q)
               PROVE  [set |-> q[k].set, awaited |-> FALSE] \in InFlight
    OBVIOUS
  <2>1. q[k] \in InFlight
    BY <1>1
  <2> QED
    BY <2>1 DEF InFlight
<1>4. Abandoned(q) \in [1 .. Len(q) -> InFlight]
  BY <1>2, <1>3
<1>5. Abandoned(q) \in Seq(InFlight)
  BY <1>1, <1>4
<1>6. \A k \in DOMAIN Abandoned(q) : Abandoned(q)[k].awaited = FALSE
  BY <1>2
<1> QED
  BY <1>5, <1>6

LEMMA PortPrivCreateWhole == Whole(PortPrivCreate)
<1>1. << >> \in Seq(InFlight)
  OBVIOUS
<1> QED
  BY <1>1 DEF PortPrivCreate, Whole, TexturePorts, MatrixCurrent, ShownWhole,
              ConversionMatrix, Matrices, Values, Sets, Surfaces

(* The matrix follows an attribute; what was shown keeps those it had.     *)
LEMMA SetPortAttributeWhole ==
  ASSUME NEW t, Whole(t), NEW attributes \in Attributes
  PROVE  Whole(SetPortAttribute(t, attributes))
BY DEF SetPortAttribute, Whole, TexturePorts, MatrixCurrent, ShownWhole,
       ConversionMatrix, Matrices, Values

LEMMA StopTexturedWhole ==
  ASSUME NEW t, Whole(t)
  PROVE  Whole(StopTextured(t))
<1> DEFINE none == [set \in Sets |-> [c \in Components |-> NoSurface]]
           u == [t EXCEPT !.fence = FALSE, !.inflight = << >>, !.yuv = none]
<1>1. << >> \in Seq(InFlight)
  OBVIOUS
<1>2. none \in [Sets -> [Components -> Surfaces]]
  BY DEF Surfaces
<1> HIDE DEF none
<1>3. u \in TexturePorts
  BY <1>1, <1>2 DEF Whole, TexturePorts
<1>4. /\ u.last = t.last /\ u.cm = t.cm /\ u.hdtv = t.hdtv
      /\ u.attributes = t.attributes
  BY DEF Whole, TexturePorts
<1>5. StopTextured(t) = u
  BY DEF StopTextured, none
<1> HIDE DEF u
<1> QED
  BY <1>3, <1>4, <1>5 DEF Whole, MatrixCurrent, ShownWhole

LEMMA FinishWhole ==
  ASSUME NEW t, Whole(t), t.inflight # << >>
  PROVE  Whole(Finish(t))
<1>1. Tail(t.inflight) \in Seq(InFlight)
  BY DEF Whole, TexturePorts
<1> QED
  BY <1>1 DEF Finish, Whole, TexturePorts, MatrixCurrent, ShownWhole

(* Surfaces of the image, all of them unless one fails.                    *)
LEMMA CheckYuvSurfacesWhole ==
  ASSUME NEW t, Whole(t), NEW image \in Images, NEW failing \in Failing
  PROVE  LET made == CheckYuvSurfaces(t, image, failing)
         IN  /\ Whole(made)
             /\ failing \notin Components =>
                  \A c \in Components :
                    made.yuv[made.current_set][c] = Component(image, c)
<1> DEFINE planes == [c \in Components |->
                        IF c < failing THEN Component(image, c)
                                       ELSE t.yuv[t.current_set][c]]
           made == [t EXCEPT !.yuv[t.current_set] = planes]
<1>1. planes \in [Components -> Surfaces]
  BY DEF Whole, TexturePorts, Surfaces
<1>2. failing \notin Components =>
        \A c \in Components : planes[c] = Component(image, c)
  BY DEF Failing, Components
<1>3. CheckYuvSurfaces(t, image, failing) = made
  BY DEF CheckYuvSurfaces, Whole, TexturePorts
<1> HIDE DEF planes
<1>4. Whole(made)
  BY <1>1 DEF Whole, TexturePorts, MatrixCurrent, ShownWhole
<1>5. made.yuv[made.current_set] = planes
  BY <1>1 DEF Whole, TexturePorts
<1> QED
  BY <1>2, <1>3, <1>4, <1>5

(* The matrix is that of the source.                                       *)
LEMMA UpdateHdtvWhole ==
  ASSUME NEW t, Whole(t), NEW source \in Sources
  PROVE  LET u == UpdateHdtv(t, source)
         IN  /\ Whole(u) /\ u.hdtv = HD(source)
             /\ u.yuv = t.yuv /\ u.current_set = t.current_set
             /\ u.fence = t.fence /\ u.inflight = t.inflight
<1>1. HD(source) \in BOOLEAN
  BY HDBoolean
<1>2. CASE HD(source) = t.hdtv
  BY <1>2 DEF UpdateHdtv
<1>3. CASE HD(source) # t.hdtv
  <2> DEFINE hd == HD(source)
             u == [t EXCEPT !.hdtv = hd, !.cm = ConversionMatrix(hd, t.attributes)]
  <2>1. UpdateHdtv(t, source) = u
    BY <1>3 DEF UpdateHdtv
  <2>2. hd \in BOOLEAN
    BY <1>1
  <2> HIDE DEF hd
  <2>3. ConversionMatrix(hd, t.attributes) \in Matrices
    BY <2>2 DEF ConversionMatrix, Matrices, Whole, TexturePorts
  <2>4. u \in TexturePorts
    BY <2>2, <2>3 DEF Whole, TexturePorts
  <2>5. /\ u.hdtv = hd /\ u.cm = ConversionMatrix(hd, t.attributes)
        /\ u.attributes = t.attributes /\ u.last = t.last
        /\ u.yuv = t.yuv /\ u.current_set = t.current_set
        /\ u.fence = t.fence /\ u.inflight = t.inflight
    BY <2>2 DEF Whole, TexturePorts
  <2> HIDE DEF u
  <2>6. MatrixCurrent(u) /\ ShownWhole(u)
    BY <2>5 DEF Whole, MatrixCurrent, ShownWhole
  <2> QED
    BY <2>1, <2>4, <2>5, <2>6 DEF Whole, hd
<1> QED
  BY <1>2, <1>3

(* A blit shows the set that was filled, with the matrix.                  *)
LEMMA BlitWhole ==
  ASSUME NEW t, Whole(t), NEW image \in Images, NEW source \in Sources,
         NEW fails,
         t.hdtv = HD(source),
         \A c \in Components : t.yuv[t.current_set][c] = Component(image, c)
  PROVE  Whole(Blit(t, image, source, fails))
<1>1. CASE "blit" \in fails
  BY <1>1 DEF Blit
<1>2. CASE "blit" \notin fails
  <2> DEFINE fenced == "fence" \notin fails
             entry == [set |-> t.current_set, awaited |-> fenced]
             shown == [image |-> image, source |-> source,
                       attributes |-> t.attributes, cm |-> t.cm,
                       planes |-> t.yuv[t.current_set]]
             u == [t EXCEPT !.inflight = Append(@, entry),
                            !.fence = fenced, !.last = shown]
  <2>1. Blit(t, image, source, fails) = u
    BY <1>2 DEF Blit
  <2>2. fenced \in BOOLEAN
    OBVIOUS
  <2>3. shown \in Blits
    BY DEF Blits, Whole, TexturePorts
  <2>4. /\ shown.image = image /\ shown.source = source /\ shown.attributes = t.attributes
        /\ shown.cm = t.cm /\ shown.planes = t.yuv[t.current_set]
    OBVIOUS
  <2>5. Append(t.inflight, entry) \in Seq(InFlight)
    <3>1. entry \in InFlight /\ t.inflight \in Seq(InFlight)
      BY <2>2 DEF Whole, TexturePorts, InFlight
    <3> HIDE DEF entry
    <3> QED
      BY <3>1
  <2> HIDE DEF fenced, shown, entry
  <2>6. u \in TexturePorts
    BY <2>2, <2>3, <2>5 DEF Whole, TexturePorts
  <2>7. u.hdtv = t.hdtv /\ u.cm = t.cm /\ u.attributes = t.attributes /\ u.last = shown
    BY DEF Whole, TexturePorts
  <2> HIDE DEF u
  <2>8. MatrixCurrent(u)
    BY <2>7 DEF Whole, MatrixCurrent
  <2>9. t.cm = ConversionMatrix(HD(source), t.attributes)
    BY DEF Whole, MatrixCurrent
  <2>10. ShownWhole(u)
    BY <2>4, <2>7, <2>9 DEF ShownWhole
  <2> QED
    BY <2>1, <2>6, <2>8, <2>10 DEF Whole
<1> QED
  BY <1>1, <1>2

LEMMA NextSetWhole ==
  ASSUME NEW t, Whole(t)
  PROVE  Whole(NextSet(t))
<1>1. (t.current_set + 1) % 2 \in Sets
  BY DEF Whole, TexturePorts, Sets
<1> QED
  BY <1>1 DEF NextSet, Whole, TexturePorts, MatrixCurrent, ShownWhole

(* Neither the fence nor what is in flight is part of what is shown.       *)
LEMMA InflightWhole ==
  ASSUME NEW t, Whole(t), NEW fence \in BOOLEAN, NEW q \in Seq(InFlight)
  PROVE  LET u == [t EXCEPT !.fence = fence, !.inflight = q]
         IN  /\ Whole(u) /\ u.hdtv = t.hdtv /\ (u.fence <=> fence) /\ u.inflight = q
             /\ u.yuv = t.yuv /\ u.current_set = t.current_set
BY DEF Whole, TexturePorts, MatrixCurrent, ShownWhole

(* After it, no blit in flight is awaited, if the rest had no fence.       *)
LEMMA ThrottleWhole ==
  ASSUME NEW t, Whole(t), NEW fails
  PROVE  LET u == Throttle(t, fails)
         IN  /\ Whole(u) /\ u.hdtv = t.hdtv
             /\ u.yuv = t.yuv /\ u.current_set = t.current_set
             /\ \/ u.inflight = t.inflight /\ ~t.fence
                \/ \A k \in DOMAIN u.inflight : u.inflight[k].awaited = FALSE
<1> DEFINE q == CASE ~t.fence -> t.inflight
                  [] t.fence /\ "timeout" \in fails -> Abandoned(t.inflight)
                  [] t.fence /\ "timeout" \notin fails -> << >>
           u == [t EXCEPT !.fence = FALSE, !.inflight = q]
<1>1. t.inflight \in Seq(InFlight) /\ t.fence \in BOOLEAN /\ << >> \in Seq(InFlight)
  BY DEF Whole, TexturePorts
<1>2. \/ q = t.inflight /\ ~t.fence
      \/ q \in Seq(InFlight) /\ \A k \in DOMAIN q : q[k].awaited = FALSE
  <2>1. CASE ~t.fence
    BY <2>1
  <2>2. CASE t.fence /\ "timeout" \in fails
    BY <1>1, <2>2, AbandonedType
  <2>3. CASE t.fence /\ "timeout" \notin fails
    BY <1>1, <2>3
  <2> QED
    BY <1>1, <2>1, <2>2, <2>3
<1>3. Throttle(t, fails) = u
  BY DEF Throttle, Whole, TexturePorts
<1> HIDE DEF q
<1>4. q \in Seq(InFlight)
  BY <1>1, <1>2
<1>5. /\ Whole(u) /\ u.hdtv = t.hdtv /\ u.inflight = q
      /\ u.yuv = t.yuv /\ u.current_set = t.current_set
  BY <1>4, InflightWhole
<1> QED
  BY <1>2, <1>3, <1>5

(* A frame is whole whichever of the calls fail.                           *)
LEMMA PutTexturedWhole ==
  ASSUME NEW t, Whole(t), NEW image \in Images, NEW source \in Sources,
         NEW failing \in Failing, NEW fails
  PROVE  Whole(PutTextured(t, image, source, failing, fails))
<1> DEFINE made == CheckYuvSurfaces(t, image, failing)
           updated == UpdateHdtv(made, source)
           waited == Throttle(updated, fails)
<1>1. Whole(made)
  BY CheckYuvSurfacesWhole
<1>2. CASE failing \in Components \/ "map" \in fails
  BY <1>1, <1>2 DEF PutTextured
<1>3. CASE failing \notin Components /\ "map" \notin fails
  <2>1. \A c \in Components : made.yuv[made.current_set][c] = Component(image, c)
    BY <1>3, CheckYuvSurfacesWhole
  <2>2. PutTextured(t, image, source, failing, fails) = NextSet(DisplayVideo(made, image, source, fails))
    BY <1>3 DEF PutTextured
  <2> HIDE DEF made
  <2>3. /\ Whole(updated) /\ updated.hdtv = HD(source)
        /\ updated.yuv = made.yuv /\ updated.current_set = made.current_set
    BY <1>1, UpdateHdtvWhole
  <2> HIDE DEF updated
  <2>4. /\ Whole(waited) /\ waited.hdtv = HD(source)
        /\ waited.yuv = made.yuv /\ waited.current_set = made.current_set
    BY <2>3, ThrottleWhole
  <2> HIDE DEF waited
  <2>5. Whole(Blit(waited, image, source, fails))
    BY <2>1, <2>4, BlitWhole
  <2>6. Whole([made EXCEPT !.inflight = Abandoned(@)])
    <3>1. Abandoned(made.inflight) \in Seq(InFlight)
      BY <1>1, AbandonedType DEF Whole, TexturePorts
    <3> QED
      BY <1>1, <3>1 DEF Whole, TexturePorts, MatrixCurrent, ShownWhole
  <2>7. Whole(DisplayVideo(made, image, source, fails))
    BY <2>5, <2>6 DEF DisplayVideo, updated, waited
  <2> QED
    BY <2>2, <2>7, NextSetWhole
<1> QED
  BY <1>2, <1>3

----------------------------------------------------------------------------
LEMMA PortCreateOrdered ==
  Ordered(PortCreate) /\ ~Plays(PortCreate) /\ PortCreate.claimed = {}
BY OverlayAssumption
   DEF PortCreate, Ordered, OverlayPorts, Frames, NoFrame, ClipBoxes, Plays, Idle, Keyed

LEMMA InitIInv == Init => IInv
BY DEF Init, IInv, LayerTypeOK, OverlayInOrder, TextureInOrder

LEMMA XvInitIInv == IInv /\ XvInit => IInv'
<1> SUFFICES ASSUME IInv, XvInit PROVE IInv'
  OBVIOUS
<1>1. \A port \in DOMAIN isOn : isOn[port] = "off"
  BY DEF IInv, LayerTypeOK, XvInit
<1>2. isOn["overlay"] = "off" /\ isOn["texture"] = "off" /\ isOn' = isOn
  BY <1>1 DEF IInv, LayerTypeOK, XvInit
<1>3. PICK host \in Hosts : /\ texture' = TexturedAdaptor(host)
                            /\ overlay' = OverlayAdaptor(host)
  BY DEF XvInit
<1>4. TextureInOrder'
  BY <1>2, <1>3, PortPrivCreateWhole DEF TextureInOrder, TexturedAdaptor
<1>5. OverlayInOrder'
  BY <1>2, <1>3, PortCreateOrdered, PortAssumption
     DEF OverlayInOrder, OverlayAdaptor, XvInit, KeySeen, Ordered
<1>6. LayerTypeOK'
  BY <1>1 DEF IInv, LayerTypeOK, XvInit
<1> QED
  BY <1>4, <1>5, <1>6 DEF IInv

LEMMA PutOverlayIInv ==
  \A image \in Images, clip \in Clips : IInv /\ PutOverlay(image, clip) => IInv'
<1> SUFFICES ASSUME NEW image \in Images, NEW clip \in Clips,
                    IInv, PutOverlay(image, clip)
             PROVE  IInv'
  OBVIOUS
<1>1. Ordered(overlay) /\ overlay.claimed \cap others = {}
  BY DEF IInv, OverlayInOrder, PutOverlay
<1>2. PICK answer \in Answers(others) :
        overlay' = PutImage(overlay, image, clip, answer)
  BY DEF PutOverlay
<1>3. /\ Ordered(overlay') /\ KeySeen(overlay')
      /\ overlay'.claimed \cap others = {}
  BY <1>1, <1>2, PutImageOrdered
<1>4. overlay' # NoPort
  BY <1>3, PortAssumption DEF Ordered
<1>5. /\ isOn'["texture"] = isOn["texture"]
      /\ isOn'["overlay"] = IF Plays(overlay') THEN "on" ELSE isOn["overlay"]
      /\ isOn' \in [{"overlay", "texture"} -> {"off", "pending", "on"}]
  BY DEF IInv, LayerTypeOK, PutOverlay
<1>6. isOn["overlay"] = "off" => ~Plays(overlay)
  BY DEF IInv, OverlayInOrder, PutOverlay
<1>7. OverlayInOrder'
  BY <1>3, <1>4, <1>5, <1>6 DEF OverlayInOrder, PutOverlay
<1>8. TextureInOrder'
  BY <1>5 DEF IInv, TextureInOrder, PutOverlay
<1>9. LayerTypeOK'
  BY <1>5 DEF IInv, LayerTypeOK, PutOverlay
<1> QED
  BY <1>7, <1>8, <1>9 DEF IInv

LEMMA PutTextureIInv ==
  \A image \in Images, source \in Sources : IInv /\ PutTexture(image, source) => IInv'
<1> SUFFICES ASSUME NEW image \in Images, NEW source \in Sources,
                    IInv, PutTexture(image, source)
             PROVE  IInv'
  OBVIOUS
<1>1. Whole(texture)
  BY DEF IInv, TextureInOrder, PutTexture
<1>2. PICK failing \in Failing, fails \in SUBSET (Faults \ {"create"}) :
        texture' = PutTextured(texture, image, source, failing, fails)
  BY DEF PutTexture, Failing
<1>3. Whole(texture')
  BY <1>1, <1>2, PutTexturedWhole
<1>4. /\ isOn'["overlay"] = isOn["overlay"]
      /\ isOn' \in [{"overlay", "texture"} -> {"off", "pending", "on"}]
  BY DEF IInv, LayerTypeOK, PutTexture
<1>5. LayerTypeOK'
  BY <1>4 DEF IInv, LayerTypeOK, PutTexture
<1>6. OverlayInOrder'
  BY <1>4 DEF IInv, OverlayInOrder, PutTexture
<1> QED
  BY <1>3, <1>5, <1>6 DEF IInv, TextureInOrder

LEMMA FinishBlitIInv == IInv /\ FinishBlit => IInv'
BY FinishWhole DEF IInv, FinishBlit, TextureInOrder, OverlayInOrder, LayerTypeOK

LEMMA ExposeIInv == IInv /\ Expose => IInv'
<1> SUFFICES ASSUME IInv, Expose PROVE IInv'
  OBVIOUS
<1>1. Ordered(overlay) /\ overlay.claimed \cap others = {}
  BY DEF IInv, OverlayInOrder, Expose
<1>2. Ordered(overlay') /\ overlay'.claimed = overlay.claimed
  BY <1>1, PauseOrdered DEF Expose
<1>3. overlay' # NoPort
  BY <1>2, PortAssumption DEF Ordered
<1> QED
  BY <1>1, <1>2, <1>3
     DEF IInv, Expose, OverlayInOrder, TextureInOrder, LayerTypeOK

LEMMA StopPortIInv == \A port \in DOMAIN isOn : IInv /\ StopPort(port) => IInv'
<1> SUFFICES ASSUME NEW port \in DOMAIN isOn, IInv, StopPort(port) PROVE IInv'
  OBVIOUS
<1>1. LayerTypeOK' /\ others' = others /\ isOn'[port] = "off"
  BY DEF IInv, LayerTypeOK, StopPort
<1>2. CASE port = "overlay"
  <2>1. Ordered(overlay)
    BY <1>2 DEF IInv, OverlayInOrder, StopPort
  <2>2. overlay' = StopVideo(overlay, TRUE)
    BY <1>2 DEF StopPort, Stopped
  <2>3. overlay' \in OverlayPorts /\ ~Plays(overlay') /\ Idle(overlay')
    BY <2>1, <2>2, StopIdle
  <2>4. OverlayInOrder'
    BY <1>1, <1>2, <2>3, PortAssumption DEF OverlayInOrder, Ordered, Keyed, Idle
  <2>5. TextureInOrder'
    BY <1>2 DEF IInv, TextureInOrder, LayerTypeOK, StopPort, Stopped
  <2> QED
    BY <1>1, <2>4, <2>5 DEF IInv
<1>3. CASE port = "texture"
  <2>1. Whole(texture)
    BY <1>3 DEF IInv, TextureInOrder, StopPort
  <2>2. texture' = StopTextured(texture) /\ overlay' = overlay
    BY <1>3 DEF StopPort, Stopped
  <2>3. OverlayInOrder'
    BY <1>3, <2>2 DEF IInv, OverlayInOrder, LayerTypeOK, StopPort
  <2> QED
    BY <1>1, <2>1, <2>2, <2>3, StopTexturedWhole DEF IInv, TextureInOrder
<1> QED
  BY <1>2, <1>3 DEF IInv, LayerTypeOK

LEMMA SetOverlayAttributeIInv ==
  \A value \in BOOLEAN : IInv /\ SetOverlayAttribute(value) => IInv'
<1> SUFFICES ASSUME NEW value \in BOOLEAN, IInv, SetOverlayAttribute(value)
             PROVE  IInv'
  OBVIOUS
<1>1. Ordered(overlay) /\ ~Plays(overlay) /\ overlay.claimed \cap others = {}
  BY DEF IInv, OverlayInOrder, SetOverlayAttribute
<1>2. /\ overlay' \in OverlayPorts /\ ~Plays(overlay') /\ Idle(overlay')
      /\ overlay'.claimed = overlay.claimed
  BY <1>1 DEF Ordered, OverlayPorts, Plays, Idle, SetAutopaint, SetOverlayAttribute
<1>3. OverlayInOrder'
  BY <1>1, <1>2, PortAssumption
     DEF OverlayInOrder, Ordered, Keyed, KeySeen, SetOverlayAttribute
<1> QED
  BY <1>1, <1>3 DEF IInv, TextureInOrder, LayerTypeOK, SetOverlayAttribute

LEMMA SetTextureAttributeIInv ==
  \A attributes \in Attributes : IInv /\ SetTextureAttribute(attributes) => IInv'
BY SetPortAttributeWhole
   DEF IInv, SetTextureAttribute, TextureInOrder, OverlayInOrder, LayerTypeOK

LEMMA OtherClaimsIInv == \A s \in Streams : IInv /\ OtherClaims(s) => IInv'
BY DEF IInv, OtherClaims, TextureInOrder, OverlayInOrder, LayerTypeOK

LEMMA OtherGivesBackIInv == \A s \in Streams : IInv /\ OtherGivesBack(s) => IInv'
BY DEF IInv, OtherGivesBack, TextureInOrder, OverlayInOrder, LayerTypeOK

LEMMA SwitchIInv == IInv /\ (LeaveVT \/ EnterVT) => IInv'
BY DEF IInv, LeaveVT, EnterVT, TextureInOrder, OverlayInOrder, LayerTypeOK

LEMMA CloseScreenIInv == IInv /\ CloseScreen => IInv'
BY DEF IInv, CloseScreen, TextureInOrder, OverlayInOrder, LayerTypeOK

LEMMA NextIInv == IInv /\ [Next]_vars => IInv'
<1> SUFFICES ASSUME IInv, [Next]_vars PROVE IInv'
  OBVIOUS
<1>1. CASE UNCHANGED vars
  BY <1>1 DEF IInv, vars, TextureInOrder, OverlayInOrder, LayerTypeOK
<1>2. CASE Next
  BY <1>2, XvInitIInv, PutOverlayIInv, PutTextureIInv, FinishBlitIInv, ExposeIInv,
     StopPortIInv, SetOverlayAttributeIInv, SetTextureAttributeIInv,
     OtherClaimsIInv, OtherGivesBackIInv, SwitchIInv, CloseScreenIInv
     DEF Next
<1> QED
  BY <1>1, <1>2

(* In every reachable state the overlay port holds all that it shows a     *)
(* frame with or nothing, its key is where the frame is, and the textured  *)
(* port has shown nothing of mixed surfaces.                               *)
THEOREM XvInOrder == Spec => []IInv
BY InitIInv, NextIInv, PTL DEF Spec

(* What the device reads for the overlay is held, large enough, mapped and *)
(* no other client's, and nothing is left behind by a failure.             *)
THEOREM XvOverlayHeld == Spec => []OverlayHeld
<1>1. IInv => OverlayHeld
  <2> SUFFICES ASSUME IInv, overlay # NoPort PROVE OverlayHeld
    BY DEF OverlayHeld
  <2>1. Ordered(overlay) /\ overlay.claimed \cap others = {}
    BY DEF IInv, OverlayInOrder
  <2>2. CASE Plays(overlay)
    <3>1. Backed(overlay) /\ overlay \in OverlayPorts
      BY <2>1, <2>2 DEF Ordered
    <3>2. {h \in Handles : overlay.live[h] # 0} = {overlay.buf}
      BY <3>1 DEF Backed
    <3>3. \A s \in Streams : overlay.frames[s] # NoFrame =>
            /\ s = overlay.streamId
            /\ overlay.frames[s].handle = overlay.buf
            /\ overlay.frames[s].size <= overlay.live[overlay.buf]
      BY <3>1 DEF Backed, OverlayPorts
    <3> QED
      BY <2>1, <2>2, <3>1, <3>2, <3>3 DEF OverlayHeld, Held, Backed
  <2>3. CASE ~Plays(overlay)
    <3>1. Idle(overlay)
      BY <2>1, <2>3 DEF Ordered
    <3>2. {h \in Handles : overlay.live[h] # 0} = {}
      BY <3>1 DEF Idle
    <3> QED
      BY <2>1, <2>3, <3>1, <3>2 DEF OverlayHeld, Held, Idle
  <2> QED
    BY <2>2, <2>3
<1> QED
  BY <1>1, XvInOrder, PTL

(* Where the port paints the key, no frame is shown that the key does not  *)
(* let through.                                                            *)
THEOREM XvKeyShown == Spec => []KeyShown
<1>1. IInv => KeyShown
  BY DEF IInv, OverlayInOrder, Ordered, Idle, KeySeen, KeyShown
<1> QED
  BY <1>1, XvInOrder, PTL

(* Every frame shown is of one image, with the matrix of its size and of   *)
(* the attributes it was shown with, whichever of the calls fail.          *)
THEOREM XvFrameWhole == Spec => []FrameWhole
<1>1. IInv => FrameWhole
  BY DEF IInv, TextureInOrder, Whole, FrameWhole
<1> QED
  BY <1>1, XvInOrder, PTL

----------------------------------------------------------------------------
(* A blit that the port means to wait for has a fence, or one after it     *)
(* has, and reads the other set.                                           *)
Apart(t) ==
  \A k \in DOMAIN t.inflight :
    t.inflight[k].awaited => t.fence /\ t.inflight[k].set = 1 - t.current_set

BlitsApart == texture # NoPort => Apart(texture)

(* None is awaited.                                                        *)
Unawaited(q) == \A k \in DOMAIN q : q[k].awaited = FALSE

(* A blit reads the set whose turn it is, and it is the other's turn then. *)
LEMMA BlitApart ==
  ASSUME NEW t, Whole(t), Unawaited(t.inflight), NEW image, NEW source, NEW fails
  PROVE  Apart(NextSet(Blit(t, image, source, fails)))
<1> DEFINE u == Blit(t, image, source, fails)
           fenced == "fence" \notin fails
           entry == [set |-> t.current_set, awaited |-> fenced]
<1>1. t.current_set \in Sets /\ t.inflight \in Seq(InFlight)
  BY DEF Whole, TexturePorts
<1>2. CASE "blit" \in fails
  <2>1. NextSet(t).inflight = t.inflight
    BY DEF NextSet, Whole, TexturePorts
  <2> QED
    BY <1>2, <2>1 DEF Blit, Apart, Unawaited
<1>3. CASE "blit" \notin fails
  <2>1. /\ u.inflight = Append(t.inflight, entry) /\ u.fence = fenced
        /\ u.current_set = t.current_set
    BY <1>3 DEF Blit, Whole, TexturePorts
  <2>2. /\ NextSet(u).inflight = u.inflight /\ NextSet(u).fence = u.fence
        /\ NextSet(u).current_set = (u.current_set + 1) % 2
    BY <1>3 DEF NextSet, Blit, Whole, TexturePorts
  <2>3. t.current_set = 1 - ((t.current_set + 1) % 2)
    BY <1>1 DEF Sets
  <2>4. entry.set = t.current_set /\ entry.awaited = fenced
    OBVIOUS
  <2> HIDE DEF u, entry, fenced
  <2>5. ASSUME NEW k \in DOMAIN Append(t.inflight, entry),
               Append(t.inflight, entry)[k].awaited
        PROVE  fenced /\ Append(t.inflight, entry)[k].set = t.current_set
    <3>1. CASE k \in DOMAIN t.inflight
      <4>1. Append(t.inflight, entry)[k] = t.inflight[k]
        BY <1>1, <3>1
      <4> QED
        BY <2>5, <3>1, <4>1 DEF Unawaited
    <3>2. CASE k \notin DOMAIN t.inflight
      <4>1. Append(t.inflight, entry)[k] = entry
        BY <1>1, <2>5, <3>2
      <4> QED
        BY <2>4, <2>5, <4>1
    <3> QED
      BY <3>1, <3>2
  <2>6. Apart(NextSet(u))
    BY <2>1, <2>2, <2>3, <2>5 DEF Apart
  <2> QED
    BY <2>6 DEF u
<1> QED
  BY <1>2, <1>3

(* The frame that follows waits, or gives the wait up.                     *)
LEMMA PutTexturedApart ==
  ASSUME NEW t, Whole(t), Apart(t), NEW image \in Images, NEW source \in Sources,
         NEW failing \in Failing, NEW fails
  PROVE  Apart(PutTextured(t, image, source, failing, fails))
<1> DEFINE made == CheckYuvSurfaces(t, image, failing)
           updated == UpdateHdtv(made, source)
           waited == Throttle(updated, fails)
           left == [made EXCEPT !.inflight = Abandoned(@)]
<1>1. Whole(made)
  BY CheckYuvSurfacesWhole
<1>2. /\ (made.fence <=> t.fence) /\ made.inflight = t.inflight
      /\ made.current_set = t.current_set
  BY DEF CheckYuvSurfaces, Whole, TexturePorts
<1>3. CASE failing \in Components \/ "map" \in fails
  BY <1>2, <1>3 DEF PutTextured, Apart
<1>4. CASE failing \notin Components /\ "map" \notin fails
  <2>1. PutTextured(t, image, source, failing, fails)
          = NextSet(IF "validate" \in fails THEN left
                    ELSE Blit(waited, image, source, fails))
    BY <1>4 DEF PutTextured, DisplayVideo
  <2> HIDE DEF made
  <2>2. Apart(NextSet(left))
    <3>1. Unawaited(Abandoned(made.inflight))
      BY <1>1, AbandonedType DEF Whole, TexturePorts, Unawaited
    <3>2. NextSet(left).inflight = Abandoned(made.inflight)
      BY <1>1 DEF NextSet, Whole, TexturePorts
    <3> QED
      BY <3>1, <3>2 DEF Apart, Unawaited
  <2>3. /\ Whole(updated)
        /\ updated.fence = made.fence /\ updated.inflight = made.inflight
    BY <1>1, UpdateHdtvWhole
  <2> HIDE DEF updated
  <2>4. /\ Whole(waited)
        /\ \/ waited.inflight = updated.inflight /\ ~updated.fence
           \/ Unawaited(waited.inflight)
    BY <2>3, ThrottleWhole DEF Unawaited
  <2> HIDE DEF waited
  <2>5. Unawaited(waited.inflight)
    <3>1. waited.inflight \in Seq(InFlight)
      BY <2>4 DEF Whole, TexturePorts
    <3>2. CASE waited.inflight = updated.inflight /\ ~updated.fence
      <4>1. ~t.fence /\ waited.inflight = t.inflight
        BY <1>2, <2>3, <3>2
      <4>2. \A k \in DOMAIN waited.inflight : waited.inflight[k] \in InFlight
        BY <3>1
      <4> QED
        BY <4>1, <4>2 DEF Apart, Unawaited, InFlight
    <3> QED
      BY <2>4, <3>2
  <2>6. Apart(NextSet(Blit(waited, image, source, fails)))
    BY <2>4, <2>5, BlitApart
  <2> QED
    BY <2>1, <2>2, <2>6
<1> QED
  BY <1>3, <1>4

(* The oldest blit goes; the others stay as they are.                      *)
LEMMA FinishApart ==
  ASSUME NEW t, Whole(t), Apart(t), t.inflight # << >>
  PROVE  Apart(Finish(t))
<1>1. t.inflight \in Seq(InFlight)
  BY DEF Whole, TexturePorts
<1>2. /\ Finish(t).inflight = Tail(t.inflight) /\ Finish(t).fence = t.fence
      /\ Finish(t).current_set = t.current_set
  BY DEF Finish, Whole, TexturePorts
<1>3. \A k \in DOMAIN Tail(t.inflight) :
        k + 1 \in DOMAIN t.inflight /\ Tail(t.inflight)[k] = t.inflight[k + 1]
  BY <1>1
<1> QED
  BY <1>2, <1>3 DEF Apart

(* Whichever calls fail, a frame is copied into surfaces that a blit still *)
(* reads only where that blit got no fence, the wait for it was given up   *)
(* after its second, or a frame that could not be shown passed its turn    *)
(* on (xa_fence_get, xa_fence_wait, vmwgfx_hw_accel_validate).             *)
THEOREM XvCopiesApart == Spec => []CopiesApart
<1>1. Init => BlitsApart
  BY DEF Init, BlitsApart
<1>2. IInv /\ BlitsApart /\ [Next]_vars => BlitsApart'
  <2> SUFFICES ASSUME IInv, BlitsApart, [Next]_vars PROVE BlitsApart'
    OBVIOUS
  <2>1. CASE XvInit
    <3>1. texture' = NoPort \/ texture' = PortPrivCreate
      BY <2>1 DEF XvInit, TexturedAdaptor
    <3>2. PortPrivCreate.inflight = << >>
      BY DEF PortPrivCreate
    <3> QED
      BY <3>1, <3>2 DEF BlitsApart, Apart
  <2>2. ASSUME NEW image \in Images, NEW source \in Sources, PutTexture(image, source)
        PROVE  BlitsApart'
    <3>1. Whole(texture) /\ Apart(texture)
      BY <2>2 DEF IInv, TextureInOrder, BlitsApart, PutTexture
    <3>2. PICK failing \in Failing, fails \in SUBSET (Faults \ {"create"}) :
            texture' = PutTextured(texture, image, source, failing, fails)
      BY <2>2 DEF PutTexture, Failing
    <3> QED
      BY <3>1, <3>2, PutTexturedApart DEF BlitsApart
  <2>3. CASE FinishBlit
    BY <2>3, FinishApart DEF FinishBlit, IInv, TextureInOrder, BlitsApart
  <2>4. ASSUME NEW port \in DOMAIN isOn, StopPort(port) PROVE BlitsApart'
    <3>1. CASE port = "overlay"
      BY <2>4, <3>1 DEF StopPort, Stopped, BlitsApart
    <3>2. CASE port = "texture"
      <4>1. Whole(texture) /\ texture' = StopTextured(texture)
        BY <2>4, <3>2 DEF IInv, TextureInOrder, StopPort, Stopped
      <4>2. StopTextured(texture).inflight = << >>
        BY <4>1 DEF StopTextured, Whole, TexturePorts
      <4> QED
        BY <4>1, <4>2 DEF BlitsApart, Apart
    <3> QED
      BY <3>1, <3>2 DEF IInv, LayerTypeOK
  <2>5. ASSUME NEW attributes \in Attributes, SetTextureAttribute(attributes)
        PROVE  BlitsApart'
    BY <2>5 DEF SetTextureAttribute, SetPortAttribute, IInv, TextureInOrder,
                BlitsApart, Apart, Whole, TexturePorts
  <2>6. CASE CloseScreen
    BY <2>6 DEF CloseScreen, BlitsApart
  <2>7. CASE UNCHANGED texture
    BY <2>7 DEF BlitsApart
  <2> QED
    BY <2>1, <2>2, <2>3, <2>4, <2>5, <2>6, <2>7
       DEF Next, vars, PutOverlay, Expose, SetOverlayAttribute, OtherClaims,
           OtherGivesBack, LeaveVT, EnterVT
<1>3. IInv /\ BlitsApart => CopiesApart
  <2> SUFFICES ASSUME IInv, BlitsApart, texture # NoPort PROVE SetIdle(texture)
    BY DEF CopiesApart
  <2>1. Apart(texture) /\ texture.current_set \in Sets
    BY DEF IInv, TextureInOrder, BlitsApart, Whole, TexturePorts
  <2>2. 1 - texture.current_set # texture.current_set
    BY <2>1 DEF Sets
  <2> QED
    BY <2>1, <2>2 DEF Apart, SetIdle
<1> QED
  BY <1>1, <1>2, <1>3, XvInOrder, PTL DEF Spec

=============================================================================
