--------------------------- MODULE VmwgfxOverlay ---------------------------
(***************************************************************************)
(* The Xv overlay of the vmwgfx driver (vmwgfx_overlay.c), with the calls  *)
(* it makes to the kernel for streams and buffers (vmwgfx_drmi.c).  A port *)
(* claims one of the few streams of the device and gives it a buffer to    *)
(* read; every one of these calls may fail half-way.                       *)
(*                                                                         *)
(* The port, the part of the kernel's state that is its own and the colour *)
(* key are one record.  An operator takes it and returns what the function *)
(* of that name leaves; VmwgfxXv has the state.                            *)
(***************************************************************************)
EXTENDS XvImages, FiniteSets

CONSTANTS
  Streams,      (* the overlay streams of the device                       *)
  Handles,      (* the handles that the kernel gives to buffers            *)
  Images,       (* the images that clients put                             *)
  Clips,        (* the regions a window may be clipped to                  *)
  NoClip,       (* the empty region                                        *)
  NoStream,     (* what a claim that fails returns                         *)
  NoHandle      (* NULL for a buffer                                       *)

ASSUME OverlayAssumption ==
  /\ NoStream \notin Streams /\ NoHandle \notin Handles /\ NoClip \notin Clips
  /\ \A image \in Images : ImageSize(image) \in Nat \ {0}

NoFrame == [handle |-> NoHandle, size |-> 0]

ClipBoxes == Clips \cup {NoClip}
Frames == [handle : Handles \cup {NoHandle}, size : Nat]

(* The states of a port.                                                   *)
OverlayPorts ==
  [play : {"port_init", "port_play"}, streamId : Streams \cup {NoStream},
   size : Nat, buf : Handles \cup {NoHandle}, clip : ClipBoxes, autopaint : BOOLEAN,
   claimed : SUBSET Streams, frames : [Streams -> Frames],
   live : [Handles -> Nat], mapped : SUBSET Handles,
   painted : ClipBoxes, visible : ClipBoxes]

(* A new port.  claimed, frames and live are the kernel's: the streams of  *)
(* this driver, the frame each shows, and the bytes of each buffer;        *)
(* mapped is the driver's address of it.  painted and visible are where    *)
(* the colour key was drawn, and where it is on the screen.                *)
PortCreate ==
  [play |-> "port_init", streamId |-> NoStream, size |-> 0, buf |-> NoHandle,
   clip |-> NoClip, autopaint |-> TRUE,
   claimed |-> {}, frames |-> [s \in Streams |-> NoFrame],
   live |-> [h \in Handles |-> 0], mapped |-> {},
   painted |-> NoClip, visible |-> NoClip]

(* What the calls of one request answer: the stream or NoStream, the       *)
(* buffer or NoHandle, whether it can be mapped, whether the kernel takes  *)
(* the frame.  What the port held is given back before anything is taken.  *)
Answers(others) ==
  [stream : (Streams \ others) \cup {NoStream}, handle : Handles \cup {NoHandle},
   map : BOOLEAN, control : BOOLEAN]

----------------------------------------------------------------------------
(* The kernel turns a stream off when it is given back.                    *)
UnrefStream(o, s) ==
  [o EXCEPT !.claimed = @ \ {s}, !.frames[s] = NoFrame]

DmabufAlloc(o, h, size) == [o EXCEPT !.live[h] = size]

DmabufMap(o, h) == [o EXCEPT !.mapped = @ \cup {h}]

DmabufDestroy(o, h) ==
  [o EXCEPT !.live[h] = 0, !.mapped = @ \ {h}]

(* vmw_video_buffer_free, of the port's one buffer.                        *)
BufferFree(o) == [DmabufDestroy(o, o.buf) EXCEPT !.buf = NoHandle]

Cleanup(o) ==
  IF o.play = "port_init" THEN o
  ELSE BufferFree(UnrefStream([o EXCEPT !.play = "port_init"], o.streamId))

StopVideo(o, cleanup) ==
  LET hidden == [o EXCEPT !.clip = NoClip]
  IN  IF cleanup THEN Cleanup(hidden) ELSE hidden

(* The key is painted over another clip than the last frame's.             *)
PaintKey(o, clip) ==
  IF o.clip = clip THEN o
  ELSE [o EXCEPT !.clip = clip, !.painted = IF o.autopaint THEN clip ELSE @]

(* xorg_flush: what was drawn, the key too, is on the screen.              *)
Flush(o) == [o EXCEPT !.visible = o.painted]

(* DRM_VMW_CONTROL_STREAM, from when on the device reads the buffer.       *)
ControlStream(o, image) ==
  [o EXCEPT !.frames[o.streamId] = [handle |-> o.buf, size |-> ImageSize(image)]]

(* Mutant: the key is on the screen only after the frame.                  *)
SendFrameUnflushed(o, image, clip, answer) ==
  LET keyed == PaintKey(o, clip)
  IN  IF answer.control THEN ControlStream(keyed, image) ELSE Cleanup(keyed)

(* The rest of vmw_video_port_play, for a frame of the port's size.        *)
SendFrame(o, image, clip, answer) ==
  LET keyed == Flush(PaintKey(o, clip))
  IN  IF answer.control THEN ControlStream(keyed, image) ELSE Cleanup(keyed)

(* vmw_video_buffer_alloc: a buffer that cannot be mapped is destroyed.    *)
BufferAlloc(o, size, answer) ==
  IF answer.handle = NoHandle THEN o
  ELSE LET allocated == DmabufAlloc(o, answer.handle, size)
       IN  IF answer.map
           THEN [DmabufMap(allocated, answer.handle) EXCEPT !.buf = answer.handle]
           ELSE DmabufDestroy(allocated, answer.handle)

(* Mutant: a stream without a buffer is kept.                              *)
PortInitKeepsStream(o, image, clip, answer) ==
  LET claimed == [o EXCEPT !.streamId = answer.stream,
                           !.claimed = @ \cup {answer.stream},
                           !.size = ImageSize(image)]
      backed == BufferAlloc(claimed, ImageSize(image), answer)
  IN  IF answer.stream = NoStream THEN o
      ELSE IF backed.buf = NoHandle THEN backed
      ELSE SendFrame([backed EXCEPT !.clip = NoClip, !.play = "port_play"],
                     image, clip, answer)

(* The first frame: a stream is claimed, a buffer made and mapped, and the *)
(* frame is sent.  Without a buffer the stream is given back.              *)
PortInit(o, image, clip, answer) ==
  LET claimed == [o EXCEPT !.streamId = answer.stream,
                           !.claimed = @ \cup {answer.stream},
                           !.size = ImageSize(image)]
      backed == BufferAlloc(claimed, ImageSize(image), answer)
  IN  IF answer.stream = NoStream THEN o
      ELSE IF backed.buf = NoHandle THEN UnrefStream(backed, answer.stream)
      ELSE SendFrame([backed EXCEPT !.clip = NoClip, !.play = "port_play"],
                     image, clip, answer)

(* A frame of another size ends the stream and begins one.                 *)
PortPlay(o, image, clip, answer) ==
  IF ImageSize(image) = o.size
  THEN SendFrame(o, image, clip, answer)
  ELSE PortInit(StopVideo(o, TRUE), image, clip, answer)

PutImage(o, image, clip, answer) ==
  IF o.play = "port_init" THEN PortInit(o, image, clip, answer)
                          ELSE PortPlay(o, image, clip, answer)

Plays(o) == o.play = "port_play"

SetAutopaint(o, value) == [o EXCEPT !.autopaint = value]

----------------------------------------------------------------------------
(* A stream that shows a frame is the port's, and reads the port's buffer, *)
(* which is mapped and no smaller; a port that plays holds one stream and  *)
(* one buffer, and a port that does not holds none, whatever failed.       *)
Held(o) ==
  /\ \A s \in Streams : o.frames[s] # NoFrame =>
       /\ Plays(o) /\ s = o.streamId
       /\ o.frames[s].handle = o.buf /\ o.frames[s].size <= o.live[o.buf]
  /\ o.claimed = (IF Plays(o) THEN {o.streamId} ELSE {})
  /\ {h \in Handles : o.live[h] # 0} = (IF Plays(o) THEN {o.buf} ELSE {})
  /\ o.mapped = {h \in Handles : o.live[h] # 0}
=============================================================================
