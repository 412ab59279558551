---------------------------- MODULE VmwareVideo ----------------------------
(***************************************************************************)
(* The Xv overlay of the legacy driver (src/vmwarevideo.c): one port, one  *)
(* buffer.  A frame is copied into VRAM that the framebuffer does not use  *)
(* and the host is told, through the command FIFO, to scale it onto those  *)
(* pixels of the screen that have the colour key.                          *)
(*                                                                         *)
(* The driver's port, its memory manager and the stream registers of the   *)
(* host are one record.  An operator takes it and returns what the         *)
(* function of that name leaves; VmwareScreen has the state.               *)
(***************************************************************************)
EXTENDS XvImages

CONSTANTS
  VideoRam,     (* bytes of VRAM                                           *)
  Images,       (* the images that clients put                             *)
  Clips,        (* the regions a window may be clipped to                  *)
  NoClip,       (* the empty region                                        *)
  NoArea        (* NULL for fbarea                                         *)

ASSUME VideoAssumption ==
  /\ VideoRam \in Nat
  /\ \A image \in Images : IsImage(image)
  /\ NoClip \notin Clips /\ NoArea \notin [size : Nat, offset : Int]

(* offscreenMgr with nothing allocated.                                    *)
OffscreenInit == [size |-> 0, offset |-> 0]

NoPlanes == << >>

(* The stream registers: where the host finds the planes of the frame.     *)
Disabled == [enabled |-> FALSE, offset |-> 0, planes |-> NoPlanes]

(* pVid and what belongs to it: fbarea has the offset and the size that    *)
(* were allocated; painted is the region that shows the colour key.        *)
VideoSetup ==
  [play |-> "InitStream", size |-> 0, fbarea |-> NoArea,
   autopaint |-> TRUE, clip |-> NoClip,
   painted |-> NoClip, mgr |-> OffscreenInit, host |-> Disabled]

EightBelow(n) == n - (n % 8)

Spare(fb) == VideoRam - fb.size - fb.pitch - 7

(* The comparison is one of unsigned longs: what is spare below zero is    *)
(* more than any frame needs.                                              *)
OffscreenFits(fb, size) == Spare(fb) < 0 \/ Spare(fb) >= size

Allocated(size) == [size |-> size, offset |-> EightBelow(VideoRam - size)]

OffscreenFree(v) == [v EXCEPT !.fbarea = NoArea, !.mgr = OffscreenInit]

EndStream(v) ==
  [IF v.fbarea = NoArea THEN v ELSE OffscreenFree(v)
     EXCEPT !.play = "InitStream", !.size = 0, !.clip = NoClip]

(* Mutant: a stop for a while keeps the region.                            *)
StopVideoKeepsClip(v, Cleanup) ==
  IF Cleanup THEN EndStream([v EXCEPT !.host = Disabled]) ELSE v

(* A stop for a while only makes sure that the key is painted again.       *)
StopVideo(v, Cleanup) ==
  LET hidden == [v EXCEPT !.clip = NoClip]
  IN  IF Cleanup THEN EndStream([hidden EXCEPT !.host = Disabled]) ELSE hidden

(* The key is painted over the clip and sent to the host before the frame. *)
PaintKey(v, clip) ==
  [v EXCEPT !.clip = clip, !.painted = IF v.autopaint THEN clip ELSE @]

(* An image that the stream's memory can hold: it is copied, all the       *)
(* registers are sent, and the flush shows it.                             *)
PlayFrame(v, image, clip) ==
  LET sent == [v EXCEPT !.size = ImageSize(image),
                        !.host = [enabled |-> TRUE, offset |-> v.fbarea.offset,
                                  planes |-> Planes(image)]]
  IN  IF v.clip = clip THEN sent ELSE PaintKey(sent, clip)

(* The first frame: memory is allocated, which may fail for want of it (or *)
(* because malloc fails), and the frame is played.                         *)
InitStream(v, image, clip, fb, allocated) ==
  LET area == Allocated(ImageSize(image))
      opened == [v EXCEPT !.play = "Play", !.size = ImageSize(image),
                          !.fbarea = area, !.mgr = area]
  IN  IF allocated /\ OffscreenFits(fb, ImageSize(image))
      THEN PlayFrame(PaintKey(opened, clip), image, clip)
      ELSE EndStream(v)

(* A larger frame than the stream's: the stream is begun again.            *)
Play(v, image, clip, fb, allocated) ==
  IF ImageSize(image) > v.size
  THEN InitStream(StopVideo(v, TRUE), image, clip, fb, allocated)
  ELSE PlayFrame(v, image, clip)

XvPutImage(v, image, clip, fb, allocated) ==
  IF v.play = "InitStream" THEN InitStream(v, image, clip, fb, allocated)
                           ELSE Play(v, image, clip, fb, allocated)

Succeeds(v) == v.play = "Play"

(* Mutant: the framebuffer may grow into a stream's memory.                *)
CheckVideoSanityNever(v, fb) == v

(* A mode whose framebuffer reaches the stream's memory ends the stream.   *)
CheckVideoSanity(v, fb) ==
  IF v.mgr.size = 0 \/ v.mgr.offset > fb.size THEN v ELSE StopVideo(v, TRUE)

(* CloseScreen frees the port without a word to the host.                  *)
VideoEnd(v) == [EndStream(v) EXCEPT !.autopaint = TRUE]

SetAutopaint(v, value) == [v EXCEPT !.autopaint = value]

----------------------------------------------------------------------------
VideoTypeOK(v) ==
  /\ v.play \in {"InitStream", "Play"}
  /\ v.size \in {ImageSize(image) : image \in Images} \cup {0}
  /\ v.fbarea \in {Allocated(ImageSize(image)) : image \in Images} \cup {NoArea}
  /\ v.autopaint \in BOOLEAN
  /\ v.clip \in Clips \cup {NoClip} /\ v.painted \in Clips \cup {NoClip}

(* What the host reads, plane by plane, is memory the stream still holds.  *)
StreamHeld(v) ==
  /\ v.host.enabled =>
       /\ v.fbarea # NoArea
       /\ v.host.offset = v.fbarea.offset
       /\ \A k \in DOMAIN v.host.planes :
            LET plane == v.host.planes[k]
            IN  plane.offset + plane.pitch * plane.rows <= v.fbarea.size
  /\ v.mgr = IF v.fbarea = NoArea THEN OffscreenInit ELSE v.fbarea
  /\ v.play = "Play" <=> v.fbarea # NoArea
=============================================================================
