------------------------------ MODULE VmwgfxXv ------------------------------
(***************************************************************************)
(* The video adaptors of the vmwgfx driver under the server's Xv layer     *)
(* (xorg_xv_init of vmwgfx_tex_video.c, vmw_video_init_adaptor of          *)
(* vmwgfx_overlay.c).  Which adaptors there are depends on the tracker, on *)
(* whether the driver is hosted and on the streams that are free.  The Xv  *)
(* layer stops ports when their window goes, when a VT is left, and for a  *)
(* while when the window is exposed or moved; it is modelled from how the  *)
(* driver is called.                                                       *)
(***************************************************************************)
EXTENDS VmwgfxOverlay, VmwgfxTexVideo

CONSTANTS
  Attributes,   (* the values that clients give to attributes              *)
  MaxInflight,  (* bound: blits the device has not finished                *)
  NoPort,       (* there is no adaptor                                     *)
  Hosts         (* [accelerated, hosted]: what the server may run on       *)

ASSUME PortAssumption == NoPort \notin OverlayPorts

VARIABLES
  overlay,      (* the overlay port, or NoPort                             *)
  texture,      (* a port of the textured video, or NoPort                 *)
  isOn,         (* of each port, what the Xv layer thinks of it            *)
  others,       (* the streams that other clients of the kernel claimed    *)
  vtSema,
  phase

vars == <<overlay, texture, isOn, others, vtSema, phase>>

Init ==
  /\ overlay = NoPort /\ texture = NoPort
  /\ isOn = [port \in {"overlay", "texture"} |-> "off"]
  /\ others \in SUBSET Streams
  /\ vtSema = TRUE /\ phase = "closed"

TexturedAdaptor(host) == IF host.accelerated THEN PortPrivCreate ELSE NoPort

(* An adaptor of the overlay is offered while a stream is free; another    *)
(* client may still take it before the first frame.                        *)
OverlayAdaptor(host) ==
  IF ~host.hosted /\ Streams \ others # {} THEN PortCreate ELSE NoPort

XvInit ==
  /\ phase = "closed" /\ vtSema
  /\ \E host \in Hosts :
       /\ texture' = TexturedAdaptor(host)
       /\ overlay' = OverlayAdaptor(host)
  /\ phase' = "up"
  /\ UNCHANGED <<isOn, others, vtSema>>

(* The Xv layer refuses images on another VT, and remembers a port that    *)
(* took one.                                                               *)
PutOverlay(image, clip) ==
  /\ overlay # NoPort /\ vtSema
  /\ \E answer \in Answers(others) :
       overlay' = PutImage(overlay, image, clip, answer)
  /\ isOn' = [isOn EXCEPT !["overlay"] = IF Plays(overlay') THEN "on" ELSE @]
  /\ UNCHANGED <<texture, others, vtSema, phase>>

PutTexture(image, source) ==
  /\ texture # NoPort /\ vtSema
  /\ Len(texture.inflight) < MaxInflight
  /\ \E failing \in IF "create" \in Faults THEN Failing ELSE {4},
        fails \in SUBSET (Faults \ {"create"}) :
       /\ texture' = PutTextured(texture, image, source, failing, fails)
       /\ isOn' = [isOn EXCEPT !["texture"] =
                     IF TexturedSucceeds(failing, fails) THEN "on" ELSE @]
  /\ UNCHANGED <<overlay, others, vtSema, phase>>

(* The device finishes the oldest blit.                                    *)
FinishBlit ==
  /\ texture # NoPort /\ texture.inflight # << >>
  /\ texture' = Finish(texture)
  /\ UNCHANGED <<overlay, isOn, others, vtSema, phase>>

Stopped(port, cleanup) ==
  CASE port = "overlay" ->
         /\ overlay' = StopVideo(overlay, cleanup)
         /\ UNCHANGED texture
    [] port = "texture" ->
         /\ texture' = IF cleanup THEN StopTextured(texture) ELSE texture
         /\ UNCHANGED overlay

(* What was drawn over the key is gone: the window was exposed or moved.   *)
Expose ==
  /\ isOn["overlay"] = "on" /\ vtSema
  /\ overlay' = [StopVideo(overlay, FALSE) EXCEPT !.painted = NoClip,
                                                  !.visible = NoClip]
  /\ isOn' = [isOn EXCEPT !["overlay"] = "pending"]
  /\ UNCHANGED <<texture, others, vtSema, phase>>

(* The client stops, or its window is destroyed.                           *)
StopPort(port) ==
  /\ isOn[port] # "off" /\ vtSema
  /\ Stopped(port, TRUE)
  /\ isOn' = [isOn EXCEPT ![port] = "off"]
  /\ UNCHANGED <<others, vtSema, phase>>

SetOverlayAttribute(value) ==
  /\ overlay # NoPort /\ isOn["overlay"] = "off"
  /\ overlay' = SetAutopaint(overlay, value)
  /\ UNCHANGED <<texture, isOn, others, vtSema, phase>>

SetTextureAttribute(attributes) ==
  /\ texture # NoPort
  /\ texture' = SetPortAttribute(texture, attributes)
  /\ UNCHANGED <<overlay, isOn, others, vtSema, phase>>

(* Another client of the kernel claims a stream or gives one back.         *)
OtherClaims(s) ==
  /\ s \notin others /\ (overlay # NoPort => s \notin overlay.claimed)
  /\ others' = others \cup {s}
  /\ UNCHANGED <<overlay, texture, isOn, vtSema, phase>>

OtherGivesBack(s) ==
  /\ s \in others
  /\ others' = others \ {s}
  /\ UNCHANGED <<overlay, texture, isOn, vtSema, phase>>

(* The layer stops every port before the driver leaves the VT.             *)
LeaveVT ==
  /\ phase = "up" /\ vtSema /\ \A port \in DOMAIN isOn : isOn[port] = "off"
  /\ vtSema' = FALSE
  /\ UNCHANGED <<overlay, texture, isOn, others, phase>>

EnterVT ==
  /\ ~vtSema
  /\ vtSema' = TRUE
  /\ UNCHANGED <<overlay, texture, isOn, others, phase>>

(* The windows are gone, and the ports stopped, before the layer closes.   *)
CloseScreen ==
  /\ phase = "up" /\ vtSema /\ \A port \in DOMAIN isOn : isOn[port] = "off"
  /\ overlay' = NoPort /\ texture' = NoPort
  /\ phase' = "closed"
  /\ UNCHANGED <<isOn, others, vtSema>>

Next ==
  \/ XvInit
  \/ \E image \in Images, clip \in Clips : PutOverlay(image, clip)
  \/ \E image \in Images, source \in Sources : PutTexture(image, source)
  \/ FinishBlit
  \/ Expose
  \/ \E port \in DOMAIN isOn : StopPort(port)
  \/ \E value \in BOOLEAN : SetOverlayAttribute(value)
  \/ \E attributes \in Attributes : SetTextureAttribute(attributes)
  \/ \E s \in Streams : OtherClaims(s)
  \/ \E s \in Streams : OtherGivesBack(s)
  \/ LeaveVT
  \/ EnterVT
  \/ CloseScreen

Spec == Init /\ [][Next]_vars

----------------------------------------------------------------------------
(* What the device reads for the overlay is a buffer the port holds, large *)
(* enough and mapped; no failure between the claim of a stream and the     *)
(* first frame leaves a stream or a buffer behind, and no stream that      *)
(* another client claimed is used (vmw_video_port_init,                    *)
(* vmw_video_port_cleanup).                                                *)
OverlayHeld ==
  overlay # NoPort => Held(overlay) /\ overlay.claimed \cap others = {}

(* A frame that the device shows is seen: where the port paints the key    *)
(* itself, the key is on the screen over the whole clip of the last frame, *)
(* also after an exposure and the frame that follows it                    *)
(* (vmw_video_port_play flushes before it sends the frame).                *)
KeyShown ==
  overlay # NoPort /\ isOn["overlay"] = "on" /\ overlay.autopaint =>
    \A s \in Streams : overlay.frames[s] # NoFrame =>
      overlay.visible = overlay.clip /\ overlay.clip # NoClip

(* No frame is shown from surfaces of which some are still another         *)
(* frame's, nor with a matrix computed for another frame or from older     *)
(* attributes (check_yuv_surfaces fails half-way; the matrix is cached).   *)
FrameWhole == texture # NoPort => ShownWhole(texture)

(* A frame is copied into surfaces that a blit still reads only where the  *)
(* code gave the wait up: the blit got no fence, the wait for it ended     *)
(* after a second or failed, or display_video could not have a pixmap's    *)
(* surface after it, and the sets changed places without a wait            *)
(* (display_video, put_image).                                             *)
CopiesApart == texture # NoPort => SetIdle(texture)
=============================================================================
