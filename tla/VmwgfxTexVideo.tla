--------------------------- MODULE VmwgfxTexVideo ---------------------------
(***************************************************************************)
(* Textured video (vmwgfx_tex_video.c).  A frame is copied into one of two *)
(* sets of three surfaces, one for each colour component, and the device   *)
(* converts it to RGB onto the window's pixmap.  The sets are used in      *)
(* turns and a frame waits for the blit of the one before it, so that no   *)
(* frame is copied over one that the device still reads, unless the wait   *)
(* is given up or skipped.                                                 *)
(*                                                                         *)
(* A port and the blits it asked of the device are one record.  An         *)
(* operator takes it and returns what the function of that name leaves;    *)
(* VmwgfxXv has the state.                                                 *)
(***************************************************************************)
EXTENDS XvImages, Sequences

CONSTANTS
  NoSurface,    (* NULL for a surface                                      *)
  NoBlit,       (* the port has shown nothing yet                          *)
  Sources,      (* the source rectangles clients name: [width, height]     *)
  Faults        (* the calls that may fail                                 *)

Components == 1 .. 3
Sets == 0 .. 1

ASSUME TexVideoAssumption ==
  Faults \subseteq {"create", "map", "validate", "timeout", "blit", "fence"}

(* src_w and src_h as the client gave them: of an image that is cropped,   *)
(* the part that is shown.                                                 *)
HD(source) == source.width >= 1280 /\ source.height >= 720

(* vmwgfx_update_conversion_matrix: what the matrix was computed from.     *)
ConversionMatrix(hdtv, attributes) == [hdtv |-> hdtv, attributes |-> attributes]

(* inflight are the blits not yet finished, oldest first: the set each     *)
(* reads, and whether the port still means to wait for it.  last is the    *)
(* last blit, with the attributes of that moment.  What is awaited, and    *)
(* last, are history: nothing reads them.                                  *)
PortPrivCreate ==
  [fence |-> FALSE, attributes |-> "default", hdtv |-> FALSE,
   cm |-> ConversionMatrix(FALSE, "default"),
   current_set |-> 0,
   yuv |-> [set \in Sets |-> [c \in Components |-> NoSurface]],
   inflight |-> << >>, last |-> NoBlit]

(* Setting an attribute computes the matrix anew.                          *)
SetPortAttribute(t, attributes) ==
  [t EXCEPT !.attributes = attributes, !.cm = ConversionMatrix(t.hdtv, attributes)]

(* The fence and the surfaces go; the device keeps its own references.     *)
StopTextured(t) ==
  [t EXCEPT !.fence = FALSE, !.inflight = << >>,
            !.yuv = [set \in Sets |-> [c \in Components |-> NoSurface]]]

----------------------------------------------------------------------------
(* The size of a component; format and size are those a client gave, not   *)
(* rounded.                                                                *)
Component(image, c) ==
  CASE c = 1 -> <<image.width, image.height>>
    [] c > 1 /\ image.format = "YV12" -> <<image.width \div 2, image.height \div 2>>
    [] c > 1 /\ image.format # "YV12" -> <<image.width \div 2, image.height>>

(* check_yuv_surfaces, which makes or redefines the surfaces one by one:   *)
(* those before the one that fails are of the image, the rest as before.   *)
CheckYuvSurfaces(t, image, failing) ==
  [t EXCEPT !.yuv[t.current_set] =
     [c \in Components |-> IF c < failing THEN Component(image, c) ELSE @[c]]]

(* Blits of which none is awaited any more.                                *)
Abandoned(inflight) ==
  [k \in DOMAIN inflight |-> [set |-> inflight[k].set, awaited |-> FALSE]]

(* display_video.  fails are the calls that fail.  A wait that ends after  *)
(* its second, or fails, drops the fence all the same.                     *)
Throttle(t, fails) ==
  [t EXCEPT !.fence = FALSE,
            !.inflight = CASE ~t.fence -> @
                           [] t.fence /\ "timeout" \in fails -> Abandoned(@)
                           [] t.fence /\ "timeout" \notin fails -> << >>]

Blit(t, image, source, fails) ==
  IF "blit" \in fails THEN t
  ELSE LET fenced == "fence" \notin fails
       IN  [t EXCEPT !.inflight = Append(@, [set |-> t.current_set, awaited |-> fenced]),
                     !.fence = fenced,
                     !.last = [image |-> image, source |-> source,
                               attributes |-> t.attributes, cm |-> t.cm,
                               planes |-> t.yuv[t.current_set]]]

(* The matrix follows the size of what is shown.                           *)
UpdateHdtv(t, source) ==
  IF HD(source) = t.hdtv THEN t
  ELSE [t EXCEPT !.hdtv = HD(source),
                 !.cm = ConversionMatrix(HD(source), t.attributes)]

(* Where the pixmap's surface cannot be had nothing is done: the turn goes *)
(* to the other set without a wait for the blit that may read it.          *)
DisplayVideo(t, image, source, fails) ==
  IF "validate" \in fails THEN [t EXCEPT !.inflight = Abandoned(@)]
  ELSE Blit(Throttle(UpdateHdtv(t, source), fails), image, source, fails)

(* Mutant: every frame is copied into the same set.                       *)
NextSetKept(t) == t

NextSet(t) == [t EXCEPT !.current_set = (t.current_set + 1) % 2]

(* Mutant: what check_yuv_surfaces returns is ignored.                     *)
PutTexturedUnchecked(t, image, source, failing, fails) ==
  LET made == CheckYuvSurfaces(t, image, failing)
  IN  IF "map" \in fails THEN made
      ELSE NextSet(DisplayVideo(made, image, source, fails))

(* put_image, of an image that is not clipped away.  Without surfaces, or  *)
(* when they cannot be mapped, the client is told; what becomes of the     *)
(* blit it is not told.                                                    *)
PutTextured(t, image, source, failing, fails) ==
  LET made == CheckYuvSurfaces(t, image, failing)
  IN  IF failing \in Components \/ "map" \in fails THEN made
      ELSE NextSet(DisplayVideo(made, image, source, fails))

TexturedSucceeds(failing, fails) ==
  failing \notin Components /\ "map" \notin fails

(* Which surface fails, or none.                                           *)
Failing == Components \cup {4}

Finish(t) == [t EXCEPT !.inflight = Tail(@)]

----------------------------------------------------------------------------
(* What was shown came from three surfaces that are of its image, with the *)
(* matrix that its source rectangle and the attributes of that moment ask  *)
(* for.                                                                    *)
ShownWhole(t) ==
  t.last # NoBlit =>
    /\ \A c \in Components : t.last.planes[c] = Component(t.last.image, c)
    /\ t.last.cm = ConversionMatrix(HD(t.last.source), t.last.attributes)

(* The set whose turn it is, is not read by a blit the port waits for.     *)
SetIdle(t) ==
  \A k \in DOMAIN t.inflight :
    t.inflight[k].awaited => t.inflight[k].set # t.current_set
=============================================================================
