------------------------------ MODULE XvImages ------------------------------
(***************************************************************************)
(* How an image lies in the memory a client puts it in.  The legacy        *)
(* overlay, the overlay of vmwgfx and the textured video each have a copy  *)
(* of this function; they agree on the formats they offer.                 *)
(***************************************************************************)
EXTENDS Integers

MaxImage == 2048

Even(n) == 2 * ((n + 1) \div 2)
Pitch(n) == 4 * ((n + 3) \div 4)
AtMost(n, limit) == IF n > limit THEN limit ELSE n

(* The planes of an image: where each begins, the bytes of its rows and    *)
(* their number.  UYVY and YUY2 are one plane.                             *)
Planes(image) ==
  LET w == Even(AtMost(image.width, MaxImage))
      h == AtMost(image.height, MaxImage)
      rows == Even(h)
      y == Pitch(w)
      uv == Pitch(w \div 2)
  IN  CASE image.format = "YV12" ->
             << [offset |-> 0, pitch |-> y, rows |-> rows],
                [offset |-> y * rows, pitch |-> uv, rows |-> rows \div 2],
                [offset |-> y * rows + uv * (rows \div 2), pitch |-> uv, rows |-> rows \div 2] >>
        [] image.format \in {"YUY2", "UYVY"} ->
             << [offset |-> 0, pitch |-> 2 * w, rows |-> h] >>

(* vmwareQueryImageAttributes: the bytes of the image.                     *)
ImageSize(image) ==
  LET planes == Planes(image)
      size(k) == planes[k].pitch * planes[k].rows
  IN  CASE image.format = "YV12" -> size(1) + size(2) + size(3)
        [] image.format \in {"YUY2", "UYVY"} -> size(1)

(* The server refuses an image of a format that an adaptor does not list,  *)
(* and one that has no bytes.                                              *)
IsImage(image) ==
  /\ image.format \in {"YV12", "YUY2", "UYVY"}
  /\ image.width \in Nat /\ image.height \in Nat
  /\ ImageSize(image) # 0

QueryBestSize(drw_w, drw_h) == <<Even(drw_w), drw_h>>
=============================================================================
