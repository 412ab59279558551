---------------------------- MODULE MCBits2Pixels ----------------------------
(***************************************************************************)
(* Bitmaps of two rows of two bytes: in both halves the first byte takes   *)
(* every value, and the other bytes differ from it and from each other.    *)
(***************************************************************************)
EXTENDS Bits2Pixels

FirstBytes == {17 * half : half \in 0 .. 15}

MCBitmaps ==
  {[r \in 0 .. 1 |-> [k \in 0 .. 1 |-> (b * (1 + 2 * r + 4 * k) + 37 * r + 90 * k) % 256]] :
     b \in FirstBytes}
=============================================================================
