---------------------------- MODULE Bits2Pixels ----------------------------
(***************************************************************************)
(* The expansion of a bitmap into a pixmap (src/bits2pixels.c), with which *)
(* the legacy driver makes a two-colour cursor for a host of any depth.    *)
(*                                                                         *)
(* One step takes one half of a byte of the bitmap, the half that is       *)
(* looked up in a table of sixteen patterns; the last, short half of a row *)
(* goes bit by bit.  The code has this loop four times, for pixels of one, *)
(* two, three and four bytes; the loops differ in the store of a pixel     *)
(* only, and are one action each here.  Addresses are row and column: what *)
(* lies between the end of a row and the next one is never addressed.      *)
(***************************************************************************)
EXTENDS Integers

CONSTANTS
  MaxHeight, MaxBytes,  (* rows of a bitmap and bytes of a row: bounds      *)
  Bitmaps,              (* the bitmaps that are expanded                    *)
  Fg, Bg,               (* the colours of 1 bits and of 0 bits              *)
  Unwritten             (* what the pixmap holds where nothing was stored   *)

Byte == 0 .. 255
Rows == 0 .. MaxHeight - 1
Columns == 0 .. 8 * MaxBytes - 1

ASSUME RasterAssumption ==
  /\ MaxHeight \in Nat /\ MaxBytes \in Nat
  /\ Bitmaps \subseteq [Rows -> [0 .. MaxBytes - 1 -> Byte]]
  /\ Fg \in Nat /\ Bg \in Nat

VARIABLES
  bytes_per_pixel, width, height, bits,   (* the arguments of the call     *)
  pixmap,                                 (* what pix points to            *)
  i,                                      (* the row                       *)
  j,                                      (* pixels of the row left        *)
  lbits, lpix,                            (* the two pointers into the row *)
  expbits,                                (* the bits being expanded       *)
  pc

arguments == <<bytes_per_pixel, width, height, bits>>
vars == <<arguments, pixmap, i, j, lbits, lpix, expbits, pc>>

----------------------------------------------------------------------------
(* How a pixel is stored: its low bytes, lowest first.                     *)
Stored(size, colour) == [k \in 1 .. size |-> (colour \div 256^(k - 1)) % 256]

(* expbits & 0x08, 0x04, 0x02 and 0x01.                                    *)
Digit(n, k) ==
  CASE k = 0 -> (n \div 8) % 2
    [] k = 1 -> (n \div 4) % 2
    [] k = 2 -> (n \div 2) % 2
    [] k = 3 -> n % 2

Colour(n, k) == IF Digit(n, k) = 1 THEN Fg ELSE Bg

(* The tables of the four functions: what a half byte becomes.             *)
Table8(n)  == [k \in 0 .. 3 |-> Stored(1, Colour(n, k))]
Table16(n) == [k \in 0 .. 3 |-> Stored(2, Colour(n, k))]
Table24(n) == [k \in 0 .. 3 |-> Stored(3, Colour(n, k))]
Table32(n) == [k \in 0 .. 3 |-> Stored(4, Colour(n, k))]

Expanded(n) ==
  CASE bytes_per_pixel = 1 -> Table8(n)
    [] bytes_per_pixel = 2 -> Table16(n)
    [] bytes_per_pixel = 3 -> Table24(n)
    [] bytes_per_pixel = 4 -> Table32(n)

UpperHalf(byte) == byte \div 16
LowerHalf(byte) == byte % 16

Current == bits[i][lbits]

(* The first count pixels of half byte n are stored at lpix.               *)
StorePixels(n, count) ==
  /\ pixmap' = [pixmap EXCEPT ![i] =
                  [x \in Columns |->
                     IF x \in lpix .. lpix + count - 1 THEN Expanded(n)[x - lpix]
                                                       ELSE pixmap[i][x]]]
  /\ lpix' = lpix + count

----------------------------------------------------------------------------
Blank == [r \in Rows |-> [x \in Columns |-> Unwritten]]

(* A call, with its arguments: width pixels of each row of a bitmap that   *)
(* has them, to be stored into a fresh pixmap.                             *)
Init ==
  /\ bytes_per_pixel \in 1 .. 4
  /\ width \in 0 .. 8 * MaxBytes /\ height \in 0 .. MaxHeight
  /\ bits \in Bitmaps
  /\ pixmap = Blank
  /\ i = 0 /\ j = 0 /\ lbits = 0 /\ lpix = 0 /\ expbits = 0
  /\ pc = "called"

(* vmwareRaster_BitsToPixels goes to the loop for the depth, which starts  *)
(* with the first row if there is one.                                     *)
BitsToPixels ==
  /\ pc = "called"
  /\ j' = width
  /\ pc' = IF height = 0 THEN "returned" ELSE "upper"
  /\ UNCHANGED <<arguments, pixmap, i, lbits, lpix, expbits>>

(* Mutant: a last half byte that is complete is left to the tail.          *)
ExpandUpperStrict ==
  /\ pc = "upper" /\ j > 0
  /\ expbits' = UpperHalf(Current)
  /\ IF j <= 4
     THEN pc' = "tail" /\ UNCHANGED <<pixmap, j, lpix>>
     ELSE /\ StorePixels(expbits', 4)
          /\ j' = j - 4
          /\ pc' = "lower"
  /\ UNCHANGED <<arguments, i, lbits>>

(* The first half of the loop's body: the upper half of the byte.          *)
ExpandUpper ==
  /\ pc = "upper" /\ j > 0
  /\ expbits' = UpperHalf(Current)
  /\ IF j < 4
     THEN pc' = "tail" /\ UNCHANGED <<pixmap, j, lpix>>
     ELSE /\ StorePixels(expbits', 4)
          /\ j' = j - 4
          /\ pc' = "lower"
  /\ UNCHANGED <<arguments, i, lbits>>

(* Mutant: the pointer into the bitmap is not advanced.                    *)
ExpandLowerInPlace ==
  /\ pc = "lower"
  /\ expbits' = LowerHalf(Current)
  /\ IF j < 4
     THEN pc' = "tail" /\ UNCHANGED <<pixmap, j, lpix, lbits>>
     ELSE /\ StorePixels(expbits', 4)
          /\ j' = j - 4
          /\ pc' = "upper"
          /\ UNCHANGED lbits
  /\ UNCHANGED <<arguments, i>>

(* The second half: the lower half of the same byte.                       *)
ExpandLower ==
  /\ pc = "lower"
  /\ expbits' = LowerHalf(Current)
  /\ IF j < 4
     THEN pc' = "tail" /\ UNCHANGED <<pixmap, j, lpix, lbits>>
     ELSE /\ StorePixels(expbits', 4)
          /\ j' = j - 4
          /\ pc' = "upper"
          /\ lbits' = lbits + 1
  /\ UNCHANGED <<arguments, i>>

(* The loop ends because the row is complete.                              *)
RowComplete ==
  /\ pc = "upper" /\ j <= 0
  /\ pc' = "tail"
  /\ UNCHANGED <<arguments, pixmap, i, j, lbits, lpix, expbits>>

(* At most three pixels are stored; expbits has them already.              *)
RowTail ==
  /\ pc = "tail"
  /\ LET left == IF j < 3 THEN j ELSE 3
     IN  StorePixels(expbits, left) /\ j' = j - left
  /\ pc' = "next"
  /\ UNCHANGED <<arguments, i, lbits, expbits>>

NextRow ==
  /\ pc = "next"
  /\ i' = i + 1
  /\ j' = width /\ lbits' = 0 /\ lpix' = 0
  /\ pc' = IF i + 1 < height THEN "upper" ELSE "returned"
  /\ UNCHANGED <<arguments, pixmap, expbits>>

Next ==
  \/ BitsToPixels
  \/ ExpandUpper
  \/ ExpandLower
  \/ RowComplete
  \/ RowTail
  \/ NextRow

Spec == Init /\ [][Next]_vars

----------------------------------------------------------------------------
Pixels ==
  {Unwritten} \cup {Stored(size, colour) : size \in 1 .. 4, colour \in {Fg, Bg}}

TypeOK ==
  /\ bytes_per_pixel \in 1 .. 4
  /\ width \in 0 .. 8 * MaxBytes /\ height \in 0 .. MaxHeight
  /\ bits \in Bitmaps
  /\ pixmap \in [Rows -> [Columns -> Pixels]]
  /\ i \in 0 .. MaxHeight
  /\ j \in 0 .. width
  /\ lbits \in 0 .. MaxBytes /\ lpix \in 0 .. width
  /\ expbits \in 0 .. 15
  /\ pc \in {"called", "upper", "lower", "tail", "next", "returned"}

(* What the function is for, said without its loop: the highest bit of a   *)
(* byte is its leftmost pixel.                                             *)
Weight == <<128, 64, 32, 16, 8, 4, 2, 1>>

PixelAt(r, x) ==
  Stored(bytes_per_pixel,
         IF (bits[r][x \div 8] \div Weight[(x % 8) + 1]) % 2 = 1 THEN Fg ELSE Bg)

(* Every row that is done holds the colours of the bits of that row of the *)
(* bitmap, whatever the width and the depth, and nothing was stored beyond *)
(* the end of a row.  Trying the driver out draws cursors of one width at  *)
(* one depth; the halves, the tail and the four copies of the loop are     *)
(* only all reached together here.                                         *)
RowsExpanded ==
  /\ \A r \in Rows, x \in Columns :
        r < i => pixmap[r][x] = IF x < width THEN PixelAt(r, x) ELSE Unwritten
  /\ pc = "returned" => i = height

(* No byte of the bitmap is read beyond those that hold the row's pixels,  *)
(* and no pixel of the row before the tail is lost between two halves: the *)
(* pointers into the bitmap and into the pixmap stay together.             *)
PointersTogether ==
  /\ pc = "upper" /\ j > 0 => 8 * lbits = lpix /\ 8 * lbits < width
  /\ pc = "lower" => 8 * lbits + 4 = lpix /\ 8 * lbits < width
  /\ pc \in {"upper", "lower", "tail"} => lpix + j = width
=============================================================================
