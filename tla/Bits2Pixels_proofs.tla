------------------------- MODULE Bits2Pixels_proofs -------------------------
(***************************************************************************)
(* The loops of bits2pixels.c are correct for every width, every height    *)
(* and every bitmap.                                                       *)
(***************************************************************************)
EXTENDS Bits2Pixels, TLAPS

InLoop == pc \in {"upper", "lower", "tail"}

(* What row r holds when its first n pixels are stored.                    *)
Holds(r, n) ==
  \A x \in Columns : pixmap[r][x] = IF x < n THEN PixelAt(r, x) ELSE Unwritten

(* The rows before the current one are done, it is done up to lpix, and    *)
(* the rows after it are untouched.                                        *)
Progress ==
  \A r \in Rows :
     /\ r < i => Holds(r, width)
     /\ r = i => Holds(r, lpix)
     /\ r > i => Holds(r, 0)

(* Where the loop is in its row.                                           *)
Position ==
  /\ pc = "called" => i = 0 /\ lbits = 0 /\ lpix = 0
  /\ InLoop => lpix + j = width
  /\ InLoop \/ pc = "next" => i < height
  /\ pc = "upper" => lpix = 8 * lbits
  /\ pc = "lower" => lpix = 8 * lbits + 4
  /\ pc = "next" => lpix = width
  /\ pc = "returned" => i = height /\ lpix = 0

(* The half byte that is left for the tail holds the pixels that are left. *)
TailBits ==
  pc = "tail" =>
    /\ j < 4
    /\ \A k \in 0 .. 3 :
         k < j => Stored(bytes_per_pixel, Colour(expbits, k)) = PixelAt(i, lpix + k)

(* The inductive invariant.                                                *)
IInv == TypeOK /\ Progress /\ Position /\ TailBits

----------------------------------------------------------------------------
(* The two halves of a byte and its eight bits.                            *)
LEMMA HalfDigits ==
  ASSUME NEW b \in Byte, NEW k \in 0 .. 3
  PROVE  /\ UpperHalf(b) \in 0 .. 15 /\ LowerHalf(b) \in 0 .. 15
         /\ Digit(UpperHalf(b), k) = (b \div Weight[k + 1]) % 2
         /\ Digit(LowerHalf(b), k) = (b \div Weight[k + 5]) % 2
<1>1. CASE k = 0
  BY <1>1 DEF Byte, UpperHalf, LowerHalf, Digit, Weight
<1>2. CASE k = 1
  BY <1>2 DEF Byte, UpperHalf, LowerHalf, Digit, Weight
<1>3. CASE k = 2
  BY <1>3 DEF Byte, UpperHalf, LowerHalf, Digit, Weight
<1>4. CASE k = 3
  BY <1>4 DEF Byte, UpperHalf, LowerHalf, Digit, Weight
<1> QED
  BY <1>1, <1>2, <1>3, <1>4

(* The table of the depth is the store of the four colours.                *)
LEMMA ExpandedIs ==
  ASSUME bytes_per_pixel \in 1 .. 4, NEW n, NEW k \in 0 .. 3
  PROVE  Expanded(n)[k] = Stored(bytes_per_pixel, Colour(n, k))
BY DEF Expanded, Table8, Table16, Table24, Table32

(* The byte the loop looks at is a byte of the bitmap.                     *)
LEMMA CurrentByte ==
  ASSUME TypeOK, i < height, lbits < MaxBytes
  PROVE  Current \in Byte /\ i \in Rows
<1>1. i \in Rows /\ lbits \in 0 .. MaxBytes - 1
  BY RasterAssumption DEF TypeOK, Rows
<1>2. bits \in [Rows -> [0 .. MaxBytes - 1 -> Byte]]
  BY RasterAssumption DEF TypeOK
<1> QED
  BY <1>1, <1>2 DEF Current

(* The pixels that a half byte stands for.                                 *)
LEMMA UpperPixels ==
  ASSUME TypeOK, i < height, lbits < MaxBytes, lpix = 8 * lbits, NEW k \in 0 .. 3
  PROVE  Stored(bytes_per_pixel, Colour(UpperHalf(Current), k)) = PixelAt(i, lpix + k)
<1>1. (lpix + k) \div 8 = lbits /\ (lpix + k) % 8 = k
  BY DEF TypeOK
<1>2. Digit(UpperHalf(Current), k) = (bits[i][lbits] \div Weight[k + 1]) % 2
  BY CurrentByte, HalfDigits DEF Current
<1> QED
  BY <1>1, <1>2 DEF Colour, PixelAt

LEMMA LowerPixels ==
  ASSUME TypeOK, i < height, lbits < MaxBytes, lpix = 8 * lbits + 4, NEW k \in 0 .. 3
  PROVE  Stored(bytes_per_pixel, Colour(LowerHalf(Current), k)) = PixelAt(i, lpix + k)
<1>1. (lpix + k) \div 8 = lbits /\ (lpix + k) % 8 = k + 4
  BY DEF TypeOK
<1>2. Digit(LowerHalf(Current), k) = (bits[i][lbits] \div Weight[k + 5]) % 2
  BY CurrentByte, HalfDigits DEF Current
<1> QED
  BY <1>1, <1>2 DEF Colour, PixelAt

----------------------------------------------------------------------------
(* Storing pixels of the row the bitmap has there carries the row on and   *)
(* leaves the other rows alone.                                            *)
LEMMA StoreCarriesOn ==
  ASSUME TypeOK, Progress, i < height,
         NEW n, NEW count \in 0 .. 4, lpix + count <= width,
         \A k \in 0 .. 3 :
            k < count => Stored(bytes_per_pixel, Colour(n, k)) = PixelAt(i, lpix + k),
         StorePixels(n, count), UNCHANGED arguments, i' = i
  PROVE  /\ lpix' = lpix + count /\ lpix' \in 0 .. width
         /\ pixmap' \in [Rows -> [Columns -> Pixels]]
         /\ Progress'
<1>1. lpix' = lpix + count /\ lpix' \in 0 .. width
  BY DEF StorePixels, TypeOK
<1>2. i \in Rows
  BY RasterAssumption DEF TypeOK, Rows
<1> DEFINE row == [x \in Columns |->
                     IF x \in lpix .. lpix + count - 1 THEN Expanded(n)[x - lpix]
                                                       ELSE pixmap[i][x]]
<1>3. pixmap' = [pixmap EXCEPT ![i] = row]
  BY DEF StorePixels
<1>4. \A x \in Columns :
        row[x] = IF x \in lpix .. lpix + count - 1
                 THEN Stored(bytes_per_pixel, Colour(n, x - lpix)) ELSE pixmap[i][x]
  <2> SUFFICES ASSUME NEW x \in Columns, x \in lpix .. lpix + count - 1
               PROVE  Expanded(n)[x - lpix] = Stored(bytes_per_pixel, Colour(n, x - lpix))
    OBVIOUS
  <2>1. x - lpix \in 0 .. 3
    BY DEF Columns, TypeOK
  <2> QED
    BY <2>1, ExpandedIs DEF TypeOK
<1>5. row \in [Columns -> Pixels]
  <2>1. \A k \in 0 .. 3 : Stored(bytes_per_pixel, Colour(n, k)) \in Pixels
    BY DEF Pixels, Colour, TypeOK
  <2>2. \A x \in Columns : pixmap[i][x] \in Pixels
    BY <1>2 DEF TypeOK
  <2>3. \A x \in Columns : x \in lpix .. lpix + count - 1 => x - lpix \in 0 .. 3
    BY DEF Columns, TypeOK
  <2>4. \A x \in Columns : row[x] \in Pixels
    BY <1>4, <2>1, <2>2, <2>3
  <2> QED
    BY <2>4
<1>6. pixmap' \in [Rows -> [Columns -> Pixels]]
  BY <1>2, <1>3, <1>5 DEF TypeOK
<1>7. \A r \in Rows, x \in Columns : PixelAt(r, x)' = PixelAt(r, x)
  BY DEF arguments, PixelAt
<1>8. Progress'
  <2> SUFFICES ASSUME NEW r \in Rows
               PROVE  /\ r < i => Holds(r, width)'
                      /\ r = i => Holds(r, lpix)'
                      /\ r > i => Holds(r, 0)'
    BY DEF Progress
  <2>1. ASSUME r # i, NEW m, Holds(r, m), m' = m
        PROVE  Holds(r, m)'
    <3>1. pixmap'[r] = pixmap[r]
      BY <1>2, <1>3, <2>1 DEF TypeOK
    <3> QED
      BY <1>7, <2>1, <3>1 DEF Holds
  <2>2. CASE r < i
    BY <2>1, <2>2 DEF Progress, arguments, TypeOK, Rows
  <2>3. CASE r > i
    BY <2>1, <2>3 DEF Progress, TypeOK, Rows
  <2>4. CASE r = i
    <3>1. pixmap'[r] = row
      BY <1>2, <1>3, <2>4 DEF TypeOK
    <3>2. Holds(i, lpix)
      BY <1>2 DEF Progress
    <3>3. ASSUME NEW x \in Columns
          PROVE  row[x] = IF x < lpix + count THEN PixelAt(i, x) ELSE Unwritten
      <4>1. CASE x \in lpix .. lpix + count - 1
        <5>1. x - lpix \in 0 .. 3 /\ x - lpix < count /\ x = lpix + (x - lpix)
          BY <4>1 DEF Columns, TypeOK
        <5>2. row[x] = PixelAt(i, x)
          BY <1>4, <4>1, <5>1
        <5> QED
          BY <4>1, <5>2 DEF Columns, TypeOK
      <4>2. CASE ~ (x \in lpix .. lpix + count - 1)
        <5>1. x < lpix <=> x < lpix + count
          BY <4>2 DEF Columns, TypeOK
        <5>2. row[x] = pixmap[i][x]
          BY <1>4, <4>2
        <5> QED
          BY <3>2, <5>1, <5>2 DEF Holds
      <4> QED
        BY <4>1, <4>2
    <3>4. Holds(r, lpix)'
      BY <1>1, <1>7, <2>4, <3>1, <3>3 DEF Holds
    <3> QED
      BY <2>4, <3>4 DEF Rows, TypeOK
  <2> QED
    BY <2>2, <2>3, <2>4 DEF Rows, TypeOK
<1> QED
  BY <1>1, <1>6, <1>8

----------------------------------------------------------------------------
(* A call has stored nothing.                                              *)
LEMMA InitIInv == Init => IInv
<1> SUFFICES ASSUME Init PROVE IInv
  OBVIOUS
<1>1. pixmap \in [Rows -> [Columns -> Pixels]]
  BY DEF Init, Blank, Pixels
<1>2. TypeOK
  BY <1>1, RasterAssumption DEF Init, TypeOK
<1>3. Progress
  BY DEF Init, Blank, Progress, Holds, Rows, Columns
<1> QED
  BY <1>2, <1>3 DEF Init, IInv, Position, TailBits, InLoop

(* The upper half: the row is not complete, so its byte is there.          *)
LEMMA UpperStep == IInv /\ ExpandUpper => IInv'
<1> SUFFICES ASSUME IInv, ExpandUpper PROVE IInv'
  OBVIOUS
<1>1. /\ pc = "upper" /\ j > 0 /\ i < height /\ lpix = 8 * lbits /\ lpix + j = width
      /\ expbits' = UpperHalf(Current) /\ i' = i /\ lbits' = lbits
      /\ TypeOK /\ Progress /\ UNCHANGED arguments
  BY DEF IInv, ExpandUpper, Position, InLoop
<1>2. lbits < MaxBytes
  BY <1>1, RasterAssumption DEF TypeOK
<1>3. expbits' \in 0 .. 15
  BY <1>1, <1>2, CurrentByte, HalfDigits
<1>4. \A k \in 0 .. 3 :
        Stored(bytes_per_pixel, Colour(expbits', k)) = PixelAt(i, lpix + k)
  BY <1>1, <1>2, UpperPixels
<1>5. \A r \in Rows, x \in Columns : PixelAt(r, x)' = PixelAt(r, x)
  BY <1>1 DEF arguments, PixelAt
<1>6. CASE j < 4
  <2>1. pc' = "tail" /\ pixmap' = pixmap /\ j' = j /\ lpix' = lpix
    BY <1>6 DEF ExpandUpper
  <2>2. TypeOK'
    BY <1>1, <1>3, <2>1 DEF TypeOK, arguments
  <2>3. Progress'
    BY <1>1, <1>5, <2>1 DEF Progress, Holds, arguments
  <2>4. TailBits'
    <3>1. \A k \in 0 .. 3 : k < j => lpix + k \in Columns /\ i \in Rows
      BY <1>1, RasterAssumption DEF TypeOK, Columns, Rows
    <3> QED
      BY <1>1, <1>4, <1>5, <1>6, <2>1, <3>1 DEF TailBits, arguments, Colour
  <2> QED
    BY <1>1, <2>1, <2>2, <2>3, <2>4 DEF IInv, Position, InLoop, arguments
<1>7. CASE j >= 4
  <2>1. pc' = "lower" /\ j' = j - 4 /\ StorePixels(expbits', 4)
    BY <1>1, <1>7 DEF ExpandUpper, TypeOK
  <2>2. /\ lpix' = lpix + 4 /\ lpix' \in 0 .. width
        /\ pixmap' \in [Rows -> [Columns -> Pixels]]
        /\ Progress'
    BY <1>1, <1>4, <1>7, <2>1, StoreCarriesOn DEF TypeOK
  <2>3. TypeOK'
    BY <1>1, <1>3, <1>7, <2>1, <2>2 DEF TypeOK, arguments
  <2> QED
    BY <1>1, <1>7, <2>1, <2>2, <2>3 DEF IInv, Position, InLoop, TailBits, arguments, TypeOK
<1> QED
  BY <1>1, <1>6, <1>7 DEF TypeOK

(* The lower half: if four pixels were stored from the upper half, the     *)
(* byte is one of the row's, and if any are left it holds them.            *)
LEMMA LowerStep == IInv /\ ExpandLower => IInv'
<1> SUFFICES ASSUME IInv, ExpandLower PROVE IInv'
  OBVIOUS
<1>1. /\ pc = "lower" /\ i < height /\ lpix = 8 * lbits + 4 /\ lpix + j = width
      /\ expbits' = LowerHalf(Current) /\ i' = i
      /\ TypeOK /\ Progress /\ UNCHANGED arguments
  BY DEF IInv, ExpandLower, Position, InLoop
<1>2. lbits < MaxBytes
  BY <1>1, RasterAssumption DEF TypeOK
<1>3. expbits' \in 0 .. 15
  BY <1>1, <1>2, CurrentByte, HalfDigits
<1>4. \A k \in 0 .. 3 :
        Stored(bytes_per_pixel, Colour(expbits', k)) = PixelAt(i, lpix + k)
  BY <1>1, <1>2, LowerPixels
<1>5. \A r \in Rows, x \in Columns : PixelAt(r, x)' = PixelAt(r, x)
  BY <1>1 DEF arguments, PixelAt
<1>6. CASE j < 4
  <2>1. pc' = "tail" /\ pixmap' = pixmap /\ j' = j /\ lpix' = lpix /\ lbits' = lbits
    BY <1>6 DEF ExpandLower
  <2>2. TypeOK'
    BY <1>1, <1>3, <2>1 DEF TypeOK, arguments
  <2>3. Progress'
    BY <1>1, <1>5, <2>1 DEF Progress, Holds, arguments
  <2>4. TailBits'
    <3>1. \A k \in 0 .. 3 : k < j => lpix + k \in Columns /\ i \in Rows
      BY <1>1, RasterAssumption DEF TypeOK, Columns, Rows
    <3> QED
      BY <1>1, <1>4, <1>5, <1>6, <2>1, <3>1 DEF TailBits, arguments, Colour
  <2> QED
    BY <1>1, <2>1, <2>2, <2>3, <2>4 DEF IInv, Position, InLoop, arguments
<1>7. CASE j >= 4
  <2>1. pc' = "upper" /\ j' = j - 4 /\ StorePixels(expbits', 4) /\ lbits' = lbits + 1
    BY <1>1, <1>7 DEF ExpandLower, TypeOK
  <2>2. /\ lpix' = lpix + 4 /\ lpix' \in 0 .. width
        /\ pixmap' \in [Rows -> [Columns -> Pixels]]
        /\ Progress'
    BY <1>1, <1>4, <1>7, <2>1, StoreCarriesOn DEF TypeOK
  <2>3. TypeOK'
    BY <1>1, <1>2, <1>3, <1>7, <2>1, <2>2, RasterAssumption DEF TypeOK, arguments
  <2> QED
    BY <1>1, <1>7, <2>1, <2>2, <2>3 DEF IInv, Position, InLoop, TailBits, arguments, TypeOK
<1> QED
  BY <1>1, <1>6, <1>7 DEF TypeOK

(* The tail stores what is left.                                           *)
LEMMA TailStep == IInv /\ RowTail => IInv'
<1> SUFFICES ASSUME IInv, RowTail PROVE IInv'
  OBVIOUS
<1>1. /\ pc = "tail" /\ i < height /\ lpix + j = width /\ j < 4
      /\ pc' = "next" /\ i' = i /\ lbits' = lbits /\ expbits' = expbits
      /\ TypeOK /\ Progress /\ UNCHANGED arguments
      /\ \A k \in 0 .. 3 :
           k < j => Stored(bytes_per_pixel, Colour(expbits, k)) = PixelAt(i, lpix + k)
  BY DEF IInv, RowTail, Position, InLoop, TailBits
<1>2. StorePixels(expbits, j) /\ j' = 0
  BY <1>1 DEF RowTail, TypeOK
<1>3. /\ lpix' = lpix + j /\ lpix' \in 0 .. width
      /\ pixmap' \in [Rows -> [Columns -> Pixels]]
      /\ Progress'
  <2>1. j \in 0 .. 4 /\ lpix + j <= width
    BY <1>1 DEF TypeOK
  <2> QED
    BY <1>1, <1>2, <2>1, StoreCarriesOn
<1>4. TypeOK'
  BY <1>1, <1>2, <1>3 DEF TypeOK, arguments
<1> QED
  BY <1>1, <1>2, <1>3, <1>4 DEF IInv, Position, InLoop, TailBits, arguments, TypeOK

(* The steps that store nothing.                                           *)
LEMMA ControlStep == IInv /\ (BitsToPixels \/ RowComplete \/ NextRow) => IInv'
<1> SUFFICES ASSUME IInv, BitsToPixels \/ RowComplete \/ NextRow PROVE IInv'
  OBVIOUS
<1>1. TypeOK /\ Progress /\ UNCHANGED <<arguments, pixmap, expbits>>
  BY DEF IInv, BitsToPixels, RowComplete, NextRow
<1>2. CASE BitsToPixels
  <2>1. TypeOK'
    BY <1>1, <1>2 DEF TypeOK, BitsToPixels, arguments
  <2>2. Progress'
    BY <1>1, <1>2 DEF Progress, Holds, PixelAt, BitsToPixels, arguments
  <2> QED
    BY <1>1, <1>2, <2>1, <2>2
       DEF IInv, BitsToPixels, Position, InLoop, TailBits, TypeOK, arguments
<1>3. CASE RowComplete
  <2>1. TypeOK'
    BY <1>1, <1>3 DEF TypeOK, RowComplete, arguments
  <2>2. Progress'
    BY <1>1, <1>3 DEF Progress, Holds, PixelAt, RowComplete, arguments
  <2> QED
    BY <1>1, <1>3, <2>1, <2>2
       DEF IInv, RowComplete, Position, InLoop, TailBits, TypeOK, arguments
<1>4. CASE NextRow
  <2>1. lpix = width /\ i < height /\ i' = i + 1 /\ lpix' = 0
    BY <1>4 DEF IInv, NextRow, Position
  <2>2. TypeOK'
    <3>1. i' \in 0 .. MaxHeight
      BY <1>1, <2>1, RasterAssumption DEF TypeOK
    <3>2. j' \in 0 .. width /\ lbits' \in 0 .. MaxBytes /\ lpix' \in 0 .. width
      BY <1>1, <1>4, RasterAssumption DEF TypeOK, NextRow
    <3>3. pc' \in {"upper", "returned"}
      BY <1>4 DEF NextRow
    <3> QED
      BY <1>1, <3>1, <3>2, <3>3 DEF TypeOK, arguments
  <2>3. Progress'
    <3> SUFFICES ASSUME NEW r \in Rows
                 PROVE  /\ r < i' => Holds(r, width)'
                        /\ r = i' => Holds(r, lpix)'
                        /\ r > i' => Holds(r, 0)'
      BY DEF Progress
    <3>1. \/ r < i /\ Holds(r, width)
          \/ r = i /\ Holds(r, width)
          \/ r > i /\ Holds(r, 0)
      BY <1>1, <2>1 DEF Progress, Rows, TypeOK
    <3> QED
      BY <1>1, <2>1, <3>1 DEF Holds, PixelAt, arguments, Rows, TypeOK
  <2> QED
    BY <1>1, <1>4, <2>1, <2>2, <2>3
       DEF IInv, NextRow, Position, InLoop, TailBits, TypeOK, arguments
<1> QED
  BY <1>2, <1>3, <1>4

LEMMA IInvInductive == IInv /\ [Next]_vars => IInv'
<1> SUFFICES ASSUME IInv, [Next]_vars PROVE IInv'
  OBVIOUS
<1>1. CASE UNCHANGED vars
  BY <1>1 DEF IInv, vars, arguments, TypeOK, Progress, Holds, PixelAt, Position, InLoop,
              TailBits, Colour
<1>2. CASE Next
  BY <1>2, UpperStep, LowerStep, TailStep, ControlStep DEF Next
<1> QED
  BY <1>1, <1>2

LEMMA SpecIInv == Spec => []IInv
BY InitIInv, IInvInductive, PTL DEF Spec

----------------------------------------------------------------------------
(* The pointers and counters of the loops stay within the row.             *)
THEOREM RasterTypeOK == Spec => []TypeOK
<1>1. IInv => TypeOK
  BY DEF IInv
<1> QED
  BY <1>1, SpecIInv, PTL

(* Whatever the bitmap, the width, the height and the depth, a row that is *)
(* done holds the colours of its bits and nothing beyond them, and the     *)
(* function returns with all rows done.                                    *)
THEOREM RasterRowsExpanded == Spec => []RowsExpanded
<1>1. IInv => RowsExpanded
  BY DEF IInv, Progress, Holds, Position, RowsExpanded
<1> QED
  BY <1>1, SpecIInv, PTL

(* The pointers into the bitmap and into the pixmap stay together, and the *)
(* bytes that are read are bytes of the row.                               *)
THEOREM RasterPointersTogether == Spec => []PointersTogether
<1>1. IInv => PointersTogether
  BY DEF IInv, TypeOK, Position, InLoop, PointersTogether
<1> QED
  BY <1>1, SpecIInv, PTL
=============================================================================
