---------------------------- MODULE MCVmwgfxSaa ----------------------------
(* Values of the constants of VmwgfxSaa for TLC.                           *)
EXTENDS VmwgfxSaa

CONSTANTS t1, t2

(* One colour, and an exclusive or that has Junk as its other value: every *)
(* draw shows, and drawing on stale contents goes wrong.                   *)
MCColors == {0}

MCBlend == [v \in Values \X Values |-> IF v[1] = v[2] THEN Junk ELSE 0]

MCRects == SUBSET Tiles \ {{}}

(* Copies in place; and, with two tiles, a scroll by one.                  *)
MCInPlace == { [t \in R |-> t] : R \in MCRects }
MCOneRect == { {t2} }
MCShift == {[t \in {t2} |-> t1], [t \in Tiles |-> t]}

(* Bound: with two tiles, TLC goes on only from states where what is lost  *)
(* is tile t2 of a pixmap other than the screen's.  The step that loses    *)
(* anything else is still checked, and with one tile nothing is cut.       *)
MCFewLost ==
  \A p \in Pixmaps, t \in Tiles : mem[p][t] = Lost => p # Root /\ t = t2
===========================================================================
