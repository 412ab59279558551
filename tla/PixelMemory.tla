---------------------------- MODULE PixelMemory ----------------------------
(***************************************************************************)
(* What the driver promises an X client: a pixmap is a memory of pixels.   *)
(*                                                                         *)
(* A client draws into pixmaps, copies and composites between them and     *)
(* reads pixels back.  It never sees where the driver keeps the pixels: in *)
(* malloced memory, in a buffer shared with the device (a GMR), in a 3D    *)
(* surface or only in the framebuffer of a CRTC.  This module says nothing *)
(* of those; VmwgfxSaa implements it.                                      *)
(*                                                                         *)
(* The promise has limits, and they are stated here: a VT switch away, a   *)
(* PushPixels and a client that draws straight into a front buffer may     *)
(* lose pixels.  A lost pixel stays lost, and what is copied or blended    *)
(* from it is lost, until something is drawn over it.                      *)
(***************************************************************************)
CONSTANTS
  Pixmaps,      (* the pixmaps of the screen                              *)
  Tiles,        (* the parts of a pixmap that regions tell apart          *)
  Colors,       (* what a client can draw                                 *)
  Junk,         (* contents nobody has drawn                              *)
  Lost,         (* contents of which nothing is promised any more         *)
  NoReply,      (* the last request returned no pixels                    *)
  Blend         (* the raster operation that reads its destination        *)

VARIABLES
  mem,          (* mem[p][t]: what a client must see at tile t of p       *)
  reply,        (* the pixels the last GetImage returned                  *)
  vt            (* the server has the virtual terminal                    *)

Values == Colors \cup {Junk}

Blank == [t \in Tiles |-> Junk]

(* The tiles of a memory of which something is promised.                   *)
Kept(d) == { t \in Tiles : d[t] # Lost }

Forget(d, L) == [t \in Tiles |-> IF t \in L THEN Lost ELSE d[t]]

(* A translation of a copy or composite: a function from the destination   *)
(* tiles it writes to the source tiles it reads.                           *)
ApplyCopy(d, s, m) ==
  [t \in Tiles |-> IF t \in DOMAIN m THEN s[m[t]] ELSE d[t]]

ApplyFill(d, R, c) ==
  [t \in Tiles |-> IF t \in R THEN c ELSE d[t]]

Mixed(a, b) == IF Lost \in {a, b} THEN Lost ELSE Blend[<<a, b>>]

ApplyBlend(d, R, c) ==
  [t \in Tiles |-> IF t \in R THEN Mixed(d[t], c) ELSE d[t]]

ApplyOver(d, s, m) ==
  [t \in Tiles |-> IF t \in DOMAIN m THEN Mixed(d[t], s[m[t]]) ELSE d[t]]

----------------------------------------------------------------------------
Init ==
  /\ mem = [p \in Pixmaps |-> Blank]
  /\ reply = NoReply
  /\ vt = TRUE

(* Every drawing request writes one pixmap.                                *)
Set(p, contents) ==
  /\ mem' = [mem EXCEPT ![p] = contents]
  /\ reply' = NoReply

Fill(p, R, c)  == Set(p, ApplyFill(mem[p], R, c))
Mix(p, R, c)   == Set(p, ApplyBlend(mem[p], R, c))
Copy(s, d, m)  == Set(d, ApplyCopy(mem[d], mem[s], m))
Over(s, d, m)  == Set(d, ApplyOver(mem[d], mem[s], m))
Discard(p)     == Set(p, Blank)

(* PushPixels sets W of its box R and may lose pixels of the rest.         *)
Push(p, R, W, c) ==
  \E L \in SUBSET (R \ W) : Set(p, Forget(ApplyFill(mem[p], W, c), L))

(* A GL client drew c into R of a front buffer the server shares, without  *)
(* the server knowing where: it sees that, or may lose it.                 *)
Share(p, R, c) ==
  \E L \in SUBSET R : Set(p, Forget(ApplyFill(mem[p], R, c), L))

(* A GL client has drawn c into its front buffer s and asks for a copy to d *)
(* that may fail.                                                          *)
Swap(s, d, R, c) ==
  /\ \E copied \in SUBSET {d} :
       mem' = [q \in Pixmaps |-> IF q = s \/ q \in copied
                                THEN ApplyFill(mem[q], R, c) ELSE mem[q]]
  /\ reply' = NoReply

(* GetImage returns the pixels that were drawn.  Junk is whatever the      *)
(* storage held: nothing is promised of a tile nobody has drawn.           *)
Get(p, t) ==
  /\ IF mem[p][t] = Lost THEN reply' \in Values ELSE reply' = mem[p][t]
  /\ UNCHANGED mem

(* Mode sets, block handlers, buffer management and requests that fail     *)
(* change nothing a client can read, and nor does the VT coming back.      *)
Internal ==
  /\ reply' = NoReply
  /\ UNCHANGED mem

(* The VT goes away, and with it the pixels that could not be brought back *)
(* from the device.                                                        *)
Leave ==
  /\ vt /\ vt' = FALSE
  /\ \E L \in [Pixmaps -> SUBSET Tiles] :
       mem' = [p \in Pixmaps |-> Forget(mem[p], L[p])]
  /\ reply' = NoReply

Next ==
  \/ Leave
  \/ Internal /\ (vt => vt')
  \/ /\ \E p \in Pixmaps :
          \/ Discard(p)
          \/ \E t \in Tiles : Get(p, t)
          \/ \E R \in SUBSET Tiles, c \in Colors :
               \/ Fill(p, R, c) \/ Mix(p, R, c) \/ Share(p, R, c)
               \/ \E W \in SUBSET R : Push(p, R, W, c)
          \/ \E q \in Pixmaps, R \in SUBSET Tiles :
               \/ \E m \in [R -> Tiles] : Copy(p, q, m) \/ Over(p, q, m)
               \/ \E c \in Colors : Swap(p, q, R, c)
     /\ UNCHANGED vt

Spec == Init /\ [][Next]_<<mem, reply, vt>>
============================================================================
