-------------------------- MODULE VmwgfxSaa_proofs --------------------------
(***************************************************************************)
(* Every pixmap of the screen stays in order, whatever a request or a mode *)
(* set does and whatever fails in it; and, but for the hazards, it keeps   *)
(* what the clients drew and the code did not give up, so that the driver  *)
(* implements PixelMemory.                                                 *)
(***************************************************************************)
EXTENDS VmwgfxSaa, VmwgfxPixmap_proofs

Screens == [Pixmaps -> GoodPixmap]

(* Requests leave a screen in order, and its scanouts as they were.        *)
Keeps(f, g) ==
  /\ g \in Screens
  /\ \A p \in Pixmaps : g[p].scanout <=> f[p].scanout

(* The inductive invariant: types; every pixmap in order; only the CRTC's  *)
(* entry is scanned out, so that a mode set takes the reference of a       *)
(* pixmap that has none; and none is while the VT is away.                 *)
IInv ==
  /\ pix \in Screens
  /\ \A p \in Pixmaps : pix[p].scanout => p = entry
  /\ ~master => entry = NoPixmap
  /\ entry \in Scanouts \cup {NoPixmap}
  /\ shown \in BOOLEAN
  /\ master \in BOOLEAN
  /\ mem \in [Pixmaps -> Memory]
  /\ reply \in Values \cup {NoReply}

(* The invariant says all of TypeOK, StorageAgrees and RegionsAgree.       *)
LEMMA IInvImplies == IInv => TypeOK /\ StorageAgrees /\ RegionsAgree
<1> SUFFICES ASSUME IInv PROVE TypeOK /\ StorageAgrees /\ RegionsAgree
  OBVIOUS
<1>1. \A p \in Pixmaps : /\ pix[p] \in PixmapRecord /\ StorageOK(pix[p])
                         /\ DirtyOK(pix[p]) /\ PendingOK(pix[p])
  BY DEF IInv, Screens, GoodPixmap, CorePixmap
<1>2. pix \in [Pixmaps -> PixmapRecord]
  BY <1>1 DEF IInv, Screens
<1>3. TypeOK
  BY <1>2 DEF IInv, TypeOK
<1>4. StorageAgrees /\ RegionsAgree
  BY <1>1 DEF StorageAgrees, RegionsAgree
<1> QED
  BY <1>3, <1>4

(* A raster operation makes a value of two values, and loses what is mixed *)
(* with what was lost.                                                     *)
LEMMA MixedType ==
  /\ \A v, w \in Values :
       Client!Mixed(v, w) \in Values /\ Client!Mixed(v, w) = Blend[<<v, w>>]
  /\ \A v, w \in Values \cup {Lost} :
       /\ Client!Mixed(v, w) \in Values \cup {Lost}
       /\ Client!Mixed(v, w) # Lost => v # Lost /\ w # Lost
<1>1. \A v, w \in Values : Blend[<<v, w>>] \in Values
  BY RequestsAssumption
<1> QED
  BY <1>1, LostAssumption DEF Client!Mixed

(* What storage holds, a client may have been promised.                    *)
LEMMA ImageIsMemory == \A a \in Image : a \in Memory
BY DEF Image, Memory

(* What a client draws into a memory is a memory, an image if it was one   *)
(* ...                                                                     *)
LEMMA DrawType ==
  ASSUME NEW a \in Memory, NEW c \in Colors, NEW R
  PROVE  /\ Client!ApplyFill(a, R, c) \in Memory
         /\ Client!ApplyBlend(a, R, c) \in Memory
         /\ a \in Image => /\ Client!ApplyFill(a, R, c) \in Image
                           /\ Client!ApplyBlend(a, R, c) \in Image
<1>1. /\ \A t \in Tiles : a[t] \in Values \cup {Lost}
      /\ a \in Image => \A t \in Tiles : a[t] \in Values
      /\ c \in Values
  BY DEF Image, Memory, Values
<1>2. /\ Client!ApplyFill(a, R, c) \in Memory
      /\ a \in Image => Client!ApplyFill(a, R, c) \in Image
  BY <1>1 DEF Client!ApplyFill, Image, Memory
<1>3. /\ \A t \in Tiles : Client!Mixed(a[t], c) \in Values \cup {Lost}
      /\ a \in Image => \A t \in Tiles : Client!Mixed(a[t], c) \in Values
  BY <1>1, MixedType
<1>4. /\ Client!ApplyBlend(a, R, c) \in Memory
      /\ a \in Image => Client!ApplyBlend(a, R, c) \in Image
  BY <1>1, <1>3 DEF Client!ApplyBlend, Image, Memory
<1> QED
  BY <1>2, <1>4

(* ... and so is what it copies or composites there.                       *)
LEMMA CopyType ==
  ASSUME NEW a \in Memory, NEW b \in Memory, NEW D \in SUBSET Tiles,
         NEW m \in [D -> Tiles]
  PROVE  /\ Client!ApplyCopy(a, b, m) \in Memory
         /\ Client!ApplyOver(a, b, m) \in Memory
         /\ a \in Image /\ b \in Image => /\ Client!ApplyCopy(a, b, m) \in Image
                                          /\ Client!ApplyOver(a, b, m) \in Image
<1>1. /\ \A t \in Tiles : /\ a[t] \in Values \cup {Lost}
                          /\ b[t] \in Values \cup {Lost}
      /\ a \in Image => \A t \in Tiles : a[t] \in Values
      /\ b \in Image => \A t \in Tiles : b[t] \in Values
      /\ \A t \in D : m[t] \in Tiles
      /\ DOMAIN m = D
  BY DEF Image, Memory
<1>2. /\ Client!ApplyCopy(a, b, m) \in Memory
      /\ a \in Image /\ b \in Image => Client!ApplyCopy(a, b, m) \in Image
  BY <1>1 DEF Client!ApplyCopy, Image, Memory
<1>3. /\ \A t \in D : Client!Mixed(a[t], b[m[t]]) \in Values \cup {Lost}
      /\ a \in Image /\ b \in Image =>
           \A t \in D : Client!Mixed(a[t], b[m[t]]) \in Values
  BY <1>1, MixedType
<1>4. /\ Client!ApplyOver(a, b, m) \in Memory
      /\ a \in Image /\ b \in Image => Client!ApplyOver(a, b, m) \in Image
  BY <1>1, <1>3 DEF Client!ApplyOver, Image, Memory
<1> QED
  BY <1>2, <1>4

(* Pixels that are forgotten leave a memory.                               *)
LEMMA ForgetType ==
  ASSUME NEW a \in Memory, NEW L
  PROVE  Client!Forget(a, L) \in Memory
BY DEF Client!Forget, Memory

(* A drawing changes one memory, a combining one memory by another; of     *)
(* images they make images.                                                *)
Drawings ==
  { w \in [Memory -> Memory] : \A a \in Image : w[a] \in Image }

Combinings ==
  { w \in [Memory \X Memory -> Memory] :
      \A a \in Image : \A b \in Image : w[<<a, b>>] \in Image }

(* Fills and blends are drawings.                                          *)
LEMMA DrawingType ==
  ASSUME NEW c \in Colors, NEW R
  PROVE  Filling(R, c) \in Drawings /\ Blending(R, c) \in Drawings
BY DrawType, ImageIsMemory DEF Filling, Blending, Drawings

(* Copies and composites are combinings.                                   *)
LEMMA CombiningType ==
  ASSUME NEW D \in SUBSET Tiles, NEW m \in [D -> Tiles]
  PROVE  Copying(m) \in Combinings /\ Compositing(m) \in Combinings
<1>1. /\ Copying(m) \in [Memory \X Memory -> Memory]
      /\ Compositing(m) \in [Memory \X Memory -> Memory]
  BY CopyType DEF Copying, Compositing
<1>2. ASSUME NEW a \in Image, NEW b \in Image
      PROVE  /\ Copying(m)[<<a, b>>] \in Image
             /\ Compositing(m)[<<a, b>>] \in Image
  <2>1. <<a, b>> \in Memory \X Memory
    BY ImageIsMemory
  <2>2. /\ Copying(m)[<<a, b>>] = Client!ApplyCopy(a, b, m)
        /\ Compositing(m)[<<a, b>>] = Client!ApplyOver(a, b, m)
    BY <2>1 DEF Copying, Compositing
  <2> QED
    BY <2>2, ImageIsMemory, CopyType
<1> QED
  BY <1>1, <1>2 DEF Combinings

(* A drawing makes a memory, of an image an image.                         *)
LEMMA DrawingApplied ==
  ASSUME NEW w \in Drawings
  PROVE  /\ \A a \in Image : w[a] \in Image
         /\ \A a \in Memory : w[a] \in Memory
BY DEF Drawings

(* So does a combining.                                                    *)
LEMMA CombiningApplied ==
  ASSUME NEW w \in Combinings
  PROVE  /\ \A a \in Image : \A b \in Image : w[<<a, b>>] \in Image
         /\ \A a \in Memory : \A b \in Memory : w[<<a, b>>] \in Memory
BY DEF Combinings

(* The initial screen is in order.                                         *)
LEMMA InitIInv == Init => IInv
<1> SUFFICES ASSUME Init PROVE IInv
  OBVIOUS
<1>1. pix \in Screens
  BY NewPixmapGood DEF Init, Screens
<1>2. \A p \in Pixmaps : pix[p].scanout => p = entry
  BY DEF Init, NewPixmap
<1>3. mem \in [Pixmaps -> Memory] /\ reply \in Values \cup {NoReply}
  BY BlankType, ImageIsMemory DEF Init, Client!Init, Client!Blank, Blank
<1> QED
  BY <1>1, <1>2, <1>3 DEF Init, IInv, Client!Init

(* Keeps is a preorder on screens in order ...                             *)
LEMMA KeepsReflexive == ASSUME NEW f \in Screens PROVE Keeps(f, f)
BY DEF Keeps

(* ... steps of a request chain ...                                        *)
LEMMA KeepsTransitive ==
  ASSUME NEW f, NEW g, NEW h, Keeps(f, g), Keeps(g, h)
  PROVE  Keeps(f, h)
BY DEF Keeps

(* ... and a step on one pixmap keeps the screen.                          *)
LEMMA KeepsUpdate ==
  ASSUME NEW f \in Screens, NEW p \in Pixmaps, NEW q \in GoodPixmap,
         q.scanout <=> f[p].scanout
  PROVE  Keeps(f, [f EXCEPT ![p] = q])
BY DEF Keeps, Screens

(* A function that migrates contents keeps the screen.                     *)
LEMMA KeepsMigrate ==
  ASSUME NEW f \in Screens, NEW p \in Pixmaps, NEW q, Migrates(f[p], q)
  PROVE  Keeps(f, [f EXCEPT ![p] = q])
<1>1. f[p] \in GoodPixmap
  BY DEF Screens
<1>2. q \in GoodPixmap
  BY <1>1, MigratesGood
<1>3. q.scanout <=> f[p].scanout
  BY DEF Migrates
<1> QED
  BY <1>2, <1>3, KeepsUpdate

(* A failed outcome leaves the screen it names.                            *)
LEMMA NotDoneIs == ASSUME NEW f PROVE NotDone(f).ok = FALSE /\ NotDone(f).pix = f
BY DEF NotDone

(* What a request leaves when its outcomes keep the screen.                *)
LEMMA DrawsKeeps ==
  ASSUME IInv, NEW p \in Pixmaps, NEW S, NEW contents \in Memory,
         \A o \in S : o.p \in GoodPixmap /\ (o.p.scanout <=> pix[p].scanout),
         Draws(p, S, contents)
  PROVE  IInv'
<1>0. PICK o \in S : \E q \in OperationComplete(o.p, master) :
                      pix' = [pix EXCEPT ![p] = q]
  BY DEF Draws
<1>1. PICK q \in OperationComplete(o.p, master) : pix' = [pix EXCEPT ![p] = q]
  BY <1>0
<1>2. q \in GoodPixmap /\ (q.scanout <=> pix[p].scanout)
  BY <1>1, OperationCompleteGood
<1>3. Keeps(pix, pix')
  BY <1>1, <1>2, KeepsUpdate DEF IInv
<1>4. mem' \in [Pixmaps -> Memory]
  BY DEF Draws, IInv
<1> QED
  BY <1>3, <1>4 DEF Draws, IInv, Keeps

(* The same for a request between two pixmaps.                             *)
LEMMA TransfersKeeps ==
  ASSUME IInv, NEW d \in Pixmaps, NEW S, NEW contents \in Memory,
         \A o \in S : Keeps(pix, o.pix),
         Transfers(d, S, contents)
  PROVE  IInv'
<1>0. PICK o \in S : \E q \in OperationComplete(o.pix[d], master) :
                      pix' = [o.pix EXCEPT ![d] = q]
  BY DEF Transfers
<1>1. PICK q \in OperationComplete(o.pix[d], master) :
        pix' = [o.pix EXCEPT ![d] = q]
  BY <1>0
<1>2. Keeps(pix, o.pix)
  BY <1>1
<1>3. o.pix \in Screens /\ o.pix[d] \in GoodPixmap
  BY <1>2 DEF Keeps, Screens
<1>4. q \in GoodPixmap /\ (q.scanout <=> o.pix[d].scanout)
  BY <1>1, <1>3, OperationCompleteGood
<1>5. Keeps(o.pix, pix')
  BY <1>1, <1>3, <1>4, KeepsUpdate
<1>6. Keeps(pix, pix')
  BY <1>2, <1>5, KeepsTransitive
<1>7. mem' \in [Pixmaps -> Memory]
  BY DEF Transfers, IInv
<1> QED
  BY <1>6, <1>7 DEF Transfers, IInv, Keeps

----------------------------------------------------------------------------
(* Requests that touch one pixmap.                                         *)

(* Software rendering keeps a pixmap in order.                             *)
LEMMA SwRenderedGood ==
  ASSUME NEW p \in GoodPixmap, NEW read, NEW R \in SUBSET Tiles,
         NEW o \in PrepareAccess(p, read), NEW b \in Image,
         NEW q \in DirtySw([o.p EXCEPT !.sw_bits = b], R)
  PROVE  q \in GoodPixmap /\ (q.scanout <=> p.scanout)
<1> DEFINE r == [o.p EXCEPT !.sw_bits = b]
<1>1. Migrates(p, o.p)
  BY PrepareAccessMigrates DEF GoodPixmap
<1>2. o.p \in GoodPixmap /\ (o.p.scanout <=> p.scanout)
  BY <1>1, MigratesGood DEF Migrates
<1>3. r \in GoodPixmap /\ (r.scanout <=> o.p.scanout)
  BY <1>2, BitsGood
<1>4. q \in DirtySw(r, R)
  OBVIOUS
<1> HIDE DEF r
<1> QED
  BY <1>2, <1>3, <1>4, DirtySwGood

(* So does a CPU access that fails.                                        *)
LEMMA AccessGood ==
  ASSUME NEW p \in GoodPixmap, NEW read, NEW o \in PrepareAccess(p, read)
  PROVE  /\ o.p \in GoodPixmap /\ (o.p.scanout <=> p.scanout)
         /\ o.p.sw_bits \in Image
<1>1. Migrates(p, o.p)
  BY PrepareAccessMigrates DEF GoodPixmap
<1>2. o.p \in GoodPixmap
  BY <1>1, MigratesGood
<1> QED
  BY <1>1, <1>2 DEF Migrates, GoodPixmap, CorePixmap, PixmapRecord

(* Rendering in software keeps a pixmap in order, whether or not it can.   *)
LEMMA RenderSwGood ==
  ASSUME NEW p \in GoodPixmap, NEW read, NEW R \in SUBSET Tiles, NEW w \in Drawings,
         NEW o \in RenderSw(p, read, R, w)
  PROVE  o.p \in GoodPixmap /\ (o.p.scanout <=> p.scanout)
<1>1. PICK a \in PrepareAccess(p, read) :
        o \in IF a.ok
              THEN { Done(q) : q \in DirtySw([a.p EXCEPT !.sw_bits = w[a.p.sw_bits]], R) }
              ELSE {a}
  BY DEF RenderSw
<1>2. a.p \in GoodPixmap /\ (a.p.scanout <=> p.scanout) /\ a.p.sw_bits \in Image
  BY AccessGood
<1>3. CASE a.ok
  <2>1. PICK q \in DirtySw([a.p EXCEPT !.sw_bits = w[a.p.sw_bits]], R) : o = Done(q)
    BY <1>1, <1>3
  <2>2. w[a.p.sw_bits] \in Image
    BY <1>2, DrawingApplied
  <2>3. q \in GoodPixmap /\ (q.scanout <=> p.scanout)
    BY <2>1, <2>2, SwRenderedGood
  <2> QED
    BY <2>1, <2>3, DoneIs
<1>4. CASE ~a.ok
  BY <1>1, <1>2, <1>4
<1> QED
  BY <1>3, <1>4

(* Drawing requests keep the invariant.                                    *)
LEMMA DrawingSteps ==
  ASSUME IInv, NEW p \in Pixmaps, NEW R \in Rects, NEW c \in Colors
  PROVE  /\ SwDraw(p, R, c) => IInv'
         /\ SwFill(p, R, c) => IInv'
         /\ \A W \in SUBSET R : PushPixels(p, W, R, c) => IInv'
<1>1. R \in SUBSET Tiles /\ pix[p] \in GoodPixmap
  BY RequestsAssumption DEF IInv, Screens
<1>2. ASSUME NEW read, NEW w \in Drawings, NEW contents \in Memory,
             Draws(p, RenderSw(pix[p], read, R, w), contents)
      PROVE  IInv'
  <2>1. \A o \in RenderSw(pix[p], read, R, w) :
          o.p \in GoodPixmap /\ (o.p.scanout <=> pix[p].scanout)
    BY <1>1, RenderSwGood
  <2> QED
    BY <1>2, <2>1, DrawsKeeps
<1>3. ASSUME NEW W
      PROVE  /\ Filling(W, c) \in Drawings /\ Blending(W, c) \in Drawings
             /\ Filling(W, c)[mem[p]] \in Memory /\ Blending(W, c)[mem[p]] \in Memory
  <2>1. mem[p] \in Memory
    BY DEF IInv
  <2> QED
    BY <2>1, DrawingType, DrawingApplied
<1>4. SwDraw(p, R, c) => IInv'
  BY <1>2, <1>3 DEF SwDraw
<1>5. SwFill(p, R, c) => IInv'
  BY <1>2, <1>3 DEF SwFill
<1>6. ASSUME NEW W \in SUBSET R, PushPixels(p, W, R, c) PROVE IInv'
  BY <1>2, <1>3, <1>6, ForgetType DEF PushPixels
<1> QED
  BY <1>4, <1>5, <1>6

(* So do reading pixels and freeing a pixmap.                              *)
LEMMA GetImageStep ==
  ASSUME IInv, NEW p \in Pixmaps, NEW t \in Tiles, GetImage(p, t)
  PROVE  IInv'
<1>1. PICK o \in PrepareAccess(pix[p], {t}) :
        /\ pix' = [pix EXCEPT ![p] = o.p]
        /\ reply' = IF o.ok THEN o.p.sw_bits[t] ELSE NoReply
  BY DEF GetImage
<1>2. o.p \in GoodPixmap /\ (o.p.scanout <=> pix[p].scanout) /\ o.p.sw_bits \in Image
  BY AccessGood DEF IInv, Screens
<1>3. Keeps(pix, pix')
  BY <1>1, <1>2, KeepsUpdate DEF IInv
<1>4. reply' \in Values \cup {NoReply}
  BY <1>1, <1>2 DEF Image
<1> QED
  BY <1>3, <1>4 DEF GetImage, IInv, Keeps

(* A new pixmap takes the place of the one freed.                          *)
LEMMA DestroyStep ==
  ASSUME IInv, NEW p \in Pixmaps, DestroyPixmap(p)
  PROVE  IInv'
<1>1. pix[p].scanout = FALSE
  BY DEF DestroyPixmap, IInv, Screens, GoodPixmap, CorePixmap, PixmapRecord
<1>2. NewPixmap \in GoodPixmap /\ (NewPixmap.scanout <=> pix[p].scanout)
  BY <1>1, NewPixmapGood DEF NewPixmap
<1>3. Keeps(pix, pix')
  BY <1>2, KeepsUpdate DEF DestroyPixmap, IInv
<1>4. mem' \in [Pixmaps -> Memory] /\ reply' = NoReply
  BY BlankType, ImageIsMemory DEF DestroyPixmap, Client!Discard, Client!Set, Client!Blank, Blank, IInv
<1> QED
  BY <1>3, <1>4 DEF DestroyPixmap, IInv, Keeps

----------------------------------------------------------------------------
(* Requests between pixmaps.                                               *)

(* Device drawing keeps a pixmap in order.                                 *)
LEMMA HwRenderedGood ==
  ASSUME NEW p \in GoodPixmap, NEW R \in SUBSET Tiles, NEW b \in Image,
         NEW q \in DirtyHw([p EXCEPT !.hw_bits = b], R)
  PROVE  q \in GoodPixmap /\ (q.scanout <=> p.scanout)
<1> DEFINE r == [p EXCEPT !.hw_bits = b]
<1>1. r \in GoodPixmap /\ (r.scanout <=> p.scanout)
  BY BitsGood
<1>2. q \in DirtyHw(r, R)
  OBVIOUS
<1> HIDE DEF r
<1> QED
  BY <1>1, <1>2, DirtyHwGood

(* Committing two surfaces keeps the screen.                               *)
LEMMA CommitBothKeeps ==
  ASSUME NEW f \in Screens, NEW s \in Pixmaps, NEW d \in Pixmaps,
         NEW o \in CommitBoth(f, s, d)
  PROVE  Keeps(f, o.pix)
<1>1. CASE o = NotDone(f)
  BY <1>1, NotDoneIs, KeepsReflexive
<1>2. CASE o # NotDone(f)
  <2>1. PICK a \in OnPixmap({[ok |-> TRUE, pix |-> f]}, s, HwCommit) :
          o \in IF a.ok
                THEN { [ok |-> r.ok, pix |-> [a.pix EXCEPT ![d] = r.p]] :
                       r \in HwCommit(a.pix[d]) }
                ELSE {a}
    BY <1>2 DEF CommitBoth, OnPixmap
  <2>2. PICK r \in HwCommit(f[s]) : a = [ok |-> r.ok, pix |-> [f EXCEPT ![s] = r.p]]
    BY <2>1 DEF OnPixmap
  <2>3. f[s] \in CorePixmap
    BY DEF Screens, GoodPixmap
  <2>4. Migrates(f[s], r.p)
    BY <2>2, <2>3, HwCommitMigrates
  <2>5. Keeps(f, a.pix)
    BY <2>2, <2>4, KeepsMigrate
  <2>6. CASE ~a.ok
    BY <2>1, <2>5, <2>6
  <2>7. CASE a.ok
    <3>1. PICK x \in HwCommit(a.pix[d]) :
            o = [ok |-> x.ok, pix |-> [a.pix EXCEPT ![d] = x.p]]
      BY <2>1, <2>7
    <3>2. a.pix \in Screens /\ a.pix[d] \in CorePixmap
      BY <2>5 DEF Keeps, Screens, GoodPixmap
    <3>3. Migrates(a.pix[d], x.p)
      BY <3>1, <3>2, HwCommitMigrates
    <3>4. Keeps(a.pix, o.pix)
      BY <3>1, <3>2, <3>3, KeepsMigrate
    <3> QED
      BY <2>5, <3>4, KeepsTransitive
  <2> QED
    BY <2>6, <2>7
<1> QED
  BY <1>1, <1>2

(* One function that migrates contents, on one pixmap of an outcome.       *)
LEMMA StepKeeps ==
  ASSUME NEW f, NEW a, Keeps(f, a.pix), NEW p \in Pixmaps,
         NEW S, \A r \in S : Migrates(a.pix[p], r.p),
         NEW o, o \in IF a.ok
                      THEN { [ok |-> r.ok, pix |-> [a.pix EXCEPT ![p] = r.p]] : r \in S }
                      ELSE {a}
  PROVE  Keeps(f, o.pix)
<1>1. CASE ~a.ok
  BY <1>1
<1>2. CASE a.ok
  <2>1. PICK x \in S : o = [ok |-> x.ok, pix |-> [a.pix EXCEPT ![p] = x.p]]
    BY <1>2
  <2>2. a.pix \in Screens
    BY DEF Keeps
  <2>3. Keeps(a.pix, o.pix)
    BY <2>1, <2>2, KeepsMigrate
  <2> QED
    BY <2>3, KeepsTransitive
<1> QED
  BY <1>1, <1>2

(* A device drawing step that may fail, on the destination of an outcome.  *)
LEMMA RenderStepKeeps ==
  ASSUME NEW f, NEW a, Keeps(f, a.pix), NEW d \in Pixmaps,
         NEW b \in Image, NEW R \in SUBSET Tiles,
         NEW o \in {NotDone(a.pix)} \cup
                   (IF ~a.ok THEN {}
                    ELSE { [ok |-> TRUE, pix |-> [a.pix EXCEPT ![d] = q]] :
                           q \in DirtyHw([a.pix[d] EXCEPT !.hw_bits = b], R) })
  PROVE  Keeps(f, o.pix)
<1>1. CASE o = NotDone(a.pix)
  BY <1>1, NotDoneIs
<1>2. CASE o # NotDone(a.pix)
  <2>1. PICK q \in DirtyHw([a.pix[d] EXCEPT !.hw_bits = b], R) :
          o = [ok |-> TRUE, pix |-> [a.pix EXCEPT ![d] = q]]
    BY <1>2
  <2>2. a.pix \in Screens /\ a.pix[d] \in GoodPixmap
    BY DEF Keeps, Screens
  <2>3. q \in GoodPixmap /\ (q.scanout <=> a.pix[d].scanout)
    BY <2>1, <2>2, HwRenderedGood
  <2>4. Keeps(a.pix, o.pix)
    BY <2>1, <2>2, <2>3, KeepsUpdate
  <2> QED
    BY <2>4, KeepsTransitive
<1> QED
  BY <1>1, <1>2

(* The surface and the software bits of a pixmap in order are images.      *)
LEMMA GoodBits ==
  ASSUME NEW p \in GoodPixmap
  PROVE  p.sw_bits \in Image /\ p.hw_bits \in Image /\ p.fb_bits \in Image
BY DEF GoodPixmap, CorePixmap, PixmapRecord

(* Drawing by the device, with outcomes that keep the screen, keeps it.    *)
LEMMA RenderHwKeeps ==
  ASSUME NEW f, NEW S, \A a \in S : Keeps(f, a.pix),
         NEW s \in Pixmaps, NEW d \in Pixmaps, NEW R \in SUBSET Tiles,
         NEW w \in Combinings, NEW o \in RenderHw(S, s, d, R, w)
  PROVE  Keeps(f, o.pix)
<1>1. PICK a \in S :
        o \in {NotDone(a.pix)} \cup
              (IF ~a.ok THEN {}
               ELSE { [ok |-> TRUE, pix |-> [a.pix EXCEPT ![d] = q]] :
                      q \in DirtyHw([a.pix[d] EXCEPT
                              !.hw_bits = w[<<a.pix[d].hw_bits, a.pix[s].hw_bits>>]], R) })
  BY DEF RenderHw
<1>2. Keeps(f, a.pix)
  OBVIOUS
<1> DEFINE b == w[<<a.pix[d].hw_bits, a.pix[s].hw_bits>>]
<1>3. b \in Image
  BY <1>2, GoodBits, CombiningApplied DEF Keeps, Screens
<1>4. o \in {NotDone(a.pix)} \cup
            (IF ~a.ok THEN {}
             ELSE { [ok |-> TRUE, pix |-> [a.pix EXCEPT ![d] = q]] :
                    q \in DirtyHw([a.pix[d] EXCEPT !.hw_bits = b], R) })
  BY <1>1
<1> HIDE DEF b
<1> QED
  BY <1>2, <1>3, <1>4, RenderStepKeeps

(* A copy between surfaces keeps the screen.                               *)
LEMMA SurfaceCopyKeeps ==
  ASSUME NEW f \in Screens, NEW s \in Pixmaps, NEW d \in Pixmaps,
         NEW D \in SUBSET Tiles, NEW m \in [D -> Tiles],
         NEW o \in SurfaceCopy(f, s, d, m)
  PROVE  Keeps(f, o.pix)
<1>0. DOMAIN m = D
  OBVIOUS
<1> DEFINE Validate(p) == HwValidate(p, SourceRegion(m))
           S == OnPixmap(CommitBoth(f, s, d), s, Validate)
<1>1. o \in RenderHw(S, s, d, D, Copying(m))
  BY <1>0 DEF SurfaceCopy
<1>2. ASSUME NEW a \in S PROVE Keeps(f, a.pix)
  <2>1. PICK c \in CommitBoth(f, s, d) :
          a \in IF c.ok
                THEN { [ok |-> r.ok, pix |-> [c.pix EXCEPT ![s] = r.p]] :
                       r \in HwValidate(c.pix[s], SourceRegion(m)) }
                ELSE {c}
    BY <1>2 DEF OnPixmap
  <2>2. Keeps(f, c.pix)
    BY CommitBothKeeps
  <2>3. c.pix[s] \in CorePixmap
    BY <2>2 DEF Keeps, Screens, GoodPixmap
  <2>4. \A r \in HwValidate(c.pix[s], SourceRegion(m)) : Migrates(c.pix[s], r.p)
    BY <2>3, HwValidateMigrates
  <2> QED
    BY <2>1, <2>2, <2>4, StepKeeps
<1> HIDE DEF S
<1> QED
  BY <1>1, <1>2, CombiningType, RenderHwKeeps

(* A present onto a tracked framebuffer keeps the screen.                  *)
LEMMA PresentCopyKeeps ==
  ASSUME NEW f \in Screens, NEW s \in Pixmaps, NEW d \in Pixmaps,
         TracksPresents(f[d]),
         NEW D \in SUBSET Tiles, NEW m \in [D -> Tiles],
         NEW o \in PresentCopy(f, s, d, m)
  PROVE  Keeps(f, o.pix)
<1>0. DOMAIN m = D
  OBVIOUS
<1> DEFINE Validate(p) == HwAccelValidate(p, SourceRegion(m))
           S == OnPixmap({[ok |-> TRUE, pix |-> f]}, s, Validate)
           Present(g, q) ==
             { [q EXCEPT !.fb_bits = Client!ApplyCopy(@, g[s].hw_bits, m)] } \cup
             (IF "ignored_present" \in Hazards THEN {q} ELSE {})
<1>1. PICK a \in S :
        o \in {NotDone(a.pix)} \cup
              (IF ~a.ok \/ s = d THEN {}
               ELSE { [ok |-> TRUE, pix |-> [a.pix EXCEPT ![d] = DirtyPresent(r, D)]] :
                      r \in UNION { Present(a.pix, q) : q \in Flush(a.pix[d]) } })
  BY <1>0, ZenonT(60) DEF PresentCopy
<1>2. Keeps(f, a.pix)
  <2>1. PICK c \in {[ok |-> TRUE, pix |-> f]} :
          a \in IF c.ok
                THEN { [ok |-> r.ok, pix |-> [c.pix EXCEPT ![s] = r.p]] :
                       r \in HwAccelValidate(c.pix[s], SourceRegion(m)) }
                ELSE {c}
    BY <1>1 DEF OnPixmap
  <2>2. Keeps(f, c.pix)
    BY <2>1, KeepsReflexive
  <2>3. c.pix[s] \in CorePixmap
    BY <2>2 DEF Keeps, Screens, GoodPixmap
  <2>4. \A r \in HwAccelValidate(c.pix[s], SourceRegion(m)) : Migrates(c.pix[s], r.p)
    BY <2>3, HwAccelValidateMigrates
  <2> QED
    BY <2>1, <2>2, <2>4, StepKeeps
<1> HIDE DEF S
<1>3. CASE o = NotDone(a.pix)
  BY <1>2, <1>3, NotDoneIs
<1>4. CASE o # NotDone(a.pix)
  <2>1. PICK r \in UNION { Present(a.pix, q) : q \in Flush(a.pix[d]) } :
          o = [ok |-> TRUE, pix |-> [a.pix EXCEPT ![d] = DirtyPresent(r, D)]]
    BY <1>1, <1>4
  <2>2. PICK q \in Flush(a.pix[d]) : r \in Present(a.pix, q)
    BY <2>1
  <2>3. a.pix \in Screens /\ a.pix[d] \in GoodPixmap /\ a.pix[s] \in GoodPixmap
    BY <1>2 DEF Keeps, Screens
  <2>4. /\ q \in GoodPixmap /\ q.scanout = a.pix[d].scanout
        /\ q.pending_update = {} /\ q.pending_present = {}
    BY <2>2, <2>3, FlushGood
  <2>5. /\ r \in GoodPixmap /\ (r.scanout <=> q.scanout)
        /\ r.pending_update = {} /\ r.pending_present = {}
    <3> DEFINE b == Client!ApplyCopy(q.fb_bits, a.pix[s].hw_bits, m)
    <3>1. b \in Image
      BY <2>3, <2>4, GoodBits, CopyType, ImageIsMemory
    <3>2. r = [q EXCEPT !.fb_bits = b] \/ r = q
      BY <2>2
    <3> HIDE DEF b
    <3>3. CASE r = q
      BY <2>4, <3>3
    <3>4. CASE r = [q EXCEPT !.fb_bits = b]
      BY <2>4, <3>1, <3>4, BitsGood
    <3> QED
      BY <3>2, <3>3, <3>4
  <2>6. TracksPresents(r)
    BY <1>2, <2>4, <2>5 DEF TracksPresents, Keeps
  <2>7. DirtyPresent(r, D) \in GoodPixmap /\ DirtyPresent(r, D).scanout
    BY <2>5, <2>6, DirtyPresentGood
  <2>8. DirtyPresent(r, D).scanout <=> a.pix[d].scanout
    BY <2>4, <2>5, <2>7, <2>6 DEF TracksPresents
  <2>9. Keeps(a.pix, o.pix)
    BY <2>1, <2>3, <2>7, <2>8, KeepsUpdate
  <2> QED
    BY <1>2, <2>9, KeepsTransitive
<1> QED
  BY <1>3, <1>4

(* So does the driver's copy, whichever way it goes.                       *)
LEMMA HwCopyKeeps ==
  ASSUME NEW f \in Screens, NEW s \in Pixmaps, NEW d \in Pixmaps,
         NEW D \in SUBSET Tiles, NEW m \in [D -> Tiles],
         NEW o \in HwCopy(f, s, d, m)
  PROVE  Keeps(f, o.pix)
<1>1. \/ o = NotDone(f)
      \/ TracksPresents(f[d]) /\ o \in PresentCopy(f, s, d, m)
      \/ o \in SurfaceCopy(f, s, d, m)
  <2>1. CASE ~master
    BY <2>1 DEF HwCopy
  <2>2. CASE master /\ TracksPresents(f[d]) /\ "SURFACE" \in f[s].backing
    BY <2>2 DEF HwCopy
  <2>3. CASE master /\ ~(TracksPresents(f[d]) /\ "SURFACE" \in f[s].backing)
    BY <2>3 DEF HwCopy
  <2> QED
    BY <2>1, <2>2, <2>3
<1>2. CASE o = NotDone(f)
  BY <1>2, NotDoneIs, KeepsReflexive
<1>3. CASE TracksPresents(f[d]) /\ o \in PresentCopy(f, s, d, m)
  BY <1>3, PresentCopyKeeps
<1>4. CASE o \in SurfaceCopy(f, s, d, m)
  BY <1>4, SurfaceCopyKeeps
<1> QED
  BY <1>1, <1>2, <1>3, <1>4

(* Mapping two pixmaps, the source of a request first ...                  *)
AccessBoth(f, s, d, src, read) ==
  LET Read(p)  == PrepareAccess(p, src)
      Write(p) == PrepareAccess(p, read)
  IN OnPixmap(OnPixmap({[ok |-> TRUE, pix |-> f]}, s, Read), d, Write)

(* ... keeps the screen.                                                   *)
LEMMA AccessBothKeeps ==
  ASSUME NEW f \in Screens, NEW s \in Pixmaps, NEW d \in Pixmaps,
         NEW src, NEW read,
         NEW x \in AccessBoth(f, s, d, src, read)
  PROVE  Keeps(f, x.pix)
<1> DEFINE Read(p) == PrepareAccess(p, src)
           S == OnPixmap({[ok |-> TRUE, pix |-> f]}, s, Read)
<1>1. PICK a \in S :
        x \in IF a.ok
              THEN { [ok |-> r.ok, pix |-> [a.pix EXCEPT ![d] = r.p]] :
                     r \in PrepareAccess(a.pix[d], read) }
              ELSE {a}
  BY DEF AccessBoth, OnPixmap
<1>2. Keeps(f, a.pix)
  <2>1. PICK c \in {[ok |-> TRUE, pix |-> f]} :
          a \in IF c.ok
                THEN { [ok |-> r.ok, pix |-> [c.pix EXCEPT ![s] = r.p]] :
                       r \in PrepareAccess(c.pix[s], src) }
                ELSE {c}
    BY <1>1 DEF OnPixmap
  <2>2. Keeps(f, c.pix)
    BY <2>1, KeepsReflexive
  <2>3. c.pix[s] \in CorePixmap
    BY <2>2 DEF Keeps, Screens, GoodPixmap
  <2>4. \A r \in PrepareAccess(c.pix[s], src) : Migrates(c.pix[s], r.p)
    BY <2>3, PrepareAccessMigrates
  <2> QED
    BY <2>1, <2>2, <2>4, StepKeeps
<1> HIDE DEF S
<1>3. a.pix[d] \in CorePixmap
  BY <1>2 DEF Keeps, Screens, GoodPixmap
<1>4. \A r \in PrepareAccess(a.pix[d], read) : Migrates(a.pix[d], r.p)
  BY <1>3, PrepareAccessMigrates
<1> QED
  BY <1>1, <1>2, <1>4, StepKeeps

(* A software drawing step, on the destination of an outcome.              *)
LEMMA SwStepKeeps ==
  ASSUME NEW f, NEW a, Keeps(f, a.pix), NEW d \in Pixmaps,
         NEW b \in Image, NEW R \in SUBSET Tiles,
         NEW q \in DirtySw([a.pix[d] EXCEPT !.sw_bits = b], R)
  PROVE  Keeps(f, [a.pix EXCEPT ![d] = q])
<1> DEFINE r == [a.pix[d] EXCEPT !.sw_bits = b]
<1>1. a.pix \in Screens /\ a.pix[d] \in GoodPixmap
  BY DEF Keeps, Screens
<1>2. r \in GoodPixmap /\ (r.scanout <=> a.pix[d].scanout)
  BY <1>1, BitsGood
<1>3. q \in DirtySw(r, R)
  OBVIOUS
<1> HIDE DEF r
<1>4. q \in GoodPixmap /\ (q.scanout <=> a.pix[d].scanout)
  BY <1>2, <1>3, DirtySwGood
<1>5. Keeps(a.pix, [a.pix EXCEPT ![d] = q])
  BY <1>1, <1>4, KeepsUpdate
<1> QED
  BY <1>5, KeepsTransitive

(* A transfer in software keeps the screen.                                *)
LEMMA TransferSwKeeps ==
  ASSUME NEW f \in Screens, NEW s \in Pixmaps, NEW d \in Pixmaps, NEW read, NEW src,
         NEW R \in SUBSET Tiles, NEW w \in Combinings,
         NEW o \in TransferSw(f, s, d, read, R, src, w)
  PROVE  Keeps(f, o.pix)
<1> DEFINE S == AccessBoth(f, s, d, src, read)
<1>1. PICK a \in S :
        o \in IF ~a.ok THEN {a}
              ELSE { [ok |-> TRUE, pix |-> [a.pix EXCEPT ![d] = q]] :
                     q \in DirtySw([a.pix[d] EXCEPT
                             !.sw_bits = w[<<a.pix[d].sw_bits, a.pix[s].sw_bits>>]], R) }
  BY DEF TransferSw, AccessBoth
<1>2. Keeps(f, a.pix)
  BY <1>1, AccessBothKeeps
<1> HIDE DEF S
<1>3. CASE ~a.ok
  BY <1>1, <1>2, <1>3
<1>4. CASE a.ok
  <2> DEFINE b == w[<<a.pix[d].sw_bits, a.pix[s].sw_bits>>]
  <2>1. PICK q \in DirtySw([a.pix[d] EXCEPT !.sw_bits = b], R) :
          o = [ok |-> TRUE, pix |-> [a.pix EXCEPT ![d] = q]]
    BY <1>1, <1>4
  <2>2. b \in Image
    BY <1>2, GoodBits, CombiningApplied DEF Keeps, Screens
  <2> HIDE DEF b
  <2>3. Keeps(f, [a.pix EXCEPT ![d] = q])
    BY <1>2, <2>1, <2>2, SwStepKeeps
  <2> QED
    BY <2>1, <2>3
<1> QED
  BY <1>3, <1>4

(* So does a software copy.                                                *)
LEMMA SwCopyKeeps ==
  ASSUME NEW f \in Screens, NEW s \in Pixmaps, NEW d \in Pixmaps, NEW read,
         NEW D \in SUBSET Tiles, NEW m \in [D -> Tiles],
         NEW o \in SwCopy(f, s, d, m, read)
  PROVE  Keeps(f, o.pix)
<1>1. DOMAIN m = D
  OBVIOUS
<1>2. o \in TransferSw(f, s, d, read, D, SourceRegion(m), Copying(m))
  BY <1>1 DEF SwCopy
<1> QED
  BY <1>2, CombiningType, TransferSwKeeps

(* A copy that falls back to software after the driver's has failed.       *)
LEMMA CopyNToNKeeps ==
  ASSUME NEW f \in Screens, NEW s \in Pixmaps, NEW d \in Pixmaps, NEW read,
         NEW D \in SUBSET Tiles, NEW m \in [D -> Tiles],
         NEW o \in CopyNToN(f, s, d, m, read)
  PROVE  Keeps(f, o.pix)
<1>1. PICK a \in HwCopy(f, s, d, m) :
        o \in IF a.ok THEN {a} ELSE SwCopy(a.pix, s, d, m, read)
  BY DEF CopyNToN
<1>2. Keeps(f, a.pix) /\ a.pix \in Screens
  BY HwCopyKeeps DEF Keeps
<1>3. CASE a.ok
  BY <1>1, <1>2, <1>3
<1>4. CASE ~a.ok
  <2>1. Keeps(a.pix, o.pix)
    BY <1>1, <1>2, <1>4, SwCopyKeeps
  <2> QED
    BY <1>2, <2>1, KeepsTransitive
<1> QED
  BY <1>3, <1>4

(* A translation names tiles of both pixmaps.                              *)
LEMMA TranslationTypes ==
  ASSUME NEW m \in Translations
  PROVE  \E D \in SUBSET Tiles : m \in [D -> Tiles]
BY RequestsAssumption

(* CopyArea keeps the invariant.                                           *)
LEMMA CopyAreaStep ==
  ASSUME IInv, NEW s \in Pixmaps, NEW d \in Pixmaps, NEW m \in Translations,
         CopyArea(s, d, m)
  PROVE  IInv'
<1>1. PICK D \in SUBSET Tiles : m \in [D -> Tiles]
  BY TranslationTypes
<1>2. \A o \in CopyNToN(pix, s, d, m, {}) : Keeps(pix, o.pix)
  BY <1>1, CopyNToNKeeps DEF IInv
<1>3. Copying(m)[<<mem[d], mem[s]>>] \in Memory
  BY <1>1, CombiningType, CombiningApplied DEF IInv
<1>4. Transfers(d, CopyNToN(pix, s, d, m, {}), Copying(m)[<<mem[d], mem[s]>>])
  BY DEF CopyArea
<1> QED
  BY <1>2, <1>3, <1>4, TransfersKeeps

(* What vmwgfx_composite_prepare has when it has migrated both pixmaps ... *)
MigrateBoth(f, s, d) ==
  LET Validate(p) == HwValidate(p, Tiles)
  IN OnPixmap(OnPixmap(CommitBoth(f, s, d), s, Validate), d, Validate)

(* ... is a screen that was kept.                                          *)
LEMMA MigrateBothKeeps ==
  ASSUME NEW f \in Screens, NEW s \in Pixmaps, NEW d \in Pixmaps,
         NEW x \in MigrateBoth(f, s, d)
  PROVE  Keeps(f, x.pix)
<1> DEFINE Validate(p) == HwValidate(p, Tiles)
           S == OnPixmap(CommitBoth(f, s, d), s, Validate)
<1>1. PICK a \in S :
        x \in IF a.ok
              THEN { [ok |-> r.ok, pix |-> [a.pix EXCEPT ![d] = r.p]] :
                     r \in HwValidate(a.pix[d], Tiles) }
              ELSE {a}
  BY DEF MigrateBoth, OnPixmap
<1>2. Keeps(f, a.pix)
  <2>1. PICK c \in CommitBoth(f, s, d) :
          a \in IF c.ok
                THEN { [ok |-> r.ok, pix |-> [c.pix EXCEPT ![s] = r.p]] :
                       r \in HwValidate(c.pix[s], Tiles) }
                ELSE {c}
    BY <1>1 DEF OnPixmap
  <2>2. Keeps(f, c.pix)
    BY CommitBothKeeps
  <2>3. c.pix[s] \in CorePixmap
    BY <2>2 DEF Keeps, Screens, GoodPixmap
  <2>4. \A r \in HwValidate(c.pix[s], Tiles) : Migrates(c.pix[s], r.p)
    BY <2>3, HwValidateMigrates
  <2> QED
    BY <2>1, <2>2, <2>4, StepKeeps
<1> HIDE DEF S
<1>3. a.pix[d] \in CorePixmap
  BY <1>2 DEF Keeps, Screens, GoodPixmap
<1>4. \A r \in HwValidate(a.pix[d], Tiles) : Migrates(a.pix[d], r.p)
  BY <1>3, HwValidateMigrates
<1> QED
  BY <1>1, <1>2, <1>4, StepKeeps

(* A composite by the device keeps the screen.                             *)
LEMMA HwCompositeKeeps ==
  ASSUME NEW f \in Screens, NEW s \in Pixmaps, NEW d \in Pixmaps,
         NEW D \in SUBSET Tiles, NEW m \in [D -> Tiles],
         NEW reads, NEW w \in Combinings,
         NEW o \in HwComposite(f, s, d, m, reads, w)
  PROVE  Keeps(f, o.pix)
<1>1. DOMAIN m = D
  OBVIOUS
<1> DEFINE S == MigrateBoth(f, s, d)
<1>2. o \in {NotDone(f)} \cup RenderHw(S, s, d, D, w)
  BY <1>1 DEF HwComposite, MigrateBoth
<1>3. \A a \in S : Keeps(f, a.pix)
  BY MigrateBothKeeps
<1> HIDE DEF S
<1>4. CASE o = NotDone(f)
  BY <1>4, NotDoneIs, KeepsReflexive
<1>5. CASE o \in RenderHw(S, s, d, D, w)
  BY <1>3, <1>5, RenderHwKeeps
<1> QED
  BY <1>2, <1>4, <1>5

(* CompositeOver keeps the invariant.                                      *)
LEMMA CompositeOverStep ==
  ASSUME IInv, NEW s \in Pixmaps, NEW d \in Pixmaps, NEW m \in Translations,
         CompositeOver(s, d, m)
  PROVE  IInv'
<1>1. PICK D \in SUBSET Tiles : m \in [D -> Tiles]
  BY TranslationTypes
<1>0. DOMAIN m = D
  BY <1>1
<1> DEFINE w == Compositing(m)
           H == HwComposite(pix, s, d, m, TRUE, w)
           T(f) == TransferSw(f, s, d, D, D, SourceRegion(m), w)
           S == UNION { IF o.ok THEN {o} ELSE T(o.pix) : o \in H }
<1>2. w \in Combinings
  BY <1>1, CombiningType
<1>3. ASSUME NEW h \in H PROVE Keeps(pix, h.pix)
  BY <1>1, <1>2, HwCompositeKeeps DEF IInv
<1>4. ASSUME NEW f \in Screens, NEW o \in T(f) PROVE Keeps(f, o.pix)
  BY <1>2, <1>4, TransferSwKeeps
<1>5. Transfers(d, S, w[<<mem[d], mem[s]>>]) /\ w[<<mem[d], mem[s]>>] \in Memory
  BY <1>0, <1>2, CombiningApplied DEF CompositeOver, IInv
<1> HIDE DEF H, T, w
<1>6. ASSUME NEW o \in S PROVE Keeps(pix, o.pix)
  <2>1. PICK h \in H : o \in IF h.ok THEN {h} ELSE T(h.pix)
    OBVIOUS
  <2>2. Keeps(pix, h.pix) /\ h.pix \in Screens
    BY <1>3 DEF Keeps
  <2>3. CASE h.ok
    BY <2>1, <2>2, <2>3
  <2>4. CASE ~h.ok
    BY <1>4, <2>1, <2>2, <2>4, KeepsTransitive
  <2> QED
    BY <2>3, <2>4
<1> HIDE DEF S
<1> QED
  BY <1>5, <1>6, TransfersKeeps

(* CompositeSrc keeps the invariant.                                       *)
LEMMA CompositeSrcStep ==
  ASSUME IInv, NEW s \in Pixmaps, NEW d \in Pixmaps, NEW m \in Translations,
         CompositeSrc(s, d, m)
  PROVE  IInv'
<1>1. PICK D \in SUBSET Tiles : m \in [D -> Tiles]
  BY TranslationTypes
<1> DEFINE w == Copying(m)
           H(f) == HwComposite(f, s, d, m, FALSE, w)
           C(f) == UNION { IF o.ok THEN {o} ELSE SwCopy(o.pix, s, d, m, {}) :
                           o \in H(f) }
           S == UNION { IF o.ok THEN {o} ELSE C(o.pix) : o \in HwCopy(pix, s, d, m) }
<1>2. ASSUME NEW f \in Screens, NEW h \in H(f) PROVE Keeps(f, h.pix)
  BY <1>1, <1>2, CombiningType, HwCompositeKeeps
<1>3. Transfers(d, S, w[<<mem[d], mem[s]>>])
  BY DEF CompositeSrc
<1>4. w[<<mem[d], mem[s]>>] \in Memory
  BY <1>1, CombiningType, CombiningApplied DEF IInv
<1> HIDE DEF H, w
<1>5. ASSUME NEW f \in Screens, NEW o \in C(f) PROVE Keeps(f, o.pix)
  <2>1. PICK h \in H(f) : o \in IF h.ok THEN {h} ELSE SwCopy(h.pix, s, d, m, {})
    BY <1>5
  <2>2. Keeps(f, h.pix) /\ h.pix \in Screens
    BY <1>2 DEF Keeps
  <2>3. CASE h.ok
    BY <2>1, <2>2, <2>3
  <2>4. CASE ~h.ok
    <3>1. Keeps(h.pix, o.pix)
      BY <1>1, <2>1, <2>2, <2>4, SwCopyKeeps
    <3> QED
      BY <2>2, <3>1, KeepsTransitive
  <2> QED
    BY <2>3, <2>4
<1> HIDE DEF C
<1>6. ASSUME NEW o \in S PROVE Keeps(pix, o.pix)
  <2>1. PICK h \in HwCopy(pix, s, d, m) : o \in IF h.ok THEN {h} ELSE C(h.pix)
    OBVIOUS
  <2>2. Keeps(pix, h.pix) /\ h.pix \in Screens
    BY <1>1, HwCopyKeeps DEF Keeps, IInv
  <2>3. CASE h.ok
    BY <2>1, <2>2, <2>3
  <2>4. CASE ~h.ok
    BY <1>5, <2>1, <2>2, <2>4, KeepsTransitive
  <2> QED
    BY <2>3, <2>4
<1> HIDE DEF S
<1> QED
  BY <1>3, <1>4, <1>6, TransfersKeeps

----------------------------------------------------------------------------
(* Mode setting and the virtual terminal.                                  *)

(* A flush keeps the invariant.                                            *)
LEMMA BlockHandlerStep == ASSUME IInv, BlockHandler PROVE IInv'
<1>1. PICK q \in Flush(pix[entry]) : pix' = [pix EXCEPT ![entry] = q]
  BY DEF BlockHandler
<1>2. entry \in Pixmaps /\ pix[entry] \in GoodPixmap
  BY ScreenAssumption DEF BlockHandler, IInv, Screens
<1>3. Keeps(pix, pix')
  BY <1>1, <1>2, FlushGood, KeepsUpdate DEF IInv
<1> QED
  BY <1>3 DEF BlockHandler, Client!Internal, IInv, Keeps

(* The screen of a CRTC that shows e, or nothing.                          *)
ShowsOnly(f, e) == f \in Screens /\ \A p \in Pixmaps : f[p].scanout => p = e

(* Giving up the CRTC's pixmap leaves no scanout.                          *)
LEMMA UnrefShowsNothing ==
  ASSUME NEW f, NEW e \in Scanouts, ShowsOnly(f, e), NEW g \in Unref(f, e)
  PROVE  ShowsOnly(g, NoPixmap)
<1>1. e \in Pixmaps /\ f[e] \in GoodPixmap
  BY ScreenAssumption DEF ShowsOnly, Screens
<1>2. PICK q \in ScanoutUnref(f[e]) : g = [f EXCEPT ![e] = q]
  BY DEF Unref
<1>3. q \in GoodPixmap /\ ~q.scanout
  BY <1>1, <1>2, ScanoutUnrefGood
<1> QED
  BY <1>1, <1>2, <1>3 DEF ShowsOnly, Screens

(* A mode set leaves the new pixmap as the only scanout, if any.           *)
LEMMA SetModeShows ==
  ASSUME NEW f, NEW e \in Scanouts \cup {NoPixmap}, ShowsOnly(f, e),
         NEW q \in Scanouts, NEW o \in SetMode(f, e, q)
  PROVE  ShowsOnly(o.pix, q)
<1> DEFINE RefStep(p) == IF e # q THEN ScanoutRef(p)
                         ELSE IF p.scanout THEN {Done(p)} ELSE {Failed(p)}
           start == IF e \in {q, NoPixmap} THEN {f} ELSE Unref(f, e)
           S == OnPixmap({[ok |-> TRUE, pix |-> g] : g \in start}, q, RefStep)
<1>1. PICK a \in S :
        o \in {NotDone(a.pix)} \cup
              (IF a.ok THEN {[ok |-> TRUE,
                              pix |-> [a.pix EXCEPT ![q] = ScanoutRefresh(a.pix[q])]]}
               ELSE {})
  BY DEF SetMode
<1>2. PICK c \in {[ok |-> TRUE, pix |-> g] : g \in start} :
        a \in IF c.ok
              THEN { [ok |-> r.ok, pix |-> [c.pix EXCEPT ![q] = r.p]] :
                     r \in RefStep(c.pix[q]) }
              ELSE {c}
  BY <1>1 DEF OnPixmap
<1>3. PICK g \in start : c = [ok |-> TRUE, pix |-> g]
  BY <1>2
<1>4. q \in Pixmaps /\ q # NoPixmap
  BY ScreenAssumption
<1>5. IF e = q THEN ShowsOnly(g, q) ELSE ShowsOnly(g, NoPixmap)
  <2>1. CASE e \in {q, NoPixmap}
    BY <1>3, <2>1
  <2>2. CASE e \notin {q, NoPixmap}
    <3>1. g \in Unref(f, e) /\ e \in Scanouts
      BY <1>3, <2>2
    <3> QED
      BY <2>2, <3>1, UnrefShowsNothing
  <2> QED
    BY <2>1, <2>2
<1>6. g \in Screens /\ g[q] \in GoodPixmap
  BY <1>4, <1>5 DEF ShowsOnly, Screens
<1>7. PICK r \in RefStep(g[q]) : a = [ok |-> r.ok, pix |-> [g EXCEPT ![q] = r.p]]
  BY <1>2, <1>3
<1>8. r.p \in GoodPixmap /\ (r.ok => r.p.scanout)
  <2>1. CASE e # q
    <3>1. ~g[q].scanout
      BY <1>4, <1>5, <2>1 DEF ShowsOnly
    <3>2. r \in ScanoutRef(g[q])
      BY <1>7, <2>1
    <3> QED
      BY <1>6, <3>1, <3>2, ScanoutRefGood
  <2>2. CASE e = q /\ g[q].scanout
    BY <1>6, <1>7, <2>2, DoneIs
  <2>3. CASE e = q /\ ~g[q].scanout
    BY <1>6, <1>7, <2>3, FailedIs
  <2> QED
    BY <2>1, <2>2, <2>3
<1> HIDE DEF S, start, RefStep
<1>9. ShowsOnly(a.pix, q)
  BY <1>4, <1>5, <1>7, <1>8, ScreenAssumption DEF ShowsOnly, Screens
<1>10. CASE o = NotDone(a.pix)
  BY <1>9, <1>10, NotDoneIs
<1>11. CASE o # NotDone(a.pix)
  <2>1. a.ok /\ o.pix = [a.pix EXCEPT ![q] = ScanoutRefresh(a.pix[q])]
    BY <1>1, <1>11
  <2>2. a.pix[q] \in GoodPixmap /\ a.pix[q].scanout
    BY <1>4, <1>6, <1>7, <1>8, <2>1 DEF Screens
  <2>3. ScanoutRefresh(a.pix[q]) \in GoodPixmap
    BY <2>2, ScanoutRefreshGood
  <2> QED
    BY <1>4, <1>9, <2>1, <2>3 DEF ShowsOnly, Screens
<1> QED
  BY <1>10, <1>11

(* Mode sets and turning the CRTC off keep the invariant.                  *)
LEMMA SetModeStep ==
  ASSUME IInv, NEW q \in Scanouts, SetModeMajor(q)
  PROVE  IInv'
<1>1. PICK o \in SetMode(pix, entry, q) :
        pix' = o.pix /\ shown' = (o.ok \/ (shown /\ entry = q))
  BY DEF SetModeMajor
<1>2. ShowsOnly(pix, entry)
  BY DEF IInv, ShowsOnly
<1>3. ShowsOnly(pix', q)
  BY <1>1, <1>2, SetModeShows DEF IInv
<1>4. shown' \in BOOLEAN
  BY <1>1
<1> QED
  BY <1>3, <1>4 DEF SetModeMajor, Client!Internal, IInv, ShowsOnly

(* Turning the CRTC off.                                                   *)
LEMMA CrtcOffStep == ASSUME IInv, CrtcOff PROVE IInv'
<1>1. ShowsOnly(pix, entry) /\ entry \in Scanouts
  BY DEF IInv, ShowsOnly, CrtcOff
<1>2. ShowsOnly(pix', NoPixmap)
  BY <1>1, UnrefShowsNothing DEF CrtcOff
<1> QED
  BY <1>2 DEF CrtcOff, Client!Internal, IInv, ShowsOnly

(* One choice for each pixmap is a screen that was kept.                   *)
LEMMA ChoicesKeep ==
  ASSUME NEW f \in Screens, NEW S,
         \A p \in Pixmaps : \A q \in S[p] :
           q \in GoodPixmap /\ (q.scanout <=> f[p].scanout),
         NEW g \in Choices(S)
  PROVE  Keeps(f, g)
<1>1. /\ g \in [Pixmaps -> UNION { S[p] : p \in Pixmaps }]
      /\ \A p \in Pixmaps : g[p] \in S[p]
  BY DEF Choices
<1>2. \A p \in Pixmaps : g[p] \in GoodPixmap /\ (g[p].scanout <=> f[p].scanout)
  BY <1>1
<1>3. g \in Screens
  BY <1>1, <1>2 DEF Screens
<1> QED
  BY <1>2, <1>3 DEF Keeps

(* Dropping master forgets stale software, whether or not the download     *)
(* worked.                                                                 *)
LEMMA DropMasterGood ==
  ASSUME NEW p \in GoodPixmap, NEW o \in DropMaster(p)
  PROVE  o.p \in GoodPixmap /\ (o.p.scanout <=> p.scanout)
<1>1. CASE ~p.hw
  BY <1>1 DEF DropMaster
<1>2. CASE p.hw
  <2>1. PICK a \in DownloadFromHw(p, p.dirty_hw) :
          o = [lost |-> a.p.dirty_hw, p |-> [a.p EXCEPT !.dirty_hw = {}]]
    BY <1>2 DEF DropMaster
  <2>2. Migrates(p, a.p) /\ a.p \in CorePixmap
    BY DownloadFromHwMigrates, MigratesInOrder DEF GoodPixmap
  <2>3. o.p = DropHw(a.p, Tiles)
    BY <2>1, <2>2 DEF DropHw, CorePixmap, PixmapRecord
  <2>4. Migrates(a.p, o.p)
    BY <2>2, <2>3, ShrinkMigrates
  <2>5. Migrates(p, o.p)
    BY <2>2, <2>4, MigratesTransitive
  <2> QED
    BY <2>5, MigratesGood DEF Migrates
<1> QED
  BY <1>1, <1>2

(* Switching the VT away keeps the invariant.                              *)
LEMMA LeaveVTStep == ASSUME IInv, LeaveVT PROVE IInv'
<1>1. PICK f \in (IF entry = NoPixmap THEN {pix} ELSE Unref(pix, entry)) :
        \E g \in Choices([p \in Pixmaps |-> DropMaster(f[p])]) :
          /\ pix' = [p \in Pixmaps |-> g[p].p]
          /\ mem' = [p \in Pixmaps |-> Client!Forget(mem[p], g[p].lost)]
  BY DEF LeaveVT
<1>2. PICK g \in Choices([p \in Pixmaps |-> DropMaster(f[p])]) :
        /\ pix' = [p \in Pixmaps |-> g[p].p]
        /\ mem' = [p \in Pixmaps |-> Client!Forget(mem[p], g[p].lost)]
  BY <1>1
<1>3. ShowsOnly(f, NoPixmap)
  <2>1. ShowsOnly(pix, entry)
    BY DEF IInv, ShowsOnly
  <2>2. CASE entry = NoPixmap
    BY <1>1, <2>1, <2>2
  <2>3. CASE entry # NoPixmap
    BY <1>1, <2>1, <2>3, UnrefShowsNothing DEF IInv
  <2> QED
    BY <2>2, <2>3
<1>4. f \in Screens
  BY <1>3 DEF ShowsOnly
<1>5. \A p \in Pixmaps : g[p] \in DropMaster(f[p])
  BY <1>2 DEF Choices
<1>6. \A p \in Pixmaps : pix'[p] \in GoodPixmap /\ (pix'[p].scanout <=> f[p].scanout)
  BY <1>2, <1>4, <1>5, DropMasterGood DEF Screens
<1>7. Keeps(f, pix')
  BY <1>2, <1>6 DEF Keeps, Screens
<1>8. mem' \in [Pixmaps -> Memory]
  BY <1>2, ForgetType DEF IInv
<1> QED
  BY <1>3, <1>7, <1>8 DEF LeaveVT, IInv, Keeps, ShowsOnly

(* Flushing a front buffer keeps its pixmap in order.                      *)
LEMMA FlushDri2Good ==
  ASSUME NEW p \in GoodPixmap, NEW q \in FlushDri2(p)
  PROVE  q \in GoodPixmap /\ (q.scanout <=> p.scanout)
<1>1. CASE q = p
  BY <1>1
<1>2. CASE q # p
  <2>1. PICK o \in FlushShadow(p) :
          q = IF o.ok THEN [o.p EXCEPT !.sync = FALSE] ELSE o.p
    BY <1>2 DEF FlushDri2
  <2>2. Migrates(p, o.p)
    BY FlushShadowMigrates DEF GoodPixmap
  <2>3. o.p \in GoodPixmap /\ (o.p.scanout <=> p.scanout)
    BY <2>2, MigratesGood DEF Migrates
  <2>4. CASE q = o.p
    BY <2>3, <2>4
  <2>5. CASE q = [o.p EXCEPT !.sync = FALSE]
    BY <2>3, <2>5, SyncGood
  <2> QED
    BY <2>1, <2>4, <2>5
<1> QED
  BY <1>1, <1>2

(* Every front buffer on the list at once.                                 *)
LEMMA FlushAllKeeps ==
  ASSUME NEW f \in Screens,
         NEW g \in Choices([p \in Pixmaps |-> FlushDri2(f[p])])
  PROVE  Keeps(f, g)
<1> DEFINE S == [p \in Pixmaps |-> FlushDri2(f[p])]
<1>1. \A p \in Pixmaps : \A q \in S[p] :
        q \in GoodPixmap /\ (q.scanout <=> f[p].scanout)
  BY FlushDri2Good DEF Screens
<1>2. g \in Choices(S)
  OBVIOUS
<1> HIDE DEF S
<1> QED
  BY <1>1, <1>2, ChoicesKeep

(* Switching the VT back keeps the invariant: no CRTC has a pixmap while   *)
(* the VT is away.                                                         *)
LEMMA EnterVTStep == ASSUME IInv, EnterVT PROVE IInv'
<1>1. PICK f \in Choices([p \in Pixmaps |-> FlushDri2(pix[p])]) :
        \E o \in SetMode(f, NoPixmap, Root) : o.ok /\ pix' = o.pix
  BY DEF EnterVT
<1>2. Keeps(pix, f)
  BY <1>1, FlushAllKeeps DEF IInv
<1>3. ShowsOnly(f, NoPixmap)
  BY <1>2 DEF Keeps, EnterVT, IInv, ShowsOnly
<1>4. ShowsOnly(pix', Root)
  BY <1>1, <1>3, SetModeShows, ScreenAssumption
<1> QED
  BY <1>4, ScreenAssumption DEF EnterVT, Client!Internal, IInv, ShowsOnly

----------------------------------------------------------------------------
(* DRI2.                                                                   *)

(* Counting front buffers leaves a pixmap as it was ...                    *)
SameFronts(p, q) ==
  /\ q \in PixmapRecord
  /\ q.malloc = p.malloc /\ q.gmr = p.gmr /\ q.hw = p.hw
  /\ q.backing = p.backing /\ q.damage = p.damage /\ q.scanout = p.scanout
  /\ q.dirty_shadow = p.dirty_shadow /\ q.dirty_hw = p.dirty_hw
  /\ q.dirty_present = p.dirty_present
  /\ q.pending_update = p.pending_update
  /\ q.pending_present = p.pending_present /\ q.unshown = p.unshown

(* ... and in order.                                                       *)
LEMMA SameFrontsGood ==
  ASSUME NEW p \in GoodPixmap, NEW q, SameFronts(p, q)
  PROVE  q \in GoodPixmap /\ (q.scanout <=> p.scanout)
BY DEF SameFronts, GoodPixmap, CorePixmap, StorageOK, DirtyOK, PendingOK

(* Opening a front buffer, whether or not its surface can be made valid.   *)
LEMMA Dri2CreateStep ==
  ASSUME IInv, NEW p \in Pixmaps, Dri2CreateBuffer(p)
  PROVE  IInv'
<1>1. PICK o \in HwAccelValidate(pix[p], Tiles) :
        pix' = [pix EXCEPT ![p] = IF o.ok THEN [o.p EXCEPT !.fronts = @ + 1] ELSE o.p]
  BY DEF Dri2CreateBuffer
<1>2. pix[p] \in GoodPixmap /\ pix[p].fronts < MaxFronts
  BY DEF IInv, Screens, Dri2CreateBuffer
<1>3. Migrates(pix[p], o.p)
  BY <1>1, <1>2, HwAccelValidateMigrates DEF GoodPixmap
<1>4. o.p \in GoodPixmap /\ (o.p.scanout <=> pix[p].scanout)
      /\ o.p.fronts = pix[p].fronts
  BY <1>2, <1>3, MigratesGood DEF Migrates
<1> DEFINE q == IF o.ok THEN [o.p EXCEPT !.fronts = @ + 1] ELSE o.p
<1>5. q \in GoodPixmap /\ (q.scanout <=> pix[p].scanout)
  <2>1. CASE ~o.ok
    BY <1>4, <2>1
  <2>2. CASE o.ok
    <3>1. o.p.fronts + 1 \in 0 .. MaxFronts
      BY <1>2, <1>4, MaxFrontsAssumption DEF GoodPixmap, CorePixmap, PixmapRecord
    <3>2. SameFronts(o.p, q)
      BY <1>4, <2>2, <3>1 DEF SameFronts, GoodPixmap, CorePixmap, PixmapRecord
    <3> HIDE DEF q
    <3> QED
      BY <1>4, <3>2, SameFrontsGood
  <2> QED
    BY <2>1, <2>2
<1>6. pix' = [pix EXCEPT ![p] = q]
  BY <1>1
<1> HIDE DEF q
<1>7. Keeps(pix, pix')
  BY <1>5, <1>6, KeepsUpdate DEF IInv
<1> QED
  BY <1>7 DEF Dri2CreateBuffer, Client!Internal, IInv, Keeps

(* Closing one.                                                            *)
LEMMA Dri2DestroyStep ==
  ASSUME IInv, NEW p \in Pixmaps, Dri2DestroyBuffer(p)
  PROVE  IInv'
<1> DEFINE q == [pix[p] EXCEPT !.fronts = @ - 1, !.sync = @ /\ pix[p].fronts > 1]
<1>1. pix[p] \in GoodPixmap /\ pix[p].fronts > 0
  BY DEF IInv, Screens, Dri2DestroyBuffer
<1>2. pix[p].fronts - 1 \in 0 .. MaxFronts
  BY <1>1, MaxFrontsAssumption DEF GoodPixmap, CorePixmap, PixmapRecord
<1>3. SameFronts(pix[p], q)
  BY <1>1, <1>2 DEF SameFronts, GoodPixmap, CorePixmap, PixmapRecord
<1>4. pix' = [pix EXCEPT ![p] = q]
  BY DEF Dri2DestroyBuffer, IInv, Screens
<1> HIDE DEF q
<1>5. q \in GoodPixmap /\ (q.scanout <=> pix[p].scanout)
  BY <1>1, <1>3, SameFrontsGood
<1>6. Keeps(pix, pix')
  BY <1>4, <1>5, KeepsUpdate DEF IInv
<1> QED
  BY <1>6 DEF Dri2DestroyBuffer, Client!Internal, IInv, Keeps

(* Bringing front buffers up to date before GL draws.                      *)
LEMMA Dri2WaitXStep ==
  ASSUME IInv, NEW p \in Pixmaps, Dri2WaitX(p)
  PROVE  IInv'
<1>1. PICK o \in HwAccelValidate(pix[p], Tiles) :
        LET f == [pix EXCEPT ![p] = o.p]
        IN IF o.ok THEN pix' \in Choices([q \in Pixmaps |-> FlushDri2(f[q])])
                   ELSE pix' = f
  BY DEF Dri2WaitX
<1> DEFINE f == [pix EXCEPT ![p] = o.p]
<1>2. Keeps(pix, f)
  <2>1. pix \in Screens /\ pix[p] \in CorePixmap
    BY DEF IInv, Screens, GoodPixmap
  <2>2. Migrates(pix[p], o.p)
    BY <1>1, <2>1, HwAccelValidateMigrates
  <2> QED
    BY <2>1, <2>2, KeepsMigrate
<1>3. pix' = f \/ pix' \in Choices([q \in Pixmaps |-> FlushDri2(f[q])])
  BY <1>1
<1> HIDE DEF f
<1>4. Keeps(pix, pix')
  <2>1. f \in Screens
    BY <1>2 DEF Keeps
  <2> QED
    BY <1>2, <1>3, <2>1, FlushAllKeeps, KeepsTransitive
<1> QED
  BY <1>4 DEF Dri2WaitX, Client!Internal, IInv, Keeps

(* What a GL client draws into a shared surface.                           *)
LEMMA Dri2WaitGLStep ==
  ASSUME IInv, NEW p \in Pixmaps, NEW R \in Rects, NEW c \in Colors,
         Dri2WaitGL(p, R, c)
  PROVE  IInv'
<1> DEFINE b == Client!ApplyFill(pix[p].hw_bits, R, c)
           q == [pix[p] EXCEPT !.hw_bits = b]
<1>1. pix[p] \in GoodPixmap
  BY DEF IInv, Screens
<1>2. b \in Image
  BY <1>1, GoodBits, DrawType, ImageIsMemory
<1>3. pix' = [pix EXCEPT ![p] = q]
  BY DEF Dri2WaitGL, IInv, Screens
<1>4. mem' \in [Pixmaps -> Memory] /\ reply' = NoReply
  BY DrawType, ForgetType DEF Dri2WaitGL, IInv
<1> HIDE DEF b
<1>5. q \in GoodPixmap /\ (q.scanout <=> pix[p].scanout)
  BY <1>1, <1>2, BitsGood
<1> HIDE DEF q
<1>6. Keeps(pix, pix')
  BY <1>3, <1>5, KeepsUpdate DEF IInv
<1> QED
  BY <1>4, <1>6 DEF Dri2WaitGL, IInv, Keeps

(* A GL client's copy to another pixmap.                                   *)
LEMMA Dri2CopyStep ==
  ASSUME IInv, NEW s \in Pixmaps, NEW d \in Pixmaps, NEW R \in Rects,
         NEW c \in Colors, Dri2CopyRegion(s, d, R, c)
  PROVE  IInv'
<1> DEFINE x == Client!ApplyFill(pix[s].hw_bits, R, c)
           drawn == [pix[s] EXCEPT !.hw_bits = x]
           m == [t \in R |-> t]
<1>1. PICK a \in DirtyHw(drawn, R) : \E b \in OperationComplete(a, TRUE) :
        \E o \in CopyNToN([pix EXCEPT ![s] = b], s, d, m, R) :
        \E q \in OperationComplete(o.pix[d], TRUE) : pix' = [o.pix EXCEPT ![d] = q]
  BY DEF Dri2CopyRegion
<1>2. PICK b \in OperationComplete(a, TRUE) :
        \E o \in CopyNToN([pix EXCEPT ![s] = b], s, d, m, R) :
        \E q \in OperationComplete(o.pix[d], TRUE) : pix' = [o.pix EXCEPT ![d] = q]
  BY <1>1
<1>3. PICK o \in CopyNToN([pix EXCEPT ![s] = b], s, d, m, R) :
        \E q \in OperationComplete(o.pix[d], TRUE) : pix' = [o.pix EXCEPT ![d] = q]
  BY <1>2
<1>4. PICK q \in OperationComplete(o.pix[d], TRUE) : pix' = [o.pix EXCEPT ![d] = q]
  BY <1>3
<1>5. R \in SUBSET Tiles /\ m \in [R -> Tiles] /\ pix[s] \in GoodPixmap
      /\ pix \in Screens
  BY RequestsAssumption DEF IInv, Screens
<1>6. x \in Image
  BY <1>5, GoodBits, DrawType, ImageIsMemory
<1> HIDE DEF x
<1>7. a \in GoodPixmap /\ (a.scanout <=> pix[s].scanout)
  BY <1>1, <1>5, <1>6, HwRenderedGood
<1> HIDE DEF drawn, m
<1>8. b \in GoodPixmap /\ (b.scanout <=> pix[s].scanout)
  BY <1>2, <1>7, OperationCompleteGood
<1> DEFINE f == [pix EXCEPT ![s] = b]
<1>9. Keeps(pix, f) /\ f \in Screens /\ o \in CopyNToN(f, s, d, m, R)
  BY <1>3, <1>5, <1>8, KeepsUpdate DEF Keeps
<1> HIDE DEF f
<1>10. Keeps(f, o.pix)
  BY <1>5, <1>9, CopyNToNKeeps
<1>11. o.pix \in Screens /\ o.pix[d] \in GoodPixmap
  BY <1>10 DEF Keeps, Screens
<1>12. q \in GoodPixmap /\ (q.scanout <=> o.pix[d].scanout)
  BY <1>4, <1>11, OperationCompleteGood
<1>13. Keeps(o.pix, pix')
  BY <1>4, <1>11, <1>12, KeepsUpdate
<1>14. Keeps(pix, pix')
  BY <1>9, <1>10, <1>13, KeepsTransitive
<1>15. mem' \in [Pixmaps -> Memory] /\ reply' = NoReply
  <2>1. \A p \in Pixmaps : mem[p] \in Memory /\ Client!ApplyFill(mem[p], R, c) \in Memory
    BY DrawType DEF IInv
  <2> QED
    BY <2>1 DEF Dri2CopyRegion
<1> QED
  BY <1>14, <1>15 DEF Dri2CopyRegion, IInv, Keeps

----------------------------------------------------------------------------
(* The theorems.                                                           *)

(* Every step keeps the invariant.                                         *)
LEMMA NextIInv == IInv /\ [Next]_vars => IInv'
<1> SUFFICES ASSUME IInv, [Next]_vars PROVE IInv'
  OBVIOUS
<1>1. CASE UNCHANGED vars
  BY <1>1 DEF vars, IInv
<1>2. CASE \E p \in Pixmaps, R \in Rects, c \in Colors :
             \/ SwDraw(p, R, c)
             \/ SwFill(p, R, c)
             \/ \E W \in SUBSET R : PushPixels(p, W, R, c)
  BY <1>2, DrawingSteps
<1>3. CASE \E p \in Pixmaps, t \in Tiles : GetImage(p, t)
  BY <1>3, GetImageStep
<1>4. CASE \E p \in Pixmaps : DestroyPixmap(p)
  BY <1>4, DestroyStep
<1>5. CASE \E s, d \in Pixmaps, m \in Translations :
             CopyArea(s, d, m) \/ CompositeOver(s, d, m) \/ CompositeSrc(s, d, m)
  BY <1>5, CopyAreaStep, CompositeOverStep, CompositeSrcStep
<1>6. CASE BlockHandler
  BY <1>6, BlockHandlerStep
<1>7. CASE \E q \in Scanouts : SetModeMajor(q)
  BY <1>7, SetModeStep
<1>8. CASE CrtcOff
  BY <1>8, CrtcOffStep
<1>9. CASE LeaveVT
  BY <1>9, LeaveVTStep
<1>10. CASE EnterVT
  BY <1>10, EnterVTStep
<1>11. CASE \E p \in GlPixmaps :
              \/ Dri2CreateBuffer(p)
              \/ Dri2DestroyBuffer(p)
              \/ Dri2WaitX(p)
              \/ \E R \in Rects, c \in Colors :
                   \/ Dri2WaitGL(p, R, c)
                   \/ \E d \in Pixmaps : Dri2CopyRegion(p, d, R, c)
  <2>1. PICK p \in GlPixmaps :
              \/ Dri2CreateBuffer(p)
              \/ Dri2DestroyBuffer(p)
              \/ Dri2WaitX(p)
              \/ \E R \in Rects, c \in Colors :
                   \/ Dri2WaitGL(p, R, c)
                   \/ \E d \in Pixmaps : Dri2CopyRegion(p, d, R, c)
    BY <1>11
  <2>2. p \in Pixmaps
    BY ScreenAssumption
  <2> QED
    BY <2>1, <2>2, Dri2CreateStep, Dri2DestroyStep, Dri2WaitXStep,
       Dri2WaitGLStep, Dri2CopyStep
<1> QED
  BY <1>1, <1>2, <1>3, <1>4, <1>5, <1>6, <1>7, <1>8, <1>9, <1>10, <1>11
     DEF Next

(* The driver is never out of the inductive invariant.                     *)
THEOREM AlwaysInOrder == Spec => []IInv
BY InitIInv, NextIInv, PTL DEF Spec

(* Type correctness, whatever allocation or device call fails and whichever *)
(* of the code's hazards occur.                                            *)
THEOREM TypeCorrect == Spec => []TypeOK
BY AlwaysInOrder, IInvImplies, PTL

(* Backing flags, storage and damage tracking of every pixmap agree in     *)
(* every option (create_gmr, create_sw, create_hw, hw_kill, scanout_ref    *)
(* and scanout_unref undo or complete what they began).                    *)
THEOREM StorageCorrect == Spec => []StorageAgrees
BY AlwaysInOrder, IInvImplies, PTL

(* The regions of every pixmap never contradict each other (vmwgfx_dirty,  *)
(* present_done, xorg_flush, scanout_refresh).                             *)
THEOREM RegionsCorrect == Spec => []RegionsAgree
BY AlwaysInOrder, IInvImplies, PTL

----------------------------------------------------------------------------
(* Contents.  As in VmwgfxPixmap_proofs, from here on the hazards are left *)
(* out.  What the code loses without them is Lost in the memory, and the   *)
(* lemmas speak of the tiles that are kept of it.                          *)

(* The driver finds in a pixmap what is kept of the memory x.              *)
Holds(v, x) == \A t \in Tiles : t \in Client!Kept(x) => x[t] = At(v, t)

(* A screen of whole pixmaps that hold the memories x.                     *)
WholeScreen(x, f) ==
  /\ x \in [Pixmaps -> Memory] /\ f \in Screens
  /\ \A p \in Pixmaps : Whole(Client!Kept(x[p]), f[p]) /\ Holds(f[p], x[p])

(* Contents were moved between places on every pixmap.                     *)
MovesAll(x, f, g) ==
  g \in Screens /\ \A p \in Pixmaps : Moves(Client!Kept(x[p]), f[p], g[p])

(* Moving nothing keeps the contents of a screen ...                       *)
LEMMA MovesAllReflexive ==
  ASSUME NEW x, NEW f, WholeScreen(x, f) PROVE MovesAll(x, f, f)
BY MovesReflexive DEF WholeScreen, Whole, GoodPixmap, MovesAll

(* ... moves chain ...                                                     *)
LEMMA MovesAllTransitive ==
  ASSUME NEW x, NEW f, NEW g, NEW h, MovesAll(x, f, g), MovesAll(x, g, h)
  PROVE  MovesAll(x, f, h)
BY MovesTransitive DEF MovesAll

(* ... and leave the screen whole.                                         *)
LEMMA MovesAllWhole ==
  ASSUME NEW x, NEW f, WholeScreen(x, f), NEW g, MovesAll(x, f, g)
  PROVE  WholeScreen(x, g)
BY MovesWhole DEF WholeScreen, MovesAll, Holds

(* A move on one pixmap is one on the screen.                              *)
LEMMA MovesUpdate ==
  ASSUME NEW x, NEW f, WholeScreen(x, f), NEW p \in Pixmaps, NEW q,
         Moves(Client!Kept(x[p]), f[p], q)
  PROVE  MovesAll(x, f, [f EXCEPT ![p] = q])
<1>1. q \in GoodPixmap
  BY MovesWhole DEF WholeScreen, Whole
<1>2. \A r \in Pixmaps : Moves(Client!Kept(x[r]), f[r], f[r])
  BY MovesReflexive DEF WholeScreen, Whole, GoodPixmap
<1> QED
  BY <1>1, <1>2 DEF WholeScreen, MovesAll, Screens

(* A function that moves contents, on one pixmap of an outcome.            *)
LEMMA StepMoves ==
  ASSUME NEW x, NEW f, WholeScreen(x, f), NEW a, MovesAll(x, f, a.pix), NEW p \in Pixmaps,
         NEW S, \A r \in S : Moves(Client!Kept(x[p]), a.pix[p], r.p),
         NEW o, o \in IF a.ok
                      THEN { [ok |-> r.ok, pix |-> [a.pix EXCEPT ![p] = r.p]] : r \in S }
                      ELSE {a}
  PROVE  /\ MovesAll(x, f, o.pix)
         /\ o.ok => /\ a.ok /\ MovesAll(x, a.pix, o.pix)
                    /\ \E r \in S : r.ok /\ o.pix[p] = r.p
<1>1. CASE ~a.ok
  BY <1>1
<1>2. CASE a.ok
  <2>1. PICK h \in S : o = [ok |-> h.ok, pix |-> [a.pix EXCEPT ![p] = h.p]]
    BY <1>2
  <2>2. WholeScreen(x, a.pix)
    BY MovesAllWhole
  <2>3. MovesAll(x, a.pix, o.pix)
    BY <2>1, <2>2, MovesUpdate
  <2>4. MovesAll(x, f, o.pix)
    BY <2>3, MovesAllTransitive
  <2>5. o.pix[p] = h.p
    BY <2>1, <2>2 DEF WholeScreen, Screens
  <2> QED
    BY <1>2, <2>1, <2>3, <2>4, <2>5
<1> QED
  BY <1>1, <1>2

(* Committing two surfaces moves contents, and leaves both there.          *)
LEMMA CommitBothMoves ==
  ASSUME NoHazards, NEW x, NEW f, WholeScreen(x, f),
         NEW s \in Pixmaps, NEW d \in Pixmaps,
         NEW o \in CommitBoth(f, s, d)
  PROVE  /\ MovesAll(x, f, o.pix)
         /\ o.ok => o.pix[s].hw /\ o.pix[d].hw
<1>1. CASE o = NotDone(f)
  BY <1>1, NotDoneIs, MovesAllReflexive
<1>2. CASE o # NotDone(f)
  <2>1. PICK a \in OnPixmap({[ok |-> TRUE, pix |-> f]}, s, HwCommit) :
          o \in IF a.ok
                THEN { [ok |-> r.ok, pix |-> [a.pix EXCEPT ![d] = r.p]] :
                       r \in HwCommit(a.pix[d]) }
                ELSE {a}
    BY <1>2 DEF CommitBoth, OnPixmap
  <2>2. PICK r \in HwCommit(f[s]) : a = [ok |-> r.ok, pix |-> [f EXCEPT ![s] = r.p]]
    BY <2>1 DEF OnPixmap
  <2>3. Moves(Client!Kept(x[s]), f[s], r.p) /\ (r.ok => r.p.hw)
    BY HwCommitMoves DEF WholeScreen, Whole, GoodPixmap
  <2>4. MovesAll(x, f, a.pix) /\ (a.ok => a.pix[s].hw)
    <3>1. MovesAll(x, f, a.pix)
      BY <2>2, <2>3, MovesUpdate
    <3>2. a.pix[s] = r.p /\ a.ok = r.ok
      BY <2>2 DEF WholeScreen, Screens
    <3> QED
      BY <2>3, <3>1, <3>2
  <2>5. WholeScreen(x, a.pix)
    BY <2>4, MovesAllWhole
  <2>6. \A h \in HwCommit(a.pix[d]) :
            /\ Moves(Client!Kept(x[d]), a.pix[d], h.p)
            /\ h.ok => h.p.hw
    BY <2>5, HwCommitMoves DEF WholeScreen, Whole, GoodPixmap
  <2>7. /\ MovesAll(x, f, o.pix)
        /\ o.ok => /\ a.ok /\ MovesAll(x, a.pix, o.pix)
                   /\ \E h \in HwCommit(a.pix[d]) : h.ok /\ o.pix[d] = h.p
    BY <2>1, <2>4, <2>6, StepMoves
  <2>8. ASSUME o.ok PROVE o.pix[s].hw /\ o.pix[d].hw
    <3>1. o.pix[d].hw
      BY <2>6, <2>7, <2>8
    <3>2. o.pix[s].hw
      BY <2>4, <2>7, <2>8 DEF MovesAll, Moves
    <3> QED
      BY <3>1, <3>2
  <2> QED
    BY <2>7, <2>8
<1> QED
  BY <1>1, <1>2

(* Mapping two pixmaps moves contents, and leaves software current.        *)
LEMMA AccessBothMoves ==
  ASSUME NoHazards, NEW x, NEW f, WholeScreen(x, f),
         NEW s \in Pixmaps, NEW d \in Pixmaps,
         NEW src, NEW read, NEW o \in AccessBoth(f, s, d, src, read)
  PROVE  /\ MovesAll(x, f, o.pix)
         /\ o.ok => /\ HasStorage(o.pix[d])
                    /\ o.pix[s].dirty_hw \cap src = {}
                    /\ o.pix[d].dirty_hw \cap read = {}
<1> DEFINE Read(p) == PrepareAccess(p, src)
           S == OnPixmap({[ok |-> TRUE, pix |-> f]}, s, Read)
<1>1. PICK a \in S :
        o \in IF a.ok
              THEN { [ok |-> r.ok, pix |-> [a.pix EXCEPT ![d] = r.p]] :
                     r \in PrepareAccess(a.pix[d], read) }
              ELSE {a}
  BY DEF AccessBoth, OnPixmap
<1>2. PICK r \in PrepareAccess(f[s], src) :
        a = [ok |-> r.ok, pix |-> [f EXCEPT ![s] = r.p]]
  BY <1>1 DEF OnPixmap
<1> HIDE DEF S
<1>3. Moves(Client!Kept(x[s]), f[s], r.p) /\ (r.ok => r.p.dirty_hw \cap src = {})
  BY PrepareAccessMoves DEF WholeScreen, Whole, GoodPixmap
<1>4. MovesAll(x, f, a.pix) /\ (a.ok => a.pix[s].dirty_hw \cap src = {})
  <2>1. MovesAll(x, f, a.pix)
    BY <1>2, <1>3, MovesUpdate
  <2>2. a.pix[s] = r.p /\ a.ok = r.ok
    BY <1>2 DEF WholeScreen, Screens
  <2> QED
    BY <1>3, <2>1, <2>2
<1>5. WholeScreen(x, a.pix)
  BY <1>4, MovesAllWhole
<1>6. \A h \in PrepareAccess(a.pix[d], read) :
        /\ Moves(Client!Kept(x[d]), a.pix[d], h.p)
        /\ h.ok => HasStorage(h.p) /\ h.p.dirty_hw \cap read = {}
  BY <1>5, PrepareAccessMoves DEF WholeScreen, Whole, GoodPixmap
<1>7. /\ MovesAll(x, f, o.pix)
      /\ o.ok => /\ a.ok /\ MovesAll(x, a.pix, o.pix)
                 /\ \E h \in PrepareAccess(a.pix[d], read) : h.ok /\ o.pix[d] = h.p
  BY <1>1, <1>4, <1>6, StepMoves
<1>8. ASSUME o.ok
      PROVE  /\ HasStorage(o.pix[d])
             /\ o.pix[s].dirty_hw \cap src = {}
             /\ o.pix[d].dirty_hw \cap read = {}
  <2>1. HasStorage(o.pix[d]) /\ o.pix[d].dirty_hw \cap read = {}
    BY <1>6, <1>7, <1>8
  <2>2. Moves(Client!Kept(x[s]), a.pix[s], o.pix[s])
    BY <1>7, <1>8 DEF MovesAll
  <2>3. o.pix[s].dirty_hw \cap src = {}
    BY <1>4, <1>7, <1>8, <2>2, MovesCurrent
  <2> QED
    BY <2>1, <2>3
<1> QED
  BY <1>7, <1>8

(* vmwgfx_composite_prepare moves contents, and leaves surfaces current.   *)
LEMMA MigrateBothMoves ==
  ASSUME NoHazards, NEW x, NEW f, WholeScreen(x, f),
         NEW s \in Pixmaps, NEW d \in Pixmaps,
         NEW o \in MigrateBoth(f, s, d)
  PROVE  /\ MovesAll(x, f, o.pix)
         /\ o.ok => SurfaceCurrent(o.pix[s], Tiles) /\ SurfaceCurrent(o.pix[d], Tiles)
<1> DEFINE Validate(p) == HwValidate(p, Tiles)
           S == OnPixmap(CommitBoth(f, s, d), s, Validate)
<1>1. PICK a \in S :
        o \in IF a.ok
              THEN { [ok |-> r.ok, pix |-> [a.pix EXCEPT ![d] = r.p]] :
                     r \in HwValidate(a.pix[d], Tiles) }
              ELSE {a}
  BY DEF MigrateBoth, OnPixmap
<1>2. PICK c \in CommitBoth(f, s, d) :
        a \in IF c.ok
              THEN { [ok |-> r.ok, pix |-> [c.pix EXCEPT ![s] = r.p]] :
                     r \in HwValidate(c.pix[s], Tiles) }
              ELSE {c}
  BY <1>1 DEF OnPixmap
<1> HIDE DEF S
<1>3. MovesAll(x, f, c.pix) /\ (c.ok => c.pix[s].hw /\ c.pix[d].hw)
  BY CommitBothMoves
<1>4. WholeScreen(x, c.pix)
  BY <1>3, MovesAllWhole
<1>5. CASE ~c.ok
  BY <1>1, <1>2, <1>3, <1>5
<1>6. CASE c.ok
  <2>1. \A h \in HwValidate(c.pix[s], Tiles) :
          /\ Moves(Client!Kept(x[s]), c.pix[s], h.p)
          /\ h.ok => SurfaceCurrent(h.p, Tiles)
    BY <1>3, <1>4, <1>6, HwValidateMoves DEF WholeScreen, Whole, GoodPixmap
  <2>2. /\ MovesAll(x, f, a.pix)
        /\ a.ok => /\ MovesAll(x, c.pix, a.pix)
                   /\ \E h \in HwValidate(c.pix[s], Tiles) : h.ok /\ a.pix[s] = h.p
    BY <1>2, <1>3, <2>1, StepMoves
  <2>3. CASE ~a.ok
    BY <1>1, <2>2, <2>3
  <2>4. CASE a.ok
    <3>1. WholeScreen(x, a.pix) /\ SurfaceCurrent(a.pix[s], Tiles) /\ a.pix[d].hw
      <4>1. WholeScreen(x, a.pix)
        BY <2>2, MovesAllWhole
      <4>2. a.pix[d].hw
        BY <1>3, <1>6, <2>2, <2>4 DEF MovesAll, Moves
      <4> QED
        BY <2>1, <2>2, <2>4, <4>1, <4>2
    <3>2. \A h \in HwValidate(a.pix[d], Tiles) :
            /\ Moves(Client!Kept(x[d]), a.pix[d], h.p)
            /\ h.ok => SurfaceCurrent(h.p, Tiles)
      BY <3>1, HwValidateMoves DEF WholeScreen, Whole, GoodPixmap
    <3>3. /\ MovesAll(x, f, o.pix)
          /\ o.ok => /\ MovesAll(x, a.pix, o.pix)
                     /\ \E h \in HwValidate(a.pix[d], Tiles) : h.ok /\ o.pix[d] = h.p
      BY <1>1, <2>2, <3>2, StepMoves
    <3>4. ASSUME o.ok PROVE SurfaceCurrent(o.pix[s], Tiles)
      <4>1. Moves(Client!Kept(x[s]), a.pix[s], o.pix[s])
        BY <3>3, <3>4 DEF MovesAll
      <4> QED
        BY <3>1, <4>1, MovesCurrent
    <3> QED
      BY <3>2, <3>3, <3>4
  <2> QED
    BY <2>3, <2>4
<1> QED
  BY <1>5, <1>6

(* Storage a says of R what is kept of the memory x.                       *)
Agrees(a, x, R) == \A u \in R : u \in Client!Kept(x) => a[u] = x[u]

(* A combining writes R of its first argument, and what it makes of tiles  *)
(* it keeps depends on kept tiles only: need of the first and src of the   *)
(* second.                                                                 *)
Local(w, R, need, src) ==
  \A a, b \in Image : \A x, y \in Memory : \A t \in Tiles :
    IF t \notin R THEN w[<<a, b>>][t] = a[t] /\ w[<<x, y>>][t] = x[t]
    ELSE t \in Client!Kept(w[<<x, y>>]) /\ Agrees(a, x, need) /\ Agrees(b, y, src)
           => w[<<a, b>>][t] = w[<<x, y>>][t]

(* A copy writes what it names and needs nothing of its destination.       *)
LEMMA CopyingLocal ==
  ASSUME NEW D \in SUBSET Tiles, NEW m \in [D -> Tiles]
  PROVE  Local(Copying(m), D, {}, SourceRegion(m))
<1>0. DOMAIN m = D
  OBVIOUS
<1>1. \A t \in D : m[t] \in SourceRegion(m) /\ m[t] \in Tiles
  BY DEF SourceRegion
<1>3. ASSUME NEW a \in Memory, NEW b \in Memory, NEW t \in Tiles
      PROVE  Copying(m)[<<a, b>>][t] = IF t \in D THEN b[m[t]] ELSE a[t]
  <2>1. Copying(m)[<<a, b>>] = Client!ApplyCopy(a, b, m)
    BY DEF Copying
  <2>2. Client!ApplyCopy(a, b, m)[t] = IF t \in D THEN b[m[t]] ELSE a[t]
    BY <1>0 DEF Client!ApplyCopy
  <2> QED
    BY <2>1, <2>2
<1> SUFFICES ASSUME NEW a \in Image, NEW b \in Image, NEW x \in Memory, NEW y \in Memory,
                    NEW t \in Tiles
             PROVE  IF t \notin D
                    THEN Copying(m)[<<a, b>>][t] = a[t] /\ Copying(m)[<<x, y>>][t] = x[t]
                    ELSE t \in Client!Kept(Copying(m)[<<x, y>>]) /\ Agrees(a, x, {})
                           /\ Agrees(b, y, SourceRegion(m))
                           => Copying(m)[<<a, b>>][t] = Copying(m)[<<x, y>>][t]
  BY DEF Local
<1>4. a \in Memory /\ b \in Memory
  BY ImageIsMemory
<1>5. CASE t \notin D
  BY <1>3, <1>4, <1>5
<1>6. ASSUME t \in D, t \in Client!Kept(Copying(m)[<<x, y>>]),
             Agrees(b, y, SourceRegion(m))
      PROVE  Copying(m)[<<a, b>>][t] = Copying(m)[<<x, y>>][t]
  <2>1. Copying(m)[<<a, b>>][t] = b[m[t]] /\ Copying(m)[<<x, y>>][t] = y[m[t]]
    BY <1>3, <1>4, <1>6
  <2>2. m[t] \in Client!Kept(y)
    BY <1>1, <1>6, <2>1 DEF Client!Kept
  <2> QED
    BY <1>1, <1>6, <2>1, <2>2 DEF Agrees
<1> QED
  BY <1>5, <1>6

(* A composite reads what it writes, too.                                  *)
LEMMA CompositingLocal ==
  ASSUME NEW D \in SUBSET Tiles, NEW m \in [D -> Tiles]
  PROVE  Local(Compositing(m), D, D, SourceRegion(m))
<1>0. DOMAIN m = D
  OBVIOUS
<1>1. \A t \in D : m[t] \in SourceRegion(m) /\ m[t] \in Tiles
  BY DEF SourceRegion
<1>3. ASSUME NEW a \in Memory, NEW b \in Memory, NEW t \in Tiles
      PROVE  Compositing(m)[<<a, b>>][t] =
               IF t \in D THEN Client!Mixed(a[t], b[m[t]]) ELSE a[t]
  <2>1. Compositing(m)[<<a, b>>] = Client!ApplyOver(a, b, m)
    BY DEF Compositing
  <2>2. Client!ApplyOver(a, b, m)[t] =
          IF t \in D THEN Client!Mixed(a[t], b[m[t]]) ELSE a[t]
    BY <1>0 DEF Client!ApplyOver
  <2> QED
    BY <2>1, <2>2
<1> SUFFICES ASSUME NEW a \in Image, NEW b \in Image, NEW x \in Memory, NEW y \in Memory,
                    NEW t \in Tiles
             PROVE  IF t \notin D
                    THEN Compositing(m)[<<a, b>>][t] = a[t] /\ Compositing(m)[<<x, y>>][t] = x[t]
                    ELSE t \in Client!Kept(Compositing(m)[<<x, y>>]) /\ Agrees(a, x, D)
                           /\ Agrees(b, y, SourceRegion(m))
                           => Compositing(m)[<<a, b>>][t] = Compositing(m)[<<x, y>>][t]
  BY DEF Local
<1>4. a \in Memory /\ b \in Memory
  BY ImageIsMemory
<1>5. CASE t \notin D
  BY <1>3, <1>4, <1>5
<1>6. ASSUME t \in D, t \in Client!Kept(Compositing(m)[<<x, y>>]), Agrees(a, x, D),
             Agrees(b, y, SourceRegion(m))
      PROVE  Compositing(m)[<<a, b>>][t] = Compositing(m)[<<x, y>>][t]
  <2>1. /\ Compositing(m)[<<a, b>>][t] = Client!Mixed(a[t], b[m[t]])
        /\ Compositing(m)[<<x, y>>][t] = Client!Mixed(x[t], y[m[t]])
    BY <1>3, <1>4, <1>6
  <2>2. Client!Mixed(x[t], y[m[t]]) # Lost
    BY <1>6, <2>1 DEF Client!Kept
  <2>3. x[t] \in Values \cup {Lost} /\ y[m[t]] \in Values \cup {Lost}
    BY <1>1, <1>6 DEF Memory
  <2>4. t \in Client!Kept(x) /\ m[t] \in Client!Kept(y)
    BY <1>1, <1>6, <2>2, <2>3, MixedType DEF Client!Kept
  <2>5. a[t] = x[t] /\ b[m[t]] = y[m[t]]
    BY <1>1, <1>6, <2>4 DEF Agrees
  <2> QED
    BY <2>1, <2>5
<1> QED
  BY <1>5, <1>6

(* The tiles a copy reads.                                                 *)
LEMMA SourceRegionType ==
  ASSUME NEW D \in SUBSET Tiles, NEW m \in [D -> Tiles]
  PROVE  SourceRegion(m) \subseteq Tiles
BY DEF SourceRegion

(* What a combining makes of storage that is current where it reads.       *)
LEMMA LocalMakes ==
  ASSUME NEW w \in Combinings, NEW R, NEW need, NEW src, Local(w, R, need, src),
         NEW a \in Image, NEW b \in Image, NEW x \in Memory, NEW y \in Memory,
         Agrees(a, x, need), Agrees(b, y, src), NEW t \in Tiles
  PROVE  /\ t \in R /\ t \in Client!Kept(w[<<x, y>>]) => w[<<a, b>>][t] = w[<<x, y>>][t]
         /\ t \notin R => w[<<a, b>>][t] = a[t] /\ w[<<x, y>>][t] = x[t]
BY DEF Local

(* What is kept outside R was kept before.                                 *)
LEMMA KeptOutside ==
  ASSUME NEW x, NEW m, NEW R, \A t \in Tiles : t \notin R => m[t] = x[t]
  PROVE  \A t \in Tiles : t \in Client!Kept(m) => t \in Client!Kept(x) \/ t \in R
BY DEF Client!Kept

(* A pixmap that held the memory x comes to hold m.                        *)
Makes(x, p, q, m) == Renders(Client!Kept(x), Client!Kept(m), p, q, m)

(* A move makes nothing new of what is kept ...                            *)
LEMMA MovesMakes ==
  ASSUME NEW x, NEW p, Whole(Client!Kept(x), p), Holds(p, x),
         NEW q, Moves(Client!Kept(x), p, q)
  PROVE  Makes(x, p, q, x) /\ Whole(Client!Kept(x), q) /\ Holds(q, x)
BY MovesRenders, MovesWhole DEF Makes, Holds

(* ... and may come before a drawing.                                      *)
LEMMA MovesThenMakes ==
  ASSUME NEW x, NEW p, Whole(Client!Kept(x), p), NEW q, Moves(Client!Kept(x), p, q),
         NEW r, NEW m, Makes(x, q, r, m)
  PROVE  Makes(x, p, r, m)
BY MovesThenRenders DEF Makes

(* What a drawing leaves holds what it made.                               *)
LEMMA MakesHolds ==
  ASSUME NEW x, NEW p, NEW q, NEW m, Makes(x, p, q, m)
  PROVE  Whole(Client!Kept(m), q) /\ Holds(q, m)
BY DEF Makes, Renders, Holds

(* Software combines the source into the destination, both current where   *)
(* it reads them: the destination then holds what the client meant.        *)
LEMMA CombinedSw ==
  ASSUME NoHazards, NEW x \in Memory, NEW y \in Memory,
         NEW p, Whole(Client!Kept(x), p), Holds(p, x), HasStorage(p),
         NEW s, Whole(Client!Kept(y), s), Holds(s, y),
         NEW R \in SUBSET Tiles, NEW need \in SUBSET Tiles, NEW src \in SUBSET Tiles,
         p.dirty_hw \cap need = {}, s.dirty_hw \cap src = {},
         NEW w \in Combinings, Local(w, R, need, src),
         NEW q \in DirtySw([p EXCEPT !.sw_bits = w[<<p.sw_bits, s.sw_bits>>]], R)
  PROVE  Makes(x, p, q, w[<<x, y>>])
<1> DEFINE b == w[<<p.sw_bits, s.sw_bits>>]
           m == w[<<x, y>>]
<1>1. p.sw_bits \in Image /\ s.sw_bits \in Image
  BY GoodBits DEF Whole
<1>2. b \in Image
  BY <1>1, CombiningApplied
<1>3. Agrees(p.sw_bits, x, need)
  BY CurrentBits DEF Whole, Holds, Agrees
<1>4. Agrees(s.sw_bits, y, src)
  BY CurrentBits DEF Whole, Holds, Agrees
<1>5. \A t \in Tiles : /\ t \in R /\ t \in Client!Kept(m) => b[t] = m[t]
                       /\ t \notin R => b[t] = p.sw_bits[t] /\ m[t] = x[t]
  BY <1>1, <1>3, <1>4, LocalMakes
<1>6. q \in DirtySw([p EXCEPT !.sw_bits = b], R)
  OBVIOUS
<1> HIDE DEF b, m
<1> DEFINE K == Client!Kept(x)
           L == Client!Kept(m)
<1>7. \A t \in Tiles : t \in L => t \in K \/ t \in R
  BY <1>5, KeptOutside
<1>8. \A t \in K : t \in Tiles => x[t] = At(p, t)
  BY DEF Holds
<1> HIDE DEF K, L
<1>9. \A t \in Tiles : t \in L => m[t] = IF t \in R THEN b[t] ELSE At(p, t)
  BY <1>5, <1>7, <1>8 DEF L
<1>10. \A t \in Tiles \ R : b[t] = p.sw_bits[t]
  BY <1>5
<1>11. Renders(K, L, p, q, m)
  BY <1>2, <1>6, <1>7, <1>9, <1>10, DirtySwRenders DEF K
<1> QED
  BY <1>11 DEF Makes, m, K, L

(* So does the device, when both surfaces are current.                     *)
LEMMA CombinedHw ==
  ASSUME NoHazards, NEW x \in Memory, NEW y \in Memory,
         NEW p, Whole(Client!Kept(x), p), Holds(p, x),
         NEW s, Whole(Client!Kept(y), s), Holds(s, y),
         NEW R \in SUBSET Tiles, NEW need \in SUBSET Tiles, NEW src \in SUBSET Tiles,
         SurfaceCurrent(p, need), SurfaceCurrent(s, src),
         NEW w \in Combinings, Local(w, R, need, src),
         NEW q \in DirtyHw([p EXCEPT !.hw_bits = w[<<p.hw_bits, s.hw_bits>>]], R)
  PROVE  Makes(x, p, q, w[<<x, y>>])
<1> DEFINE b == w[<<p.hw_bits, s.hw_bits>>]
           m == w[<<x, y>>]
<1>1. p.hw_bits \in Image /\ s.hw_bits \in Image /\ p.hw
  BY GoodBits DEF Whole, SurfaceCurrent
<1>2. b \in Image
  BY <1>1, CombiningApplied
<1>3. Agrees(p.hw_bits, x, need)
  BY CurrentBits DEF Whole, Holds, Agrees
<1>4. Agrees(s.hw_bits, y, src)
  BY CurrentBits DEF Whole, Holds, Agrees
<1>5. \A t \in Tiles : /\ t \in R /\ t \in Client!Kept(m) => b[t] = m[t]
                       /\ t \notin R => b[t] = p.hw_bits[t] /\ m[t] = x[t]
  BY <1>1, <1>3, <1>4, LocalMakes
<1>6. q \in DirtyHw([p EXCEPT !.hw_bits = b], R)
  OBVIOUS
<1> HIDE DEF b, m
<1> DEFINE K == Client!Kept(x)
           L == Client!Kept(m)
<1>7. \A t \in Tiles : t \in L => t \in K \/ t \in R
  BY <1>5, KeptOutside
<1>8. \A t \in K : t \in Tiles => x[t] = At(p, t)
  BY DEF Holds
<1> HIDE DEF K, L
<1>9. \A t \in Tiles : t \in L => m[t] = IF t \in R THEN b[t] ELSE At(p, t)
  BY <1>5, <1>7, <1>8 DEF L
<1>10. \A t \in Tiles \ R : b[t] = p.hw_bits[t]
  BY <1>5
<1>11. Renders(K, L, p, q, m)
  BY <1>1, <1>2, <1>6, <1>7, <1>9, <1>10, DirtyHwRenders DEF K
<1> QED
  BY <1>11 DEF Makes, m, K, L

(* What makes nothing new may come before a drawing or after it.           *)
LEMMA MakesTransitive ==
  ASSUME NEW x, NEW p, NEW q, NEW r, NEW m,
         \/ Makes(x, p, q, x) /\ Makes(x, q, r, m)
         \/ Makes(x, p, q, m) /\ Makes(m, q, r, m)
  PROVE  Makes(x, p, r, m)
BY DEF Makes, Renders

(* A present combines the source into a framebuffer nothing waits for.     *)
LEMMA CombinedPresent ==
  ASSUME NoHazards, NEW x \in Memory, NEW y \in Memory,
         NEW p, Whole(Client!Kept(x), p), Holds(p, x), TracksPresents(p),
         NEW s, Whole(Client!Kept(y), s), Holds(s, y),
         NEW D \in SUBSET Tiles, NEW m \in [D -> Tiles],
         SurfaceCurrent(s, SourceRegion(m)),
         p.pending_update = {}, p.pending_present = {}
  PROVE  Makes(x, p, DirtyPresent([p EXCEPT !.fb_bits =
                                     Client!ApplyCopy(@, s.hw_bits, m)], D),
               Copying(m)[<<x, y>>])
<1> DEFINE b == Client!ApplyCopy(p.fb_bits, s.hw_bits, m)
           c == Copying(m)[<<x, y>>]
<1>1. p.fb_bits \in Image /\ s.hw_bits \in Image
  BY GoodBits DEF Whole
<1>2. b \in Image /\ DOMAIN m = D /\ \A t \in D : m[t] \in Tiles
  BY <1>1, CopyType, ImageIsMemory
<1>3. \A t \in D : m[t] \in Client!Kept(y) => s.hw_bits[m[t]] = y[m[t]]
  <2>1. \A t \in D : m[t] \in SourceRegion(m)
    BY DEF SourceRegion
  <2> QED
    BY <1>2, <2>1, CurrentBits DEF Whole, Holds
<1>4. \A t \in Tiles : b[t] = IF t \in D THEN s.hw_bits[m[t]] ELSE p.fb_bits[t]
  BY <1>2 DEF Client!ApplyCopy
<1>5. \A t \in Tiles : c[t] = IF t \in D THEN y[m[t]] ELSE x[t]
  BY <1>2 DEF Copying, Client!ApplyCopy
<1> HIDE DEF b, c
<1> DEFINE K == Client!Kept(x)
           L == Client!Kept(c)
<1>6. \A t \in Tiles : t \in L => t \in K \/ t \in D
  BY <1>5, KeptOutside
<1>7. \A t \in K : t \in Tiles => x[t] = At(p, t)
  BY DEF Holds
<1>8. \A t \in D : t \in L => c[t] = b[t]
  <2>1. \A t \in D : t \in L => m[t] \in Client!Kept(y)
    BY <1>2, <1>5 DEF Client!Kept
  <2> QED
    BY <1>3, <1>4, <1>5, <2>1
<1> HIDE DEF K, L
<1>9. \A t \in Tiles : t \in L => c[t] = IF t \in D THEN b[t] ELSE At(p, t)
  BY <1>5, <1>6, <1>7, <1>8
<1>10. Renders(K, L, p, DirtyPresent([p EXCEPT !.fb_bits = b], D), c)
  BY <1>2, <1>4, <1>6, <1>9, DirtyPresentRenders DEF K
<1> QED
  BY <1>10 DEF Makes, b, c, K, L

(* A request with destination d was done, which leaves m there, or failed; *)
(* either way contents of other pixmaps were only moved.                   *)
Transferred(x, f, o, d, m) ==
  /\ o.pix \in Screens
  /\ \A p \in Pixmaps \ {d} : Moves(Client!Kept(x[p]), f[p], o.pix[p])
  /\ IF o.ok THEN Makes(x[d], f[d], o.pix[d], m)
     ELSE Moves(Client!Kept(x[d]), f[d], o.pix[d])

(* Failing moves no contents out of place ...                              *)
LEMMA MovesTransferred ==
  ASSUME NEW x, NEW f, NEW o, MovesAll(x, f, o.pix), ~o.ok, NEW d \in Pixmaps, NEW m
  PROVE  Transferred(x, f, o, d, m)
BY DEF MovesAll, Transferred

(* ... so the next way to do it can be tried.                              *)
LEMMA MovesThenTransferred ==
  ASSUME NEW x, NEW f, WholeScreen(x, f), NEW g, MovesAll(x, f, g), NEW d \in Pixmaps,
         NEW o, NEW m, Transferred(x, g, o, d, m)
  PROVE  Transferred(x, f, o, d, m)
<1>1. \A p \in Pixmaps : Moves(Client!Kept(x[p]), f[p], g[p]) /\ Whole(Client!Kept(x[p]), f[p])
  BY DEF MovesAll, WholeScreen
<1>2. \A p \in Pixmaps \ {d} : Moves(Client!Kept(x[p]), f[p], o.pix[p])
  BY <1>1, MovesTransitive DEF Transferred
<1>3. o.ok => Makes(x[d], f[d], o.pix[d], m)
  BY <1>1, MovesThenMakes DEF Transferred
<1>4. ~o.ok => Moves(Client!Kept(x[d]), f[d], o.pix[d])
  BY <1>1, MovesTransitive DEF Transferred
<1> QED
  BY <1>2, <1>3, <1>4 DEF Transferred

(* The last step of a request that is done, after contents have moved.     *)
LEMMA RenderedTransferred ==
  ASSUME NEW x, NEW f, WholeScreen(x, f), NEW g, MovesAll(x, f, g), NEW d \in Pixmaps,
         NEW q, NEW m, Makes(x[d], g[d], q, m),
         NEW o, o = [ok |-> TRUE, pix |-> [g EXCEPT ![d] = q]]
  PROVE  Transferred(x, f, o, d, m)
<1>1. g \in Screens /\ q \in GoodPixmap
  BY MakesHolds DEF MovesAll, Whole
<1>2. o.ok = TRUE /\ o.pix = [g EXCEPT ![d] = q]
  OBVIOUS
<1>3. /\ o.pix \in Screens /\ o.pix[d] = q
      /\ \A p \in Pixmaps \ {d} : o.pix[p] = g[p]
  BY <1>1, <1>2 DEF Screens
<1>4. \A p \in Pixmaps \ {d} : Moves(Client!Kept(x[p]), f[p], o.pix[p])
  BY <1>3 DEF MovesAll
<1>5. Makes(x[d], f[d], o.pix[d], m)
  BY <1>3, MovesThenMakes DEF MovesAll, WholeScreen
<1> QED
  BY <1>2, <1>3, <1>4, <1>5 DEF Transferred

(* A transfer in software does what the client meant.                      *)
LEMMA TransferSwDone ==
  ASSUME NoHazards, NEW x, NEW f, WholeScreen(x, f),
         NEW s \in Pixmaps, NEW d \in Pixmaps,
         NEW need \in SUBSET Tiles, NEW R \in SUBSET Tiles, NEW src \in SUBSET Tiles,
         NEW read, need \subseteq read,
         NEW w \in Combinings, Local(w, R, need, src),
         NEW o \in TransferSw(f, s, d, read, R, src, w)
  PROVE  Transferred(x, f, o, d, w[<<x[d], x[s]>>])
<1> DEFINE S == AccessBoth(f, s, d, src, read)
<1>1. PICK a \in S :
        o \in IF ~a.ok THEN {a}
              ELSE { [ok |-> TRUE, pix |-> [a.pix EXCEPT ![d] = q]] :
                     q \in DirtySw([a.pix[d] EXCEPT
                             !.sw_bits = w[<<a.pix[d].sw_bits, a.pix[s].sw_bits>>]], R) }
  BY DEF TransferSw, AccessBoth
<1>2. /\ MovesAll(x, f, a.pix)
      /\ a.ok => /\ HasStorage(a.pix[d])
                 /\ a.pix[s].dirty_hw \cap src = {}
                 /\ a.pix[d].dirty_hw \cap read = {}
  BY <1>1, AccessBothMoves
<1> HIDE DEF S
<1>3. CASE ~a.ok
  BY <1>1, <1>2, <1>3, MovesTransferred
<1>4. CASE a.ok
  <2>1. PICK q \in DirtySw([a.pix[d] EXCEPT
                 !.sw_bits = w[<<a.pix[d].sw_bits, a.pix[s].sw_bits>>]], R) :
          o = [ok |-> TRUE, pix |-> [a.pix EXCEPT ![d] = q]]
    BY <1>1, <1>4
  <2>2. Whole(Client!Kept(x[d]), a.pix[d]) /\ Whole(Client!Kept(x[s]), a.pix[s])
    BY <1>2, MovesAllWhole DEF WholeScreen
  <2>3. Holds(a.pix[d], x[d]) /\ Holds(a.pix[s], x[s])
    BY <1>2, MovesAllWhole DEF WholeScreen
  <2>4. a.pix[d].dirty_hw \cap need = {}
    BY <1>2, <1>4
  <2>5. Makes(x[d], a.pix[d], q, w[<<x[d], x[s]>>])
    BY <1>2, <1>4, <2>1, <2>2, <2>3, <2>4, CombinedSw DEF WholeScreen
  <2> QED
    BY <1>2, <2>1, <2>5, RenderedTransferred
<1> QED
  BY <1>3, <1>4

(* So does drawing by the device from surfaces that are current.           *)
LEMMA RenderHwDone ==
  ASSUME NoHazards, NEW x, NEW f, WholeScreen(x, f),
         NEW s \in Pixmaps, NEW d \in Pixmaps,
         NEW need \in SUBSET Tiles, NEW R \in SUBSET Tiles, NEW src \in SUBSET Tiles,
         NEW S, \A a \in S : /\ MovesAll(x, f, a.pix)
                             /\ a.ok => /\ SurfaceCurrent(a.pix[d], need)
                                        /\ SurfaceCurrent(a.pix[s], src),
         NEW w \in Combinings, Local(w, R, need, src),
         NEW o \in RenderHw(S, s, d, R, w)
  PROVE  Transferred(x, f, o, d, w[<<x[d], x[s]>>])
<1>1. PICK a \in S :
        o \in {NotDone(a.pix)} \cup
              (IF ~a.ok THEN {}
               ELSE { [ok |-> TRUE, pix |-> [a.pix EXCEPT ![d] = q]] :
                      q \in DirtyHw([a.pix[d] EXCEPT
                              !.hw_bits = w[<<a.pix[d].hw_bits, a.pix[s].hw_bits>>]], R) })
  BY DEF RenderHw
<1>2. MovesAll(x, f, a.pix)
  OBVIOUS
<1>3. CASE o = NotDone(a.pix)
  BY <1>2, <1>3, NotDoneIs, MovesTransferred
<1>4. CASE o # NotDone(a.pix)
  <2>1. PICK q \in DirtyHw([a.pix[d] EXCEPT
                 !.hw_bits = w[<<a.pix[d].hw_bits, a.pix[s].hw_bits>>]], R) :
          o = [ok |-> TRUE, pix |-> [a.pix EXCEPT ![d] = q]]
    BY <1>1, <1>4
  <2>2. a.ok
    BY <1>1, <1>4
  <2>3. Whole(Client!Kept(x[d]), a.pix[d]) /\ Whole(Client!Kept(x[s]), a.pix[s])
    BY <1>2, MovesAllWhole DEF WholeScreen
  <2>4. Holds(a.pix[d], x[d]) /\ Holds(a.pix[s], x[s])
    BY <1>2, MovesAllWhole DEF WholeScreen
  <2>5. Makes(x[d], a.pix[d], q, w[<<x[d], x[s]>>])
    BY <2>1, <2>2, <2>3, <2>4, CombinedHw DEF WholeScreen
  <2> QED
    BY <1>2, <2>1, <2>5, RenderedTransferred
<1> QED
  BY <1>3, <1>4

(* A copy between surfaces: the source is made current first.              *)
LEMMA SurfaceCopyDone ==
  ASSUME NoHazards, NEW x, NEW f, WholeScreen(x, f),
         NEW s \in Pixmaps, NEW d \in Pixmaps,
         NEW D \in SUBSET Tiles, NEW m \in [D -> Tiles],
         NEW o \in SurfaceCopy(f, s, d, m)
  PROVE  Transferred(x, f, o, d, Copying(m)[<<x[d], x[s]>>])
<1>0. DOMAIN m = D /\ SourceRegion(m) \in SUBSET Tiles
  BY SourceRegionType
<1> DEFINE Validate(p) == HwValidate(p, SourceRegion(m))
           S == OnPixmap(CommitBoth(f, s, d), s, Validate)
<1>1. o \in RenderHw(S, s, d, D, Copying(m))
  BY <1>0 DEF SurfaceCopy
<1>2. ASSUME NEW a \in S
      PROVE  /\ MovesAll(x, f, a.pix)
             /\ a.ok => /\ SurfaceCurrent(a.pix[d], {})
                        /\ SurfaceCurrent(a.pix[s], SourceRegion(m))
  <2>1. PICK c \in CommitBoth(f, s, d) :
          a \in IF c.ok
                THEN { [ok |-> r.ok, pix |-> [c.pix EXCEPT ![s] = r.p]] :
                       r \in HwValidate(c.pix[s], SourceRegion(m)) }
                ELSE {c}
    BY <1>2 DEF OnPixmap
  <2>2. MovesAll(x, f, c.pix) /\ (c.ok => c.pix[s].hw /\ c.pix[d].hw)
    BY CommitBothMoves
  <2>3. CASE ~c.ok
    BY <2>1, <2>2, <2>3
  <2>4. CASE c.ok
    <3>1. WholeScreen(x, c.pix)
      BY <2>2, MovesAllWhole
    <3>2. \A r \in HwValidate(c.pix[s], SourceRegion(m)) :
            /\ Moves(Client!Kept(x[s]), c.pix[s], r.p)
            /\ r.ok => SurfaceCurrent(r.p, SourceRegion(m))
      BY <2>2, <2>4, <3>1, HwValidateMoves DEF WholeScreen, Whole, GoodPixmap
    <3>3. /\ MovesAll(x, f, a.pix)
          /\ a.ok => /\ MovesAll(x, c.pix, a.pix)
                     /\ \E r \in HwValidate(c.pix[s], SourceRegion(m)) :
                          r.ok /\ a.pix[s] = r.p
      BY <2>1, <2>2, <3>2, StepMoves
    <3>4. a.ok => SurfaceCurrent(a.pix[d], {})
      BY <2>2, <2>4, <3>3 DEF MovesAll, Moves, SurfaceCurrent
    <3> QED
      BY <3>2, <3>3, <3>4
  <2> QED
    BY <2>3, <2>4
<1> HIDE DEF S
<1>3. Local(Copying(m), D, {}, SourceRegion(m)) /\ Copying(m) \in Combinings
  BY CopyingLocal, CombiningType
<1> QED
  BY <1>0, <1>1, <1>2, <1>3, RenderHwDone

(* A present onto a framebuffer, which what waits for it is sent to first. *)
LEMMA PresentCopyDone ==
  ASSUME NoHazards, NEW x, NEW f, WholeScreen(x, f),
         NEW s \in Pixmaps, NEW d \in Pixmaps,
         TracksPresents(f[d]), NEW D \in SUBSET Tiles, NEW m \in [D -> Tiles],
         NEW o \in PresentCopy(f, s, d, m)
  PROVE  Transferred(x, f, o, d, Copying(m)[<<x[d], x[s]>>])
<1>0. DOMAIN m = D
  OBVIOUS
<1> DEFINE Validate(p) == HwAccelValidate(p, SourceRegion(m))
           S == OnPixmap({[ok |-> TRUE, pix |-> f]}, s, Validate)
           Present(g, q) ==
             { [q EXCEPT !.fb_bits = Client!ApplyCopy(@, g[s].hw_bits, m)] } \cup
             (IF "ignored_present" \in Hazards THEN {q} ELSE {})
<1>1. PICK a \in S :
        o \in {NotDone(a.pix)} \cup
              (IF ~a.ok \/ s = d THEN {}
               ELSE { [ok |-> TRUE, pix |-> [a.pix EXCEPT ![d] = DirtyPresent(r, D)]] :
                      r \in UNION { Present(a.pix, q) : q \in Flush(a.pix[d]) } })
  BY <1>0, ZenonT(60) DEF PresentCopy
<1>2. PICK v \in HwAccelValidate(f[s], SourceRegion(m)) :
        a = [ok |-> v.ok, pix |-> [f EXCEPT ![s] = v.p]]
  BY <1>1 DEF OnPixmap
<1> HIDE DEF S
<1>3. /\ Moves(Client!Kept(x[s]), f[s], v.p)
      /\ v.ok => SurfaceCurrent(v.p, SourceRegion(m))
  BY HwAccelValidateMoves DEF WholeScreen, Whole, GoodPixmap
<1>4. MovesAll(x, f, a.pix)
  BY <1>2, <1>3, MovesUpdate
<1>5. a.pix[s] = v.p /\ a.ok = v.ok
  BY <1>2 DEF WholeScreen, Screens
<1>6. CASE o = NotDone(a.pix)
  BY <1>4, <1>6, NotDoneIs, MovesTransferred
<1>7. CASE o # NotDone(a.pix)
  <2>1. PICK q \in Flush(a.pix[d]) :
          \E r \in Present(a.pix, q) :
            o = [ok |-> TRUE, pix |-> [a.pix EXCEPT ![d] = DirtyPresent(r, D)]]
    BY <1>1, <1>7
  <2>2. a.ok
    BY <1>1, <1>7
  <2> DEFINE b == [q EXCEPT !.fb_bits =
                     Client!ApplyCopy(@, a.pix[s].hw_bits, m)]
  <2>3. o = [ok |-> TRUE, pix |-> [a.pix EXCEPT ![d] = DirtyPresent(b, D)]]
    BY <2>1 DEF NoHazards
  <2>4. Whole(Client!Kept(x[d]), a.pix[d]) /\ Whole(Client!Kept(x[s]), a.pix[s])
    BY <1>4, MovesAllWhole DEF WholeScreen
  <2>5. Holds(a.pix[d], x[d]) /\ Holds(a.pix[s], x[s])
    BY <1>4, MovesAllWhole DEF WholeScreen
  <2>6. Makes(x[d], a.pix[d], q, x[d])
    <3>1. Renders(Client!Kept(x[d]), Client!Kept(x[d]), a.pix[d], q, Contents(a.pix[d]))
      BY <2>4, FlushRenders
    <3>2. \A t \in Tiles : Contents(a.pix[d])[t] = At(a.pix[d], t)
      BY <2>4, ContentsAt DEF Whole, GoodPixmap, CorePixmap
    <3> QED
      BY <2>5, <3>1, <3>2 DEF Makes, Renders, Holds
  <2>7. q.pending_update = {} /\ q.pending_present = {}
    BY <2>4, FlushGood DEF Whole
  <2>8. TracksPresents(q)
    <3>1. q.scanout <=> f[d].scanout
      BY <1>4, <2>6 DEF Makes, Renders, MovesAll, Moves, Migrates
    <3> QED
      BY <3>1 DEF TracksPresents
  <2>9. Whole(Client!Kept(x[d]), q) /\ Holds(q, x[d])
    BY <2>6, MakesHolds
  <2>10. Makes(x[d], q, DirtyPresent(b, D), Copying(m)[<<x[d], x[s]>>])
    BY <1>3, <1>5, <2>2, <2>4, <2>5, <2>7, <2>8, <2>9, CombinedPresent DEF WholeScreen
  <2> HIDE DEF b
  <2>11. Makes(x[d], a.pix[d], DirtyPresent(b, D), Copying(m)[<<x[d], x[s]>>])
    BY <2>6, <2>10, MakesTransitive
  <2> QED
    BY <1>4, <2>3, <2>11, RenderedTransferred
<1> QED
  BY <1>6, <1>7

(* The driver's copy, whichever way it goes.                               *)
LEMMA HwCopyDone ==
  ASSUME NoHazards, NEW x, NEW f, WholeScreen(x, f),
         NEW s \in Pixmaps, NEW d \in Pixmaps,
         NEW D \in SUBSET Tiles, NEW m \in [D -> Tiles],
         NEW o \in HwCopy(f, s, d, m)
  PROVE  Transferred(x, f, o, d, Copying(m)[<<x[d], x[s]>>])
<1>1. \/ o = NotDone(f)
      \/ TracksPresents(f[d]) /\ o \in PresentCopy(f, s, d, m)
      \/ o \in SurfaceCopy(f, s, d, m)
  <2>1. CASE ~master
    BY <2>1 DEF HwCopy
  <2>2. CASE master /\ TracksPresents(f[d]) /\ "SURFACE" \in f[s].backing
    BY <2>2 DEF HwCopy
  <2>3. CASE master /\ ~(TracksPresents(f[d]) /\ "SURFACE" \in f[s].backing)
    BY <2>3 DEF HwCopy
  <2> QED
    BY <2>1, <2>2, <2>3
<1>2. CASE o = NotDone(f)
  BY <1>2, NotDoneIs, MovesAllReflexive, MovesTransferred
<1>3. CASE TracksPresents(f[d]) /\ o \in PresentCopy(f, s, d, m)
  BY <1>3, PresentCopyDone
<1>4. CASE o \in SurfaceCopy(f, s, d, m)
  BY <1>4, SurfaceCopyDone
<1> QED
  BY <1>1, <1>2, <1>3, <1>4

(* A copy in software.                                                     *)
LEMMA SwCopyDone ==
  ASSUME NoHazards, NEW x, NEW f, WholeScreen(x, f),
         NEW s \in Pixmaps, NEW d \in Pixmaps,
         NEW read, NEW D \in SUBSET Tiles, NEW m \in [D -> Tiles],
         NEW o \in SwCopy(f, s, d, m, read)
  PROVE  Transferred(x, f, o, d, Copying(m)[<<x[d], x[s]>>])
<1>1. DOMAIN m = D /\ SourceRegion(m) \in SUBSET Tiles
  BY SourceRegionType
<1>2. o \in TransferSw(f, s, d, read, D, SourceRegion(m), Copying(m))
  BY <1>1 DEF SwCopy
<1>3. Local(Copying(m), D, {}, SourceRegion(m)) /\ Copying(m) \in Combinings
  BY CopyingLocal, CombiningType
<1>4. {} \in SUBSET Tiles /\ {} \subseteq read
  OBVIOUS
<1> QED
  BY <1>1, <1>2, <1>3, <1>4, TransferSwDone

(* What was not done leaves contents where they were ...                   *)
LEMMA NotTransferred ==
  ASSUME NEW x, NEW f, WholeScreen(x, f), NEW o, NEW d \in Pixmaps, NEW m,
         Transferred(x, f, o, d, m), ~o.ok
  PROVE  MovesAll(x, f, o.pix) /\ WholeScreen(x, o.pix)
<1>1. MovesAll(x, f, o.pix)
  BY DEF Transferred, MovesAll
<1> QED
  BY <1>1, MovesAllWhole

(* ... so software can do it after the driver could not.                   *)
LEMMA CopyNToNDone ==
  ASSUME NoHazards, NEW x, NEW f, WholeScreen(x, f),
         NEW s \in Pixmaps, NEW d \in Pixmaps,
         NEW read, NEW D \in SUBSET Tiles, NEW m \in [D -> Tiles],
         NEW o \in CopyNToN(f, s, d, m, read)
  PROVE  Transferred(x, f, o, d, Copying(m)[<<x[d], x[s]>>])
<1>1. PICK a \in HwCopy(f, s, d, m) :
        o \in IF a.ok THEN {a} ELSE SwCopy(a.pix, s, d, m, read)
  BY DEF CopyNToN
<1>2. Transferred(x, f, a, d, Copying(m)[<<x[d], x[s]>>])
  BY HwCopyDone
<1>3. CASE a.ok
  BY <1>1, <1>2, <1>3
<1>4. CASE ~a.ok
  <2>1. MovesAll(x, f, a.pix) /\ WholeScreen(x, a.pix)
    BY <1>2, <1>4, NotTransferred
  <2>2. Holds(a.pix[d], x[d]) /\ Holds(a.pix[s], x[s])
    BY <2>1, MovesAllWhole DEF WholeScreen
  <2>3. Transferred(x, a.pix, o, d, Copying(m)[<<x[d], x[s]>>])
    BY <1>1, <1>4, <2>1, <2>2, SwCopyDone
  <2> QED
    BY <2>1, <2>3, MovesThenTransferred
<1> QED
  BY <1>3, <1>4

(* A composite by the device, from surfaces that are current all over.     *)
LEMMA HwCompositeDone ==
  ASSUME NoHazards, NEW x, NEW f, WholeScreen(x, f),
         NEW s \in Pixmaps, NEW d \in Pixmaps,
         NEW D \in SUBSET Tiles, NEW m \in [D -> Tiles], NEW reads,
         NEW w \in Combinings, NEW need \in SUBSET Tiles,
         Local(w, D, need, SourceRegion(m)),
         NEW o \in HwComposite(f, s, d, m, reads, w)
  PROVE  Transferred(x, f, o, d, w[<<x[d], x[s]>>])
<1>1. DOMAIN m = D /\ SourceRegion(m) \in SUBSET Tiles
  BY SourceRegionType
<1> DEFINE S == MigrateBoth(f, s, d)
<1>2. o \in {NotDone(f)} \cup RenderHw(S, s, d, D, w)
  BY <1>1 DEF HwComposite, MigrateBoth
<1>3. ASSUME NEW a \in S
      PROVE  /\ MovesAll(x, f, a.pix)
             /\ a.ok => /\ SurfaceCurrent(a.pix[d], need)
                        /\ SurfaceCurrent(a.pix[s], SourceRegion(m))
  <2>1. /\ MovesAll(x, f, a.pix)
        /\ a.ok => SurfaceCurrent(a.pix[s], Tiles) /\ SurfaceCurrent(a.pix[d], Tiles)
    BY MigrateBothMoves
  <2> QED
    BY <1>1, <2>1 DEF SurfaceCurrent
<1> HIDE DEF S
<1>4. CASE o = NotDone(f)
  BY <1>4, NotDoneIs, MovesAllReflexive, MovesTransferred
<1>5. CASE o \in RenderHw(S, s, d, D, w)
  BY <1>1, <1>3, <1>5, RenderHwDone
<1> QED
  BY <1>2, <1>4, <1>5

----------------------------------------------------------------------------
(* What requests do to what clients find.                                  *)

(* The inductive invariant of contents: every pixmap is whole and holds    *)
(* what is kept of what the clients drew, GL clients included; the CRTC    *)
(* shows its entry, but for what waits or was lost; and no contents are    *)
(* only in hardware while the VT is away.                                  *)
CInv ==
  /\ IInv
  /\ \A p \in Pixmaps : /\ Whole(Client!Kept(mem[p]), pix[p]) /\ Holds(pix[p], mem[p])
                        /\ Flushed(pix[p])
  /\ shown => /\ entry \in Pixmaps /\ pix[entry].scanout
              /\ Fresh(Client!Kept(mem[entry]), pix[entry])
  /\ NothingHeldAway

(* From p, that held x, to a whole pixmap that holds m and that GL clients *)
(* and the CRTC find as good as p was.                                     *)
Serves(x, p, q, m) ==
  /\ Whole(Client!Kept(m), q) /\ Flushed(q) /\ Holds(q, m)
  /\ (q.scanout <=> p.scanout)
  /\ Fresh(Client!Kept(x), p) => Fresh(Client!Kept(m), q)

ServesAll == \A p \in Pixmaps : Serves(mem[p], pix[p], pix'[p], mem'[p])

(* The screen of the invariant.                                            *)
LEMMA CInvScreen ==
  ASSUME CInv
  PROVE  /\ IInv /\ WholeScreen(mem, pix) /\ mem \in [Pixmaps -> Memory]
         /\ \A p \in Pixmaps : Serves(mem[p], pix[p], pix[p], mem[p])
BY DEF CInv, IInv, WholeScreen, Serves

(* A request that touches one pixmap.                                      *)
LEMMA ServesUpdate ==
  ASSUME CInv, NEW p \in Pixmaps, NEW q, NEW m, Serves(mem[p], pix[p], q, m),
         pix' = [pix EXCEPT ![p] = q], mem' = [mem EXCEPT ![p] = m]
  PROVE  ServesAll
<1>1. pix'[p] = q /\ mem'[p] = m
  BY CInvScreen DEF WholeScreen, Screens
<1>2. \A r \in Pixmaps \ {p} : pix'[r] = pix[r] /\ mem'[r] = mem[r]
  BY CInvScreen DEF WholeScreen, Screens
<1> QED
  BY <1>1, <1>2, CInvScreen DEF ServesAll

(* A drawing, then the end of the operation.                               *)
LEMMA MakesServes ==
  ASSUME NoHazards, NEW x, NEW p, NEW q, NEW m, Makes(x, p, q, m),
         NEW vt, NEW r \in OperationComplete(q, vt)
  PROVE  Serves(x, p, r, m)
<1>1. Whole(Client!Kept(m), q) /\ \A t \in Tiles : t \in Client!Kept(m) => m[t] = At(q, t)
  BY MakesHolds DEF Holds
<1>2. Makes(m, q, r, m) /\ Flushed(r)
  BY <1>1, OperationCompleteKeeps DEF Makes
<1>3. Makes(x, p, r, m)
  BY <1>2, MakesTransitive
<1>4. Whole(Client!Kept(m), r) /\ Holds(r, m)
  BY <1>3, MakesHolds
<1> QED
  BY <1>2, <1>3, <1>4 DEF Makes, Renders, Serves

(* A move serves, as does one after which the operation ends.              *)
LEMMA MovesServes ==
  ASSUME NEW x, NEW p, Whole(Client!Kept(x), p), Flushed(p), Holds(p, x),
         NEW q, Moves(Client!Kept(x), p, q)
  PROVE  Serves(x, p, q, x) /\ Makes(x, p, q, x)
BY MovesWhole, MovesMakes DEF Serves

(* A request that draws, whether or not it was done.                       *)
LEMMA DrawsServes ==
  ASSUME NoHazards, CInv, NEW p \in Pixmaps, NEW S, NEW contents,
         \A o \in S : IF o.ok THEN Makes(mem[p], pix[p], o.p, contents)
                      ELSE Moves(Client!Kept(mem[p]), pix[p], o.p),
         Draws(p, S, contents)
  PROVE  ServesAll
<1>0. PICK o \in S : \E q \in OperationComplete(o.p, master) :
                      /\ pix' = [pix EXCEPT ![p] = q]
                      /\ mem' = IF o.ok THEN [mem EXCEPT ![p] = contents] ELSE mem
  BY DEF Draws
<1>1. PICK q \in OperationComplete(o.p, master) : pix' = [pix EXCEPT ![p] = q]
  BY <1>0
<1> DEFINE m == IF o.ok THEN contents ELSE mem[p]
<1>2. mem' = [mem EXCEPT ![p] = m]
  BY <1>0, CInvScreen
<1>3. Makes(mem[p], pix[p], o.p, m)
  BY MovesServes DEF CInv
<1> HIDE DEF m
<1>4. Serves(mem[p], pix[p], q, m)
  BY <1>1, <1>3, MakesServes
<1> QED
  BY <1>1, <1>2, <1>4, ServesUpdate

(* A request with source and destination, whether or not it was done.      *)
LEMMA TransfersServes ==
  ASSUME NoHazards, CInv, NEW d \in Pixmaps, NEW S, NEW contents,
         \A o \in S : Transferred(mem, pix, o, d, contents),
         Transfers(d, S, contents)
  PROVE  ServesAll
<1>0. PICK o \in S : \E q \in OperationComplete(o.pix[d], master) :
                      /\ pix' = [o.pix EXCEPT ![d] = q]
                      /\ mem' = IF o.ok THEN [mem EXCEPT ![d] = contents] ELSE mem
  BY DEF Transfers
<1>1. PICK q \in OperationComplete(o.pix[d], master) :
        pix' = [o.pix EXCEPT ![d] = q]
  BY <1>0
<1> DEFINE m == IF o.ok THEN contents ELSE mem[d]
<1>2. mem' = [mem EXCEPT ![d] = m]
  BY <1>0, CInvScreen
<1>3. Transferred(mem, pix, o, d, contents)
  OBVIOUS
<1>4. Makes(mem[d], pix[d], o.pix[d], m)
  BY <1>3, MovesServes DEF CInv, Transferred
<1> HIDE DEF m
<1>5. Serves(mem[d], pix[d], q, m)
  BY <1>1, <1>4, MakesServes
<1>6. pix'[d] = q /\ mem'[d] = m
  BY <1>1, <1>2, <1>3, CInvScreen DEF Transferred, Screens
<1>7. ASSUME NEW p \in Pixmaps \ {d} PROVE Serves(mem[p], pix[p], pix'[p], mem'[p])
  <2>1. pix'[p] = o.pix[p] /\ mem'[p] = mem[p]
    BY <1>1, <1>2, <1>3, CInvScreen DEF Transferred, Screens
  <2>2. Moves(Client!Kept(mem[p]), pix[p], o.pix[p])
    BY <1>3 DEF Transferred
  <2> QED
    BY <2>1, <2>2, MovesServes DEF CInv
<1> QED
  BY <1>5, <1>6, <1>7 DEF ServesAll

(* A drawing writes R, and turns what is kept of x in need into m.         *)
LocalDrawing(w, R, need, x, m) ==
  \A a \in Image : \A t \in Tiles :
    IF t \notin R THEN w[a][t] = a[t] /\ m[t] = x[t]
    ELSE t \in Client!Kept(m) /\ Agrees(a, x, need) => w[a][t] = m[t]

(* A fill of W reads nothing of W, a blend reads what it writes, and a     *)
(* push of W in R leaves the rest of R but for what is lost.               *)
LEMMA DrawingLocal ==
  ASSUME NEW c \in Colors, NEW R \in SUBSET Tiles, NEW x \in Memory
  PROVE  /\ LocalDrawing(Filling(R, c), R, {}, x, Filling(R, c)[x])
         /\ LocalDrawing(Blending(R, c), R, R, x, Blending(R, c)[x])
         /\ \A W \in SUBSET R, L \in SUBSET Tiles :
              LocalDrawing(Filling(W, c), R, (R \ W) \ L, x,
                           Client!Forget(Filling(W, c)[x], (R \ W) \cap L))
<1>1. ASSUME NEW a \in Memory, NEW W, NEW t \in Tiles
      PROVE  /\ Filling(W, c)[a][t] = IF t \in W THEN c ELSE a[t]
             /\ Blending(W, c)[a][t] = IF t \in W THEN Client!Mixed(a[t], c) ELSE a[t]
  <2>1. /\ Filling(W, c)[a] = Client!ApplyFill(a, W, c)
        /\ Blending(W, c)[a] = Client!ApplyBlend(a, W, c)
    BY DEF Filling, Blending
  <2>2. Client!ApplyFill(a, W, c)[t] = IF t \in W THEN c ELSE a[t]
    BY DEF Client!ApplyFill
  <2>3. Client!ApplyBlend(a, W, c)[t] = IF t \in W THEN Client!Mixed(a[t], c) ELSE a[t]
    BY DEF Client!ApplyBlend
  <2> QED
    BY <2>1, <2>2, <2>3
<1>2. LocalDrawing(Filling(R, c), R, {}, x, Filling(R, c)[x])
  BY <1>1, ImageIsMemory DEF LocalDrawing
<1>3. LocalDrawing(Blending(R, c), R, R, x, Blending(R, c)[x])
  <2> DEFINE w == Blending(R, c)
  <2>1. ASSUME NEW a \in Image, NEW t \in Tiles, t \notin R
        PROVE  w[a][t] = a[t] /\ w[x][t] = x[t]
    BY <1>1, <2>1, ImageIsMemory
  <2>2. ASSUME NEW a \in Image, NEW t \in R, t \in Client!Kept(w[x]), Agrees(a, x, R)
        PROVE  w[a][t] = w[x][t]
    <3>1. w[a][t] = Client!Mixed(a[t], c) /\ w[x][t] = Client!Mixed(x[t], c)
      BY <1>1, ImageIsMemory
    <3>2. Client!Mixed(x[t], c) # Lost
      BY <2>2, <3>1 DEF Client!Kept
    <3>3. x[t] \in Values \cup {Lost} /\ c \in Values \cup {Lost}
      BY DEF Memory, Values
    <3>4. x[t] # Lost
      BY <3>2, <3>3, MixedType
    <3>5. a[t] = x[t]
      BY <2>2, <3>4 DEF Agrees, Client!Kept
    <3> QED
      BY <3>1, <3>5
  <2> HIDE DEF w
  <2>3. LocalDrawing(w, R, R, x, w[x])
    BY <2>1, <2>2 DEF LocalDrawing
  <2> QED
    BY <2>3 DEF w
<1>4. ASSUME NEW W \in SUBSET R, NEW L \in SUBSET Tiles
      PROVE  LocalDrawing(Filling(W, c), R, (R \ W) \ L, x,
                          Client!Forget(Filling(W, c)[x], (R \ W) \cap L))
  <2> DEFINE w == Filling(W, c)
             m == Client!Forget(w[x], (R \ W) \cap L)
  <2>1. \A t \in Tiles : m[t] = IF t \in (R \ W) \cap L THEN Lost ELSE w[x][t]
    BY DEF Client!Forget
  <2>2. ASSUME NEW a \in Image, NEW t \in Tiles
        PROVE  /\ w[a][t] = IF t \in W THEN c ELSE a[t]
               /\ w[x][t] = IF t \in W THEN c ELSE x[t]
    BY <1>1, ImageIsMemory
  <2> HIDE DEF w, m
  <2>3. ASSUME NEW a \in Image, NEW t \in Tiles, t \notin R
        PROVE  w[a][t] = a[t] /\ m[t] = x[t]
    BY <2>1, <2>2, <2>3
  <2>4. ASSUME NEW a \in Image, NEW t \in R, t \in Client!Kept(m),
               Agrees(a, x, (R \ W) \ L)
        PROVE  w[a][t] = m[t]
    <3>1. CASE t \in W
      BY <2>1, <2>2, <3>1
    <3>2. CASE t \notin W
      <4>1. m[t] # Lost
        BY <2>4 DEF Client!Kept
      <4>2. t \in (R \ W) \ L /\ m[t] = x[t]
        BY <2>1, <2>2, <3>2, <4>1
      <4>3. a[t] = x[t]
        BY <2>4, <4>1, <4>2 DEF Agrees, Client!Kept
      <4> QED
        BY <2>2, <3>2, <4>2, <4>3
    <3> QED
      BY <3>1, <3>2
  <2>5. LocalDrawing(w, R, (R \ W) \ L, x, m)
    BY <2>3, <2>4 DEF LocalDrawing
  <2> QED
    BY <2>5 DEF w, m
<1> QED
  BY <1>2, <1>3, <1>4

(* Software rendering does what the client meant, where software storage   *)
(* is current on what the drawing needs and the readback does not bring.   *)
LEMMA RenderSwDone ==
  ASSUME NoHazards, NEW x, NEW p, Whole(Client!Kept(x), p), Holds(p, x), NEW read,
         NEW R \in SUBSET Tiles, NEW need \in SUBSET Tiles,
         p.dirty_hw \cap (need \ read) = {},
         NEW w \in Drawings, NEW m, LocalDrawing(w, R, need, x, m),
         NEW o \in RenderSw(p, read, R, w)
  PROVE  IF o.ok THEN Makes(x, p, o.p, m) ELSE Moves(Client!Kept(x), p, o.p)
<1>1. PICK a \in PrepareAccess(p, read) :
        o \in IF a.ok
              THEN { Done(q) : q \in DirtySw([a.p EXCEPT !.sw_bits = w[a.p.sw_bits]], R) }
              ELSE {a}
  BY DEF RenderSw
<1>2. /\ Moves(Client!Kept(x), p, a.p)
      /\ a.ok => HasStorage(a.p) /\ a.p.dirty_hw \cap read = {}
  BY PrepareAccessMoves DEF Whole, GoodPixmap
<1>3. CASE ~a.ok
  BY <1>1, <1>2, <1>3
<1>4. CASE a.ok
  <2> DEFINE b == w[a.p.sw_bits]
  <2>1. PICK q \in DirtySw([a.p EXCEPT !.sw_bits = b], R) : o = Done(q)
    BY <1>1, <1>4
  <2>2. Whole(Client!Kept(x), a.p) /\ Holds(a.p, x)
    BY <1>2, MovesMakes
  <2>3. a.p.sw_bits \in Image /\ b \in Image
    BY <2>2, GoodBits, DrawingApplied DEF Whole
  <2>4. a.p.dirty_hw \cap need = {}
    BY <1>2, <1>4 DEF Moves, Migrates
  <2>5. Agrees(a.p.sw_bits, x, need)
    BY <2>2, <2>4, CurrentBits DEF Whole, Holds, Agrees
  <2>6. \A t \in Tiles : t \in R /\ t \in Client!Kept(m) => b[t] = m[t]
    BY <2>3, <2>5 DEF LocalDrawing
  <2>7. \A t \in Tiles : t \notin R => b[t] = a.p.sw_bits[t] /\ m[t] = x[t]
    BY <2>3 DEF LocalDrawing
  <2> HIDE DEF b
  <2> DEFINE K == Client!Kept(x)
             L == Client!Kept(m)
  <2>8. \A t \in Tiles : t \in L => t \in K \/ t \in R
    BY <2>7, KeptOutside
  <2>9. \A t \in K : t \in Tiles => x[t] = At(a.p, t)
    BY <2>2 DEF Holds
  <2> HIDE DEF K, L
  <2>10. \A t \in Tiles : t \in L => m[t] = IF t \in R THEN b[t] ELSE At(a.p, t)
    BY <2>6, <2>7, <2>8, <2>9 DEF L
  <2>11. \A t \in Tiles \ R : b[t] = a.p.sw_bits[t]
    BY <2>7
  <2>12. Renders(K, L, a.p, q, m)
    BY <1>2, <1>4, <2>1, <2>2, <2>3, <2>8, <2>10, <2>11, DirtySwRenders DEF K
  <2>13. Makes(x, p, q, m)
    BY <1>2, <2>12, MovesThenMakes DEF Makes, K, L
  <2> QED
    BY <2>1, <2>13, DoneIs
<1> QED
  BY <1>3, <1>4

(* Drawing requests do what the client meant.                              *)
LEMMA DrawingServes ==
  ASSUME NoHazards, CInv, NEW p \in Pixmaps, NEW R \in Rects, NEW c \in Colors
  PROVE  /\ SwDraw(p, R, c) => ServesAll
         /\ SwFill(p, R, c) => ServesAll
         /\ \A W \in SUBSET R : PushPixels(p, W, R, c) => ServesAll
<1>1. /\ R \in SUBSET Tiles /\ Whole(Client!Kept(mem[p]), pix[p])
      /\ Holds(pix[p], mem[p]) /\ mem[p] \in Memory
  BY RequestsAssumption, CInvScreen DEF CInv
<1>2. ASSUME NEW read, NEW need \in SUBSET Tiles,
             pix[p].dirty_hw \cap (need \ read) = {},
             NEW w \in Drawings, NEW m, LocalDrawing(w, R, need, mem[p], m),
             Draws(p, RenderSw(pix[p], read, R, w), m)
      PROVE  ServesAll
  <2>1. \A o \in RenderSw(pix[p], read, R, w) :
          IF o.ok THEN Makes(mem[p], pix[p], o.p, m)
          ELSE Moves(Client!Kept(mem[p]), pix[p], o.p)
    BY <1>1, <1>2, RenderSwDone
  <2> QED
    BY <1>2, <2>1, DrawsServes
<1>3. SwDraw(p, R, c) => ServesAll
  <2>1. /\ LocalDrawing(Blending(R, c), R, R, mem[p], Blending(R, c)[mem[p]])
        /\ Blending(R, c) \in Drawings
    BY <1>1, DrawingLocal, DrawingType
  <2>2. pix[p].dirty_hw \cap (R \ R) = {}
    OBVIOUS
  <2> QED
    BY <1>1, <1>2, <2>1, <2>2 DEF SwDraw
<1>4. SwFill(p, R, c) => ServesAll
  <2>1. /\ LocalDrawing(Filling(R, c), R, {}, mem[p], Filling(R, c)[mem[p]])
        /\ Filling(R, c) \in Drawings
    BY <1>1, DrawingLocal, DrawingType
  <2>2. pix[p].dirty_hw \cap ({} \ {}) = {} /\ {} \in SUBSET Tiles
    OBVIOUS
  <2> QED
    BY <1>2, <2>1, <2>2 DEF SwFill
<1>5. ASSUME NEW W \in SUBSET R, PushPixels(p, W, R, c) PROVE ServesAll
  <2> DEFINE need == (R \ W) \ pix[p].dirty_hw
             m == Client!Forget(Filling(W, c)[mem[p]], (R \ W) \cap pix[p].dirty_hw)
  <2>1. pix[p].dirty_hw \in SUBSET Tiles
    BY <1>1 DEF Whole, GoodPixmap, CorePixmap, PixmapRecord
  <2>2. LocalDrawing(Filling(W, c), R, need, mem[p], m) /\ Filling(W, c) \in Drawings
    BY <1>1, <2>1, DrawingLocal, DrawingType
  <2>3. pix[p].dirty_hw \cap (need \ {}) = {} /\ need \in SUBSET Tiles
    BY <1>1
  <2>4. Draws(p, RenderSw(pix[p], {}, R, Filling(W, c)), m)
    BY <1>5 DEF PushPixels
  <2> HIDE DEF need, m
  <2> QED
    BY <1>2, <2>2, <2>3, <2>4
<1> QED
  BY <1>3, <1>4, <1>5

(* Reading a pixel returns what was drawn there, if that was not lost, or  *)
(* nothing.                                                                *)
LEMMA GetImageServes ==
  ASSUME NoHazards, CInv, NEW p \in Pixmaps, NEW t \in Tiles, GetImage(p, t)
  PROVE  /\ ServesAll
         /\ \/ reply' = NoReply
            \/ IF mem[p][t] = Lost THEN reply' \in Values ELSE reply' = mem[p][t]
<1>1. PICK o \in PrepareAccess(pix[p], {t}) :
        /\ pix' = [pix EXCEPT ![p] = o.p]
        /\ reply' = IF o.ok THEN o.p.sw_bits[t] ELSE NoReply
  BY DEF GetImage
<1>2. Whole(Client!Kept(mem[p]), pix[p]) /\ Flushed(pix[p]) /\ Holds(pix[p], mem[p])
  BY DEF CInv
<1>3. /\ Moves(Client!Kept(mem[p]), pix[p], o.p)
      /\ o.ok => o.p.dirty_hw \cap {t} = {}
  BY <1>1, <1>2, PrepareAccessMoves DEF Whole, GoodPixmap
<1>4. Serves(mem[p], pix[p], o.p, mem[p])
  BY <1>2, <1>3, MovesServes
<1>5. mem' = [mem EXCEPT ![p] = mem[p]]
  BY CInvScreen DEF GetImage
<1>6. ServesAll
  BY <1>1, <1>4, <1>5, ServesUpdate
<1>7. o.ok /\ mem[p][t] # Lost => o.p.sw_bits[t] = mem[p][t]
  BY <1>3, <1>4 DEF Serves, Holds, At, Client!Kept
<1>8. o.p.sw_bits[t] \in Values
  <2>1. o.p.sw_bits \in Image
    BY <1>4, GoodBits DEF Serves, Whole
  <2> QED
    BY <2>1 DEF Image
<1> QED
  BY <1>1, <1>6, <1>7, <1>8

(* Nothing was drawn in a new pixmap.                                      *)
LEMMA NewPixmapWhole ==
  ASSUME NEW K
  PROVE  Whole(K, NewPixmap) /\ Flushed(NewPixmap) /\ Holds(NewPixmap, Blank)
<1>1. \A t \in Tiles : TileSound(K, NewPixmap, t) /\ At(NewPixmap, t) = Junk
  BY DEF NewPixmap, TileSound, At, HasStorage, Blank
<1>2. Sound(K, NewPixmap) /\ PendingSound(NewPixmap) /\ Flushed(NewPixmap)
  <2>1. /\ NewPixmap.fronts = 0 /\ NewPixmap.sync = FALSE
        /\ NewPixmap.pending_present = {}
    BY DEF NewPixmap
  <2>2. ~(NewPixmap.fronts > 0)
    BY <2>1
  <2> QED
    BY <1>1, <2>1, <2>2 DEF Sound, PendingSound, Flushed
<1>3. Holds(NewPixmap, Blank)
  BY <1>1 DEF Holds, Blank
<1> QED
  BY <1>2, <1>3, NewPixmapGood DEF Whole

(* Freeing a pixmap, which is not scanned out.                             *)
LEMMA DestroyServes ==
  ASSUME NoHazards, CInv, NEW p \in Pixmaps, DestroyPixmap(p)
  PROVE  ServesAll
<1>1. ~pix[p].scanout
  BY DEF DestroyPixmap, CInv, IInv
<1>2. Serves(mem[p], pix[p], NewPixmap, Blank)
  BY <1>1, NewPixmapWhole DEF Serves, Fresh, NewPixmap
<1>3. mem' = [mem EXCEPT ![p] = Blank]
  BY DEF DestroyPixmap, Client!Discard, Client!Set, Client!Blank, Blank
<1> QED
  BY <1>2, <1>3, ServesUpdate DEF DestroyPixmap

(* Copies and composites do what the client meant.                         *)
LEMMA CopyAreaServes ==
  ASSUME NoHazards, CInv, NEW s \in Pixmaps, NEW d \in Pixmaps,
         NEW m \in Translations, CopyArea(s, d, m)
  PROVE  ServesAll
<1>1. PICK D \in SUBSET Tiles : m \in [D -> Tiles]
  BY TranslationTypes
<1>2. WholeScreen(mem, pix)
  BY CInvScreen
<1>3. \A o \in CopyNToN(pix, s, d, m, {}) :
        Transferred(mem, pix, o, d, Copying(m)[<<mem[d], mem[s]>>])
  BY <1>1, <1>2, CopyNToNDone
<1>4. Transfers(d, CopyNToN(pix, s, d, m, {}), Copying(m)[<<mem[d], mem[s]>>])
  BY DEF CopyArea
<1> QED
  BY <1>3, <1>4, TransfersServes

(* Composites.                                                             *)
LEMMA CompositeOverServes ==
  ASSUME NoHazards, CInv, NEW s \in Pixmaps, NEW d \in Pixmaps,
         NEW m \in Translations, CompositeOver(s, d, m)
  PROVE  ServesAll
<1>1. PICK D \in SUBSET Tiles : m \in [D -> Tiles]
  BY TranslationTypes
<1>2. WholeScreen(mem, pix)
  BY CInvScreen
<1>0. DOMAIN m = D /\ SourceRegion(m) \in SUBSET Tiles
  BY <1>1, SourceRegionType
<1> DEFINE w == Compositing(m)
           H == HwComposite(pix, s, d, m, TRUE, w)
           T(f) == TransferSw(f, s, d, D, D, SourceRegion(m), w)
           S == UNION { IF o.ok THEN {o} ELSE T(o.pix) : o \in H }
<1>3. w \in Combinings /\ Local(w, D, D, SourceRegion(m))
  BY <1>1, CombiningType, CompositingLocal
<1>4. Transfers(d, S, w[<<mem[d], mem[s]>>])
  BY <1>0 DEF CompositeOver
<1> HIDE DEF w
<1>6. ASSUME NEW h \in H PROVE Transferred(mem, pix, h, d, w[<<mem[d], mem[s]>>])
  BY <1>1, <1>2, <1>3, HwCompositeDone
<1>7. ASSUME NEW f, WholeScreen(mem, f), NEW o \in T(f)
      PROVE  Transferred(mem, f, o, d, w[<<mem[d], mem[s]>>])
  <2>1. D \subseteq D
    OBVIOUS
  <2> QED
    BY <1>0, <1>3, <1>7, <2>1, TransferSwDone
<1> HIDE DEF H, T
<1>8. ASSUME NEW o \in S PROVE Transferred(mem, pix, o, d, w[<<mem[d], mem[s]>>])
  <2>1. PICK h \in H : o \in IF h.ok THEN {h} ELSE T(h.pix)
    OBVIOUS
  <2>2. Transferred(mem, pix, h, d, w[<<mem[d], mem[s]>>])
    BY <1>6
  <2>3. CASE h.ok
    BY <2>1, <2>2, <2>3
  <2>4. CASE ~h.ok
    <3>1. MovesAll(mem, pix, h.pix) /\ WholeScreen(mem, h.pix)
      BY <1>2, <2>2, <2>4, NotTransferred
    <3>2. Transferred(mem, h.pix, o, d, w[<<mem[d], mem[s]>>])
      BY <1>7, <2>1, <2>4, <3>1
    <3> QED
      BY <1>2, <3>1, <3>2, MovesThenTransferred
  <2> QED
    BY <2>3, <2>4
<1> HIDE DEF S
<1> QED
  BY <1>4, <1>8, TransfersServes

(* PictOpSrc: as a copy, as a composite, in software.                      *)
LEMMA CompositeSrcServes ==
  ASSUME NoHazards, CInv, NEW s \in Pixmaps, NEW d \in Pixmaps,
         NEW m \in Translations, CompositeSrc(s, d, m)
  PROVE  ServesAll
<1>1. PICK D \in SUBSET Tiles : m \in [D -> Tiles]
  BY TranslationTypes
<1>2. WholeScreen(mem, pix)
  BY CInvScreen
<1> DEFINE w == Copying(m)
           H(f) == HwComposite(f, s, d, m, FALSE, w)
           C(f) == UNION { IF o.ok THEN {o} ELSE SwCopy(o.pix, s, d, m, {}) :
                           o \in H(f) }
           S == UNION { IF o.ok THEN {o} ELSE C(o.pix) : o \in HwCopy(pix, s, d, m) }
<1>3. w \in Combinings /\ Local(w, D, {}, SourceRegion(m)) /\ {} \in SUBSET Tiles
  BY <1>1, CombiningType, CopyingLocal
<1>4. Transfers(d, S, w[<<mem[d], mem[s]>>])
  BY DEF CompositeSrc
<1>6. ASSUME NEW f, WholeScreen(mem, f), NEW h \in H(f)
      PROVE  Transferred(mem, f, h, d, w[<<mem[d], mem[s]>>])
  BY <1>1, <1>3, <1>6, HwCompositeDone
<1>7. ASSUME NEW f, WholeScreen(mem, f),
             NEW o \in SwCopy(f, s, d, m, {})
      PROVE  Transferred(mem, f, o, d, w[<<mem[d], mem[s]>>])
  BY <1>1, <1>7, SwCopyDone
<1>8. ASSUME NEW h \in HwCopy(pix, s, d, m)
      PROVE  Transferred(mem, pix, h, d, w[<<mem[d], mem[s]>>])
  BY <1>1, <1>2, HwCopyDone
<1> HIDE DEF H, w
<1>9. ASSUME NEW f, WholeScreen(mem, f),
             NEW h, Transferred(mem, f, h, d, w[<<mem[d], mem[s]>>]), ~h.ok
      PROVE  MovesAll(mem, f, h.pix) /\ WholeScreen(mem, h.pix)
  BY <1>9, NotTransferred
<1>10. ASSUME NEW f, WholeScreen(mem, f), NEW o \in C(f)
       PROVE  Transferred(mem, f, o, d, w[<<mem[d], mem[s]>>])
  <2>1. PICK h \in H(f) : o \in IF h.ok THEN {h} ELSE SwCopy(h.pix, s, d, m, {})
    BY <1>10
  <2>2. Transferred(mem, f, h, d, w[<<mem[d], mem[s]>>])
    BY <1>6, <1>10
  <2>3. CASE h.ok
    BY <2>1, <2>2, <2>3
  <2>4. CASE ~h.ok
    <3>1. MovesAll(mem, f, h.pix) /\ WholeScreen(mem, h.pix)
      BY <1>9, <1>10, <2>2, <2>4
    <3>2. Transferred(mem, h.pix, o, d, w[<<mem[d], mem[s]>>])
      BY <1>7, <2>1, <2>4, <3>1
    <3> QED
      BY <1>10, <3>1, <3>2, MovesThenTransferred
  <2> QED
    BY <2>3, <2>4
<1> HIDE DEF C
<1>11. ASSUME NEW o \in S PROVE Transferred(mem, pix, o, d, w[<<mem[d], mem[s]>>])
  <2>1. PICK h \in HwCopy(pix, s, d, m) : o \in IF h.ok THEN {h} ELSE C(h.pix)
    OBVIOUS
  <2>2. Transferred(mem, pix, h, d, w[<<mem[d], mem[s]>>])
    BY <1>8
  <2>3. CASE h.ok
    BY <2>1, <2>2, <2>3
  <2>4. CASE ~h.ok
    <3>1. MovesAll(mem, pix, h.pix) /\ WholeScreen(mem, h.pix)
      BY <1>2, <1>9, <2>2, <2>4
    <3>2. Transferred(mem, h.pix, o, d, w[<<mem[d], mem[s]>>])
      BY <1>10, <2>1, <2>4, <3>1
    <3> QED
      BY <1>2, <3>1, <3>2, MovesThenTransferred
  <2> QED
    BY <2>3, <2>4
<1> HIDE DEF S
<1> QED
  BY <1>4, <1>11, TransfersServes

----------------------------------------------------------------------------
(* Mode setting and the virtual terminal.                                  *)

(* What changes nothing a client can read, the screen apart.               *)
Stays(K, p, q) ==
  SameContents(K, p, q) /\ (q.scanout <=> p.scanout) /\ (Fresh(K, p) => Fresh(K, q))

(* A pixmap that stays serves its clients as it did.                       *)
LEMMA StaysServes ==
  ASSUME NEW x, NEW p, Flushed(p), Holds(p, x), NEW q, Stays(Client!Kept(x), p, q)
  PROVE  Serves(x, p, q, x)
BY DEF Stays, SameContents, Serves, Holds

(* A move stays.                                                           *)
LEMMA MovesStays ==
  ASSUME NEW K, NEW p, Whole(K, p), NEW q, Moves(K, p, q)
  PROVE  Stays(K, p, q)
BY MovesWhole DEF Stays, SameContents

(* The block handler's flush changes nothing a client can read.            *)
LEMMA BlockHandlerServes ==
  ASSUME NoHazards, CInv, BlockHandler
  PROVE  ServesAll
<1>1. PICK q \in Flush(pix[entry]) : pix' = [pix EXCEPT ![entry] = q]
  BY DEF BlockHandler
<1>2. entry \in Pixmaps
  BY ScreenAssumption, CInvScreen DEF BlockHandler, IInv
<1>3. /\ Whole(Client!Kept(mem[entry]), pix[entry])
      /\ Flushed(pix[entry]) /\ Holds(pix[entry], mem[entry])
  BY <1>2 DEF CInv
<1>4. /\ Renders(Client!Kept(mem[entry]), Client!Kept(mem[entry]), pix[entry], q,
                 Contents(pix[entry]))
      /\ q.sync = pix[entry].sync /\ q.dirty_shadow \subseteq pix[entry].dirty_shadow
  BY <1>1, <1>3, FlushRenders
<1>5. \A t \in Tiles : Contents(pix[entry])[t] = At(pix[entry], t)
  BY <1>3, ContentsAt DEF Whole, GoodPixmap, CorePixmap
<1>6. Flushed(q)
  BY <1>3, <1>4 DEF Flushed, Renders
<1>7. Serves(mem[entry], pix[entry], q, mem[entry])
  BY <1>3, <1>4, <1>5, <1>6 DEF Serves, Renders, Holds
<1>8. mem' = [mem EXCEPT ![entry] = mem[entry]]
  BY <1>2, CInvScreen DEF BlockHandler, Client!Internal
<1> QED
  BY <1>1, <1>2, <1>7, <1>8, ServesUpdate

(* No client can tell one screen from the other.                           *)
SameScreen(x, f, g) ==
  /\ g \in Screens
  /\ \A p \in Pixmaps : SameContents(Client!Kept(x[p]), f[p], g[p])

(* Doing nothing, one thing after another and a change of one pixmap leave *)
(* the same screen.                                                        *)
LEMMA SameContentsReflexive == ASSUME NEW K, NEW p, Whole(K, p) PROVE SameContents(K, p, p)
BY DEF SameContents

(* One after another.                                                      *)
LEMMA SameScreenTransitive ==
  ASSUME NEW x, NEW f, NEW g, NEW h, SameScreen(x, f, g), SameScreen(x, g, h)
  PROVE  SameScreen(x, f, h)
BY DEF SameScreen, SameContents

(* One pixmap.                                                             *)
LEMMA SameScreenUpdate ==
  ASSUME NEW x, NEW f, WholeScreen(x, f), NEW p \in Pixmaps,
         NEW q, SameContents(Client!Kept(x[p]), f[p], q)
  PROVE  SameScreen(x, f, [f EXCEPT ![p] = q])
<1>1. q \in GoodPixmap
  BY DEF SameContents, Whole
<1>2. \A r \in Pixmaps : SameContents(Client!Kept(x[r]), f[r], f[r])
  BY SameContentsReflexive DEF WholeScreen
<1> QED
  BY <1>1, <1>2 DEF WholeScreen, SameScreen, Screens

(* The same screen is whole.                                               *)
LEMMA SameScreenWhole ==
  ASSUME NEW x, NEW f, WholeScreen(x, f), NEW g, SameScreen(x, f, g)
  PROVE  WholeScreen(x, g)
BY DEF SameScreen, SameContents, WholeScreen, Holds

(* The CRTC gives up a pixmap nothing is presented on.                     *)
LEMMA UnrefSame ==
  ASSUME NoHazards, NEW x, NEW f, WholeScreen(x, f), NEW e \in Pixmaps,
         f[e].dirty_present = {}, NEW g \in Unref(f, e)
  PROVE  SameScreen(x, f, g)
<1>1. PICK q \in ScanoutUnref(f[e]) : g = [f EXCEPT ![e] = q]
  BY DEF Unref
<1>2. SameContents(Client!Kept(x[e]), f[e], q)
  BY <1>1, ScanoutUnrefKeeps DEF WholeScreen
<1> QED
  BY <1>1, <1>2, SameScreenUpdate

(* A mode set changes nothing a client can read; the new pixmap is on the  *)
(* screen but for what waits when it was done, and as it was when there    *)
(* was nothing to do and that failed.                                      *)
LEMMA SetModeSame ==
  ASSUME NoHazards, NEW x, NEW f, WholeScreen(x, f), NEW e \in Scanouts \cup {NoPixmap},
         ShowsOnly(f, e), NEW q \in Scanouts,
         e \notin {q, NoPixmap} => f[e].dirty_present = {},
         NEW o \in SetMode(f, e, q)
  PROVE  /\ SameScreen(x, f, o.pix)
         /\ o.ok => o.pix[q].scanout /\ Fresh(Client!Kept(x[q]), o.pix[q])
         /\ ~o.ok /\ e = q => o.pix = f
<1> DEFINE RefStep(p) == IF e # q THEN ScanoutRef(p)
                         ELSE IF p.scanout THEN {Done(p)} ELSE {Failed(p)}
           start == IF e \in {q, NoPixmap} THEN {f} ELSE Unref(f, e)
           S == OnPixmap({[ok |-> TRUE, pix |-> g] : g \in start}, q, RefStep)
<1>1. PICK a \in S :
        o \in {NotDone(a.pix)} \cup
              (IF a.ok THEN {[ok |-> TRUE,
                              pix |-> [a.pix EXCEPT ![q] = ScanoutRefresh(a.pix[q])]]}
               ELSE {})
  BY DEF SetMode
<1>2. PICK c \in {[ok |-> TRUE, pix |-> g] : g \in start} :
        a \in IF c.ok
              THEN { [ok |-> r.ok, pix |-> [c.pix EXCEPT ![q] = r.p]] :
                     r \in RefStep(c.pix[q]) }
              ELSE {c}
  BY <1>1 DEF OnPixmap
<1>3. PICK g \in start : c = [ok |-> TRUE, pix |-> g]
  BY <1>2
<1>4. q \in Pixmaps /\ q # NoPixmap
  BY ScreenAssumption
<1>5. /\ SameScreen(x, f, g) /\ (e = q => g = f)
      /\ IF e = q THEN ShowsOnly(g, q) ELSE ShowsOnly(g, NoPixmap)
  <2>1. CASE e \in {q, NoPixmap}
    BY <1>3, <2>1, SameContentsReflexive DEF SameScreen, WholeScreen
  <2>2. CASE e \notin {q, NoPixmap}
    <3>1. g \in Unref(f, e) /\ e \in Scanouts /\ e \in Pixmaps
      BY <1>3, <2>2, ScreenAssumption
    <3> QED
      BY <2>2, <3>1, UnrefShowsNothing, UnrefSame
  <2> QED
    BY <2>1, <2>2
<1>6. WholeScreen(x, g) /\ Whole(Client!Kept(x[q]), g[q]) /\ g \in Screens
  BY <1>4, <1>5, SameScreenWhole DEF WholeScreen
<1>7. PICK r \in RefStep(g[q]) : a = [ok |-> r.ok, pix |-> [g EXCEPT ![q] = r.p]]
  BY <1>2, <1>3
<1>8. /\ SameContents(Client!Kept(x[q]), g[q], r.p)
      /\ r.ok => r.p.scanout
      /\ e = q => r.p = g[q]
  <2>1. CASE e # q
    <3>1. ~g[q].scanout
      BY <1>4, <1>5, <2>1 DEF ShowsOnly
    <3>2. r \in ScanoutRef(g[q])
      BY <1>7, <2>1
    <3>3. r.ok => r.p.scanout
      BY <1>6, <3>1, <3>2, ScanoutRefGood DEF Whole
    <3>4. SameContents(Client!Kept(x[q]), g[q], r.p)
      BY <1>6, <3>1, <3>2, ScanoutRefKeeps
    <3> QED
      BY <2>1, <3>3, <3>4
  <2>2. CASE e = q /\ g[q].scanout
    BY <1>6, <1>7, <2>2, DoneIs, SameContentsReflexive
  <2>3. CASE e = q /\ ~g[q].scanout
    BY <1>6, <1>7, <2>3, FailedIs, SameContentsReflexive
  <2> QED
    BY <2>1, <2>2, <2>3
<1> HIDE DEF S, start, RefStep
<1>9. a.ok = r.ok /\ a.pix = [g EXCEPT ![q] = r.p] /\ a.pix[q] = r.p
  BY <1>4, <1>6, <1>7 DEF Screens
<1>10. SameScreen(x, g, a.pix)
  BY <1>4, <1>6, <1>8, <1>9, SameScreenUpdate
<1>11. SameScreen(x, f, a.pix) /\ WholeScreen(x, a.pix)
  BY <1>5, <1>10, SameScreenTransitive, SameScreenWhole
<1>12. e = q => a.pix = f
  <2>1. ASSUME e = q PROVE a.pix = f
    <3>1. a.pix = [f EXCEPT ![q] = f[q]] /\ f \in [Pixmaps -> GoodPixmap]
      BY <1>5, <1>8, <1>9, <2>1 DEF WholeScreen, Screens
    <3> QED
      BY <3>1
  <2> QED
    BY <2>1
<1>13. CASE o = NotDone(a.pix)
  BY <1>11, <1>12, <1>13, NotDoneIs
<1>14. CASE o # NotDone(a.pix)
  <2>1. a.ok /\ o.ok = TRUE /\ o.pix = [a.pix EXCEPT ![q] = ScanoutRefresh(a.pix[q])]
    BY <1>1, <1>14
  <2>2. Whole(Client!Kept(x[q]), a.pix[q]) /\ a.pix[q].scanout
    BY <1>4, <1>8, <1>9, <1>11, <2>1 DEF WholeScreen
  <2>3. /\ SameContents(Client!Kept(x[q]), a.pix[q], ScanoutRefresh(a.pix[q]))
        /\ Fresh(Client!Kept(x[q]), ScanoutRefresh(a.pix[q]))
    BY <2>2, ScanoutRefreshKeeps
  <2>4. SameScreen(x, a.pix, o.pix)
    BY <1>4, <1>11, <2>1, <2>3, SameScreenUpdate
  <2>5. SameScreen(x, f, o.pix)
    BY <1>11, <2>4, SameScreenTransitive
  <2>6. o.pix[q] = ScanoutRefresh(a.pix[q])
    BY <1>4, <1>11, <2>1 DEF WholeScreen, Screens
  <2>7. ScanoutRefresh(a.pix[q]).scanout
    BY <2>2 DEF ScanoutRefresh, Whole, GoodPixmap, CorePixmap, PixmapRecord
  <2> QED
    BY <2>1, <2>3, <2>5, <2>6, <2>7
<1> QED
  BY <1>13, <1>14

(* Every pixmap is whole, holds what is kept of its memory, and is flushed. *)
AtRest ==
  \A p \in Pixmaps : /\ Whole(Client!Kept(mem[p]), pix[p]) /\ Holds(pix[p], mem[p])
                     /\ Flushed(pix[p])

(* What a screen no client can tell from the one before leaves.            *)
LEMMA SameScreenHolds ==
  ASSUME CInv, SameScreen(mem, pix, pix'), mem' = mem
  PROVE  AtRest'
BY DEF CInv, AtRest, SameScreen, SameContents, Holds

(* Mode sets keep the invariant of contents.                               *)
LEMMA SetModeContents ==
  ASSUME NoHazards, CInv, NEW q \in Scanouts, SetModeMajor(q)
  PROVE  CInv'
<1>1. PICK o \in SetMode(pix, entry, q) :
        pix' = o.pix /\ shown' = (o.ok \/ (shown /\ entry = q))
  BY DEF SetModeMajor
<1>2. /\ ShowsOnly(pix, entry) /\ WholeScreen(mem, pix)
      /\ entry \in Scanouts \cup {NoPixmap} /\ q \in Pixmaps
  BY CInvScreen, ScreenAssumption DEF IInv, ShowsOnly
<1>3. entry \notin {q, NoPixmap} => pix[entry].dirty_present = {}
  BY DEF SetModeMajor, MayUnref, NoHazards
<1>4. /\ SameScreen(mem, pix, pix')
      /\ o.ok => pix'[q].scanout /\ Fresh(Client!Kept(mem[q]), pix'[q])
      /\ ~o.ok /\ entry = q => pix' = pix
  BY <1>1, <1>2, <1>3, SetModeSame
<1>5. mem' = mem /\ entry' = q /\ master'
  BY DEF SetModeMajor, Client!Internal
<1>6. shown' => pix'[q].scanout /\ Fresh(Client!Kept(mem[q]), pix'[q])
  BY <1>1, <1>4 DEF CInv
<1>7. IInv'
  BY CInvScreen, SetModeStep
<1>8. AtRest'
  BY <1>4, <1>5, SameScreenHolds
<1> QED
  BY <1>2, <1>5, <1>6, <1>7, <1>8 DEF CInv, AtRest, NothingHeldAway

(* So does turning the CRTC off.                                           *)
LEMMA CrtcOffContents ==
  ASSUME NoHazards, CInv, CrtcOff
  PROVE  CInv'
<1>1. /\ WholeScreen(mem, pix) /\ entry \in Pixmaps /\ pix[entry].dirty_present = {}
      /\ master
  BY CInvScreen, ScreenAssumption DEF IInv, CrtcOff, MayUnref, NoHazards
<1>2. SameScreen(mem, pix, pix')
  BY <1>1, UnrefSame DEF CrtcOff
<1>3. mem' = mem /\ shown' = FALSE /\ master'
  BY <1>1 DEF CrtcOff, Client!Internal
<1>4. IInv'
  BY CInvScreen, CrtcOffStep
<1>5. AtRest'
  BY <1>2, <1>3, SameScreenHolds
<1> QED
  BY <1>3, <1>4, <1>5 DEF CInv, AtRest, NothingHeldAway

(* Whatever of a whole pixmap is kept, it is whole when less is.           *)
LEMMA WholeLess ==
  ASSUME NEW K, NEW L, \A t \in Tiles : t \in L => t \in K, NEW p, Whole(K, p)
  PROVE  Whole(L, p)
BY DEF Whole, Sound, TileSound

(* Dropping master downloads what software lacks, and forgets what could   *)
(* not be downloaded.                                                      *)
LEMMA DropMasterKeeps ==
  ASSUME NoHazards, NEW K, NEW p, Whole(K, p), ~p.scanout, NEW o \in DropMaster(p),
         NEW L, \A t \in Tiles : t \in L => t \in K /\ t \notin o.lost
  PROVE  /\ Whole(L, o.p) /\ o.p.dirty_hw = {}
         /\ Flushed(p) => Flushed(o.p)
         /\ \A t \in Tiles : t \in L => At(o.p, t) = At(p, t)
<1>0. p \in CorePixmap /\ Sound(K, p) /\ DirtyOK(p) /\ p \in PixmapRecord
  BY DEF Whole, GoodPixmap, CorePixmap
<1>1. CASE ~p.hw
  <2>1. o.p = p
    BY <1>1 DEF DropMaster
  <2>2. p.dirty_present = {}
    BY <1>0 DEF DirtyOK
  <2>3. \A t \in Tiles : t \notin p.dirty_hw
    BY <1>0, <1>1, <2>2 DEF Sound, TileSound
  <2>4. p.dirty_hw = {}
    BY <1>0, <2>3 DEF PixmapRecord
  <2> QED
    BY <2>1, <2>4, WholeLess
<1>2. CASE p.hw
  <2>1. PICK d \in DownloadFromHw(p, p.dirty_hw) :
          o = [lost |-> d.p.dirty_hw, p |-> [d.p EXCEPT !.dirty_hw = {}]]
    BY <1>2 DEF DropMaster
  <2>2. Moves(K, p, d.p)
    BY <1>0, <2>1, DownloadFromHwMoves
  <2>3. Whole(K, d.p) /\ ~d.p.scanout /\ (Flushed(p) => Flushed(d.p))
    BY <2>2, MovesWhole
  <2>4. d.p \in PixmapRecord /\ d.p.dirty_present = {} /\ Sound(K, d.p) /\ PendingSound(d.p)
    BY <2>3 DEF Whole, GoodPixmap, CorePixmap, DirtyOK
  <2> DEFINE q == [d.p EXCEPT !.dirty_hw = {}]
  <2>5. /\ (q.hw <=> d.p.hw) /\ (q.damage <=> d.p.damage) /\ q.malloc = d.p.malloc
        /\ q.gmr = d.p.gmr /\ q.dirty_shadow = d.p.dirty_shadow
        /\ q.dirty_present = d.p.dirty_present /\ q.dirty_hw = {}
        /\ q.pending_present = d.p.pending_present
        /\ q.sw_bits = d.p.sw_bits /\ q.hw_bits = d.p.hw_bits
        /\ q.fronts = d.p.fronts /\ q.sync = d.p.sync
    BY <2>4 DEF PixmapRecord
  <2>6. o.p = q /\ o.lost = d.p.dirty_hw
    BY <2>1
  <2> HIDE DEF q
  <2>7. ASSUME NEW t \in Tiles PROVE TileSound(L, q, t)
    <3>1. TileSound(K, d.p, t)
      BY <2>4 DEF Sound
    <3>2. t \in L => t \in K /\ t \notin d.p.dirty_hw
      BY <2>6
    <3> QED
      BY <2>4, <2>5, <3>1, <3>2 DEF TileSound, HasStorage
  <2>8. Sound(L, q)
    BY <2>4, <2>5, <2>7 DEF Sound
  <2>9. PendingSound(q) /\ (Flushed(d.p) => Flushed(q))
    BY <2>4, <2>5 DEF PendingSound, Flushed
  <2>10. ASSUME NEW t \in Tiles, t \in L PROVE At(q, t) = At(p, t)
    <3>1. At(d.p, t) = At(p, t)
      BY <2>2 DEF Moves
    <3>2. t \notin d.p.dirty_hw
      BY <2>6, <2>10
    <3> QED
      BY <2>5, <3>1, <3>2 DEF At
  <2>11. q \in GoodPixmap
    BY <2>6, DropMasterGood DEF Whole
  <2> QED
    BY <2>3, <2>5, <2>6, <2>8, <2>9, <2>10, <2>11 DEF Whole
<1> QED
  BY <1>1, <1>2

(* Switching the VT away leaves everything in software that is not lost.   *)
LEMMA LeaveVTContents ==
  ASSUME NoHazards, CInv, LeaveVT
  PROVE  CInv'
<1>1. PICK f \in (IF entry = NoPixmap THEN {pix} ELSE Unref(pix, entry)) :
        \E g \in Choices([p \in Pixmaps |-> DropMaster(f[p])]) :
          /\ pix' = [p \in Pixmaps |-> g[p].p]
          /\ mem' = [p \in Pixmaps |-> Client!Forget(mem[p], g[p].lost)]
  BY DEF LeaveVT
<1>2. PICK g \in Choices([p \in Pixmaps |-> DropMaster(f[p])]) :
        /\ pix' = [p \in Pixmaps |-> g[p].p]
        /\ mem' = [p \in Pixmaps |-> Client!Forget(mem[p], g[p].lost)]
  BY <1>1
<1>3. ShowsOnly(pix, entry) /\ WholeScreen(mem, pix) /\ entry \in Scanouts \cup {NoPixmap}
  BY CInvScreen DEF IInv, ShowsOnly
<1>4. ShowsOnly(f, NoPixmap) /\ SameScreen(mem, pix, f)
  <2>1. CASE entry = NoPixmap
    BY <1>1, <1>3, <2>1, SameContentsReflexive DEF SameScreen, WholeScreen
  <2>2. CASE entry # NoPixmap
    <3>1. f \in Unref(pix, entry) /\ entry \in Scanouts /\ entry \in Pixmaps
      BY <1>1, <1>3, <2>2, ScreenAssumption
    <3>2. pix[entry].dirty_present = {}
      BY <2>2 DEF LeaveVT, MayUnref, NoHazards
    <3> QED
      BY <1>3, <3>1, <3>2, UnrefShowsNothing, UnrefSame
  <2> QED
    BY <2>1, <2>2
<1>5. WholeScreen(mem, f)
  BY <1>3, <1>4, SameScreenWhole
<1>6. \A p \in Pixmaps : g[p] \in DropMaster(f[p])
  BY <1>2 DEF Choices
<1>7. ASSUME NEW p \in Pixmaps
      PROVE  /\ Whole(Client!Kept(mem'[p]), pix'[p]) /\ Holds(pix'[p], mem'[p])
             /\ Flushed(pix'[p]) /\ pix'[p].dirty_hw = {}
  <2> DEFINE K == Client!Kept(mem[p])
             L == Client!Kept(mem'[p])
  <2>1. Whole(K, f[p]) /\ ~f[p].scanout /\ Holds(f[p], mem[p])
    BY <1>4, <1>5, ScreenAssumption DEF ShowsOnly, WholeScreen
  <2>2. Flushed(f[p])
    BY <1>4 DEF CInv, SameScreen, SameContents
  <2>3. pix'[p] = g[p].p /\ mem'[p] = Client!Forget(mem[p], g[p].lost)
    BY <1>2
  <2>4. \A t \in Tiles : t \in L => t \in K /\ t \notin g[p].lost /\ mem'[p][t] = mem[p][t]
    BY <2>3 DEF Client!Kept, Client!Forget
  <2>5. \A t \in Tiles : t \in K => mem[p][t] = At(f[p], t)
    BY <2>1 DEF Holds
  <2> HIDE DEF K, L
  <2>6. /\ Whole(L, pix'[p]) /\ pix'[p].dirty_hw = {} /\ Flushed(pix'[p])
        /\ \A t \in Tiles : t \in L => At(pix'[p], t) = At(f[p], t)
    BY <1>6, <2>1, <2>2, <2>3, <2>4, DropMasterKeeps
  <2>7. \A t \in Tiles : t \in L => mem'[p][t] = At(pix'[p], t)
    BY <2>4, <2>5, <2>6
  <2> QED
    BY <2>6, <2>7 DEF Holds, L
<1>8. IInv'
  BY CInvScreen, LeaveVTStep
<1>9. shown' = FALSE
  BY DEF LeaveVT
<1> QED
  BY <1>7, <1>8, <1>9 DEF CInv, NothingHeldAway

(* Flushing a front buffer changes nothing a client can read.              *)
LEMMA FlushDri2Stays ==
  ASSUME NoHazards, NEW K, NEW p, Whole(K, p), NEW q \in FlushDri2(p)
  PROVE  Stays(K, p, q)
<1>1. CASE ~p.sync
  <2>1. q = p
    BY <1>1 DEF FlushDri2
  <2> QED
    BY <2>1, SameContentsReflexive DEF Stays
<1>2. CASE p.sync
  <2>1. PICK o \in FlushShadow(p) : q = IF o.ok THEN [o.p EXCEPT !.sync = FALSE] ELSE o.p
    BY <1>2 DEF FlushDri2
  <2>2. p \in CorePixmap /\ Sound(K, p) /\ p.hw
    BY <1>2 DEF Whole, GoodPixmap, Sound
  <2>3. Moves(K, p, o.p) /\ (o.ok => o.p.dirty_shadow = {})
    BY <2>1, <2>2, FlushShadowMoves
  <2>4. Stays(K, p, o.p) /\ Whole(K, o.p)
    BY <2>3, MovesStays DEF Stays, SameContents
  <2>5. CASE ~o.ok
    BY <2>1, <2>4, <2>5
  <2>6. CASE o.ok
    <3>1. PICK b \in BOOLEAN : b = FALSE
      OBVIOUS
    <3>2. q = [o.p EXCEPT !.sync = b]
      BY <2>1, <2>6, <3>1
    <3>3. /\ Whole(K, q) /\ (q.scanout <=> o.p.scanout) /\ q.fronts = o.p.fronts
          /\ (q.hw <=> o.p.hw) /\ q.dirty_shadow = o.p.dirty_shadow
          /\ Fresh(K, o.p) => Fresh(K, q)
          /\ \A t \in Tiles : At(q, t) = At(o.p, t)
      BY <2>4, <3>1, <3>2, SyncKeeps
    <3>4. Flushed(q)
      BY <2>3, <2>6, <3>3 DEF Flushed
    <3> QED
      BY <2>4, <3>3, <3>4 DEF Stays, SameContents
  <2> QED
    BY <2>5, <2>6
<1> QED
  BY <1>1, <1>2

(* Every front buffer on the list at once.                                 *)
LEMMA FlushAllStays ==
  ASSUME NoHazards, NEW x, NEW f, WholeScreen(x, f),
         NEW g \in Choices([p \in Pixmaps |-> FlushDri2(f[p])])
  PROVE  g \in Screens /\ \A p \in Pixmaps : Stays(Client!Kept(x[p]), f[p], g[p])
<1>1. \A p \in Pixmaps : g[p] \in FlushDri2(f[p])
  BY DEF Choices
<1>2. g \in Screens
  BY FlushAllKeeps DEF WholeScreen, Keeps
<1> QED
  BY <1>1, <1>2, FlushDri2Stays DEF WholeScreen

(* Switching the VT back shows the screen pixmap.                          *)
LEMMA EnterVTContents ==
  ASSUME NoHazards, CInv, EnterVT
  PROVE  CInv'
<1>1. PICK f \in Choices([p \in Pixmaps |-> FlushDri2(pix[p])]) :
        \E o \in SetMode(f, NoPixmap, Root) : o.ok /\ pix' = o.pix
  BY DEF EnterVT
<1>2. /\ WholeScreen(mem, pix) /\ pix \in Screens
      /\ \A p \in Pixmaps : ~pix[p].scanout
  BY CInvScreen, ScreenAssumption DEF IInv, EnterVT
<1>3. f \in Screens /\ \A p \in Pixmaps : Stays(Client!Kept(mem[p]), pix[p], f[p])
  BY <1>1, <1>2, FlushAllStays
<1>4. /\ SameScreen(mem, pix, f) /\ WholeScreen(mem, f) /\ ShowsOnly(f, NoPixmap)
      /\ NoPixmap \in Scanouts \cup {NoPixmap} /\ Root \in Scanouts /\ Root \in Pixmaps
  BY <1>2, <1>3, SameScreenWhole, ScreenAssumption DEF SameScreen, Stays, ShowsOnly
<1>5. SameScreen(mem, f, pix') /\ pix'[Root].scanout /\ Fresh(Client!Kept(mem[Root]), pix'[Root])
  BY <1>1, <1>4, SetModeSame
<1>6. SameScreen(mem, pix, pix')
  BY <1>4, <1>5, SameScreenTransitive
<1>7. mem' = mem /\ entry' = Root /\ master' = TRUE
  BY DEF EnterVT, Client!Internal
<1>8. IInv'
  BY CInvScreen, EnterVTStep
<1>9. AtRest'
  BY <1>6, <1>7, SameScreenHolds
<1> QED
  BY <1>4, <1>5, <1>7, <1>8, <1>9 DEF CInv, AtRest, NothingHeldAway

----------------------------------------------------------------------------
(* DRI2.                                                                   *)

(* Counting front buffers touches no contents.                             *)
LEMMA FrontsWhole ==
  ASSUME NEW K, NEW p, Whole(K, p), NEW q, SameFronts(p, q),
         q.sw_bits = p.sw_bits, q.hw_bits = p.hw_bits, q.fb_bits = p.fb_bits,
         q.fronts > 0 \/ q.sync => p.hw
  PROVE  /\ Whole(K, q) /\ (q.scanout <=> p.scanout) /\ (Fresh(K, p) => Fresh(K, q))
         /\ \A t \in Tiles : At(q, t) = At(p, t)
<1>1. q \in GoodPixmap
  BY SameFrontsGood DEF Whole
<1>2. \A t \in Tiles : At(q, t) = At(p, t)
  BY DEF At, SameFronts
<1>3. ASSUME NEW t \in Tiles PROVE TileSound(K, q, t)
  <2>1. TileSound(K, p, t) /\ At(q, t) = At(p, t)
    BY <1>2 DEF Whole, Sound
  <2> QED
    BY <2>1 DEF TileSound, SameFronts, HasStorage
<1>4. Sound(K, q)
  BY <1>3 DEF Sound, SameFronts
<1>5. PendingSound(q)
  BY DEF Whole, PendingSound, SameFronts
<1>6. Fresh(K, p) => Fresh(K, q)
  BY <1>2 DEF Fresh, SameFronts
<1> QED
  BY <1>1, <1>2, <1>4, <1>5, <1>6 DEF Whole, SameFronts

(* A new front buffer is up to date.                                       *)
LEMMA Dri2CreateServes ==
  ASSUME NoHazards, CInv, NEW p \in Pixmaps, Dri2CreateBuffer(p)
  PROVE  ServesAll
<1>1. PICK o \in HwAccelValidate(pix[p], Tiles) :
        pix' = [pix EXCEPT ![p] = IF o.ok THEN [o.p EXCEPT !.fronts = @ + 1] ELSE o.p]
  BY DEF Dri2CreateBuffer
<1>2. /\ Whole(Client!Kept(mem[p]), pix[p]) /\ Flushed(pix[p]) /\ Holds(pix[p], mem[p])
      /\ pix[p] \in CorePixmap /\ pix[p].fronts < MaxFronts
  BY DEF CInv, Whole, GoodPixmap, Dri2CreateBuffer
<1>3. Moves(Client!Kept(mem[p]), pix[p], o.p) /\ (o.ok => SurfaceCurrent(o.p, Tiles))
  BY <1>1, <1>2, HwAccelValidateMoves DEF Whole
<1>4. Serves(mem[p], pix[p], o.p, mem[p]) /\ o.p.fronts = pix[p].fronts
  BY <1>2, <1>3, MovesServes DEF Moves, Migrates
<1> DEFINE q == IF o.ok THEN [o.p EXCEPT !.fronts = @ + 1] ELSE o.p
<1>5. Serves(mem[p], pix[p], q, mem[p])
  <2>1. CASE ~o.ok
    BY <1>4, <2>1
  <2>2. CASE o.ok
    <3>1. o.p \in PixmapRecord /\ Whole(Client!Kept(mem[p]), o.p)
      BY <1>4 DEF Serves, Whole, GoodPixmap, CorePixmap
    <3>2. o.p.fronts + 1 \in 0 .. MaxFronts
      BY <1>2, <1>4, <3>1, MaxFrontsAssumption DEF PixmapRecord
    <3>3. /\ SameFronts(o.p, q) /\ q.sync = o.p.sync
          /\ q.sw_bits = o.p.sw_bits /\ q.hw_bits = o.p.hw_bits
          /\ q.fb_bits = o.p.fb_bits
      BY <2>2, <3>1, <3>2 DEF SameFronts, PixmapRecord
    <3>4. o.p.hw /\ o.p.dirty_shadow = {}
      BY <1>3, <2>2, <3>1 DEF SurfaceCurrent, PixmapRecord
    <3> HIDE DEF q
    <3>5. /\ Whole(Client!Kept(mem[p]), q) /\ (q.scanout <=> o.p.scanout)
          /\ Fresh(Client!Kept(mem[p]), o.p) => Fresh(Client!Kept(mem[p]), q)
          /\ \A t \in Tiles : At(q, t) = At(o.p, t)
      BY <3>1, <3>3, <3>4, FrontsWhole
    <3>6. Flushed(q)
      BY <3>3, <3>4 DEF Flushed, SameFronts
    <3> QED
      BY <1>4, <3>5, <3>6 DEF Serves, Holds
  <2> QED
    BY <2>1, <2>2
<1>6. pix' = [pix EXCEPT ![p] = q]
  BY <1>1
<1> HIDE DEF q
<1>7. mem' = [mem EXCEPT ![p] = mem[p]]
  BY CInvScreen DEF Dri2CreateBuffer, Client!Internal
<1> QED
  BY <1>5, <1>6, <1>7, ServesUpdate

(* The last front buffer takes its pixmap off the list.                    *)
LEMMA Dri2DestroyServes ==
  ASSUME NoHazards, CInv, NEW p \in Pixmaps, Dri2DestroyBuffer(p)
  PROVE  ServesAll
<1> DEFINE q == [pix[p] EXCEPT !.fronts = @ - 1, !.sync = @ /\ pix[p].fronts > 1]
<1>1. /\ Whole(Client!Kept(mem[p]), pix[p]) /\ Flushed(pix[p]) /\ Holds(pix[p], mem[p])
      /\ pix[p] \in PixmapRecord /\ pix[p].fronts > 0
  BY DEF CInv, Whole, GoodPixmap, CorePixmap, Dri2DestroyBuffer
<1>2. pix[p].fronts \in Nat /\ pix[p].fronts - 1 \in 0 .. MaxFronts
  BY <1>1, MaxFrontsAssumption DEF PixmapRecord
<1>3. /\ SameFronts(pix[p], q)
      /\ q.sw_bits = pix[p].sw_bits /\ q.hw_bits = pix[p].hw_bits
      /\ q.fb_bits = pix[p].fb_bits
      /\ q.fronts = pix[p].fronts - 1 /\ q.sync = (pix[p].sync /\ pix[p].fronts > 1)
  BY <1>1, <1>2 DEF SameFronts, PixmapRecord
<1>4. pix' = [pix EXCEPT ![p] = q]
  BY CInvScreen DEF Dri2DestroyBuffer, WholeScreen, Screens
<1> HIDE DEF q
<1>5. pix[p].hw
  BY <1>1 DEF Whole, Sound
<1>6. /\ Whole(Client!Kept(mem[p]), q) /\ (q.scanout <=> pix[p].scanout)
      /\ Fresh(Client!Kept(mem[p]), pix[p]) => Fresh(Client!Kept(mem[p]), q)
      /\ \A t \in Tiles : At(q, t) = At(pix[p], t)
  BY <1>1, <1>3, <1>5, FrontsWhole
<1>7. Flushed(q)
  <2>1. q.fronts > 0 => pix[p].fronts > 1
    BY <1>2, <1>3
  <2> QED
    BY <1>1, <1>3, <2>1 DEF Flushed, SameFronts
<1>8. Serves(mem[p], pix[p], q, mem[p])
  BY <1>1, <1>6, <1>7 DEF Serves, Holds
<1>9. mem' = [mem EXCEPT ![p] = mem[p]]
  BY CInvScreen DEF Dri2DestroyBuffer, Client!Internal
<1> QED
  BY <1>4, <1>8, <1>9, ServesUpdate

(* Bringing front buffers up to date changes nothing a client can read.    *)
LEMMA Dri2WaitXServes ==
  ASSUME NoHazards, CInv, NEW p \in Pixmaps, Dri2WaitX(p)
  PROVE  ServesAll
<1>1. PICK o \in HwAccelValidate(pix[p], Tiles) :
        LET f == [pix EXCEPT ![p] = o.p]
        IN IF o.ok THEN pix' \in Choices([q \in Pixmaps |-> FlushDri2(f[q])])
                   ELSE pix' = f
  BY DEF Dri2WaitX
<1> DEFINE f == [pix EXCEPT ![p] = o.p]
<1>2. MovesAll(mem, pix, f)
  <2>1. WholeScreen(mem, pix) /\ pix[p] \in CorePixmap /\ Sound(Client!Kept(mem[p]), pix[p])
    BY CInvScreen DEF WholeScreen, Whole, GoodPixmap
  <2>2. Moves(Client!Kept(mem[p]), pix[p], o.p)
    BY <1>1, <2>1, HwAccelValidateMoves
  <2> QED
    BY <2>1, <2>2, MovesUpdate
<1>3. pix' = f \/ pix' \in Choices([q \in Pixmaps |-> FlushDri2(f[q])])
  BY <1>1
<1> HIDE DEF f
<1>4. WholeScreen(mem, pix) /\ WholeScreen(mem, f)
  BY <1>2, CInvScreen, MovesAllWhole
<1>5. \A r \in Pixmaps : Stays(Client!Kept(mem[r]), f[r], pix'[r])
  <2>1. CASE pix' = f
    BY <1>4, <2>1, SameContentsReflexive DEF WholeScreen, Stays
  <2>2. CASE pix' \in Choices([q \in Pixmaps |-> FlushDri2(f[q])])
    BY <1>4, <2>2, FlushAllStays
  <2> QED
    BY <1>3, <2>1, <2>2
<1>6. ASSUME NEW r \in Pixmaps PROVE Serves(mem[r], pix[r], pix'[r], mem'[r])
  <2>1. Serves(mem[r], pix[r], f[r], mem[r])
    BY <1>2, MovesServes DEF CInv, MovesAll
  <2>2. Serves(mem[r], f[r], pix'[r], mem[r])
    BY <1>5, <2>1, StaysServes DEF Serves
  <2>3. mem' = mem
    BY DEF Dri2WaitX, Client!Internal
  <2> QED
    BY <2>1, <2>2, <2>3 DEF Serves
<1> QED
  BY <1>6 DEF ServesAll

(* A GL client draws b into R of a surface: what it draws is kept (L)      *)
(* where the surface was ahead of software.                                *)
ClientDrew(K, L, p, R, b, q) ==
  /\ q = [p EXCEPT !.hw_bits = b] /\ b \in Image
  /\ \A t \in Tiles :
       IF t \in R THEN t \in L => t \in p.dirty_hw
       ELSE b[t] = p.hw_bits[t] /\ (t \in L => t \in K)

(* It is found where the driver looks.                                     *)
LEMMA ClientDraws ==
  ASSUME NEW K, NEW L, NEW p, Whole(K, p), ~p.scanout, p.hw, NEW R, NEW b,
         NEW q, ClientDrew(K, L, p, R, b, q)
  PROVE  /\ Whole(L, q) /\ (Flushed(p) => Flushed(q)) /\ ~q.scanout
         /\ \A t \in Tiles : t \in L => At(q, t) = IF t \in R THEN b[t] ELSE At(p, t)
<1>1. /\ p \in PixmapRecord /\ p \in GoodPixmap /\ Sound(K, p) /\ PendingSound(p)
      /\ p.dirty_present = {} /\ q = [p EXCEPT !.hw_bits = b] /\ b \in Image
  BY DEF Whole, GoodPixmap, CorePixmap, DirtyOK, ClientDrew
<1>2. /\ q.malloc = p.malloc /\ q.gmr = p.gmr /\ (q.hw <=> p.hw)
      /\ q.damage = p.damage /\ (q.scanout <=> p.scanout)
      /\ q.dirty_shadow = p.dirty_shadow /\ q.dirty_hw = p.dirty_hw
      /\ q.dirty_present = p.dirty_present
      /\ q.pending_present = p.pending_present
      /\ q.fronts = p.fronts /\ q.sync = p.sync
      /\ q.sw_bits = p.sw_bits /\ q.hw_bits = b /\ q.fb_bits = p.fb_bits
  BY <1>1 DEF PixmapRecord
<1>3. q \in GoodPixmap
  BY <1>1, BitsGood
<1>4. ASSUME NEW t \in Tiles
      PROVE  /\ t \in L => At(q, t) = IF t \in R THEN b[t] ELSE At(p, t)
             /\ TileSound(L, q, t)
  <2>1. TileSound(K, p, t)
    BY <1>1 DEF Sound
  <2>2. t \notin q.dirty_present /\ q.hw
    BY <1>1, <1>2
  <2>3. HasStorage(p) <=> HasStorage(q)
    BY <1>2 DEF HasStorage
  <2>4. ~HasStorage(p) => q.sw_bits[t] = Junk
    BY <1>2, <2>1 DEF TileSound
  <2>5. CASE t \in R
    <3>1. t \in L => t \in q.dirty_hw
      BY <1>2, <2>5 DEF ClientDrew
    <3>2. TileSound(L, q, t)
      BY <2>2, <2>3, <2>4, <3>1 DEF TileSound
    <3>3. t \in L => At(q, t) = b[t]
      BY <1>2, <2>2, <3>1 DEF At
    <3> QED
      BY <2>5, <3>2, <3>3
  <2>6. CASE t \notin R
    <3>1. b[t] = p.hw_bits[t] /\ (t \in L => t \in K)
      BY <2>6 DEF ClientDrew
    <3>2. At(q, t) = At(p, t)
      BY <1>2, <3>1 DEF At
    <3>3. q.hw_bits[t] = p.hw_bits[t] /\ q.sw_bits[t] = p.sw_bits[t]
      BY <1>2, <3>1
    <3>4. (t \in q.dirty_hw <=> t \in p.dirty_hw) /\ (t \in q.dirty_shadow <=> t \in p.dirty_shadow)
      BY <1>2
    <3>5. TileSound(L, q, t)
      BY <2>1, <2>2, <2>3, <1>1, <1>2, <3>1, <3>3, <3>4 DEF TileSound
    <3> QED
      BY <2>6, <3>2, <3>5
  <2> QED
    BY <2>5, <2>6
<1>5. Sound(L, q) /\ PendingSound(q) /\ (Flushed(p) => Flushed(q))
  BY <1>1, <1>2, <1>4 DEF Sound, PendingSound, Flushed
<1> QED
  BY <1>2, <1>3, <1>4, <1>5 DEF Whole

(* What a client fills, tile by tile.                                      *)
LEMMA FillAt ==
  ASSUME NEW a, NEW R, NEW c, NEW t \in Tiles
  PROVE  Client!ApplyFill(a, R, c)[t] = IF t \in R THEN c ELSE a[t]
BY DEF Client!ApplyFill

(* What is forgotten, tile by tile.                                        *)
LEMMA ForgetAt ==
  ASSUME NEW a, NEW N, NEW t \in Tiles
  PROVE  Client!Forget(a, N)[t] = IF t \in N THEN Lost ELSE a[t]
BY DEF Client!Forget

(* A GL client's drawing to the front is found where the driver looks, but *)
(* for what it lost.                                                       *)
LEMMA Dri2WaitGLServes ==
  ASSUME NoHazards, CInv, NEW p \in GlPixmaps, NEW R \in Rects, NEW c \in Colors,
         Dri2WaitGL(p, R, c)
  PROVE  ServesAll
<1> DEFINE b == Client!ApplyFill(pix[p].hw_bits, R, c)
           x == Client!ApplyFill(mem[p], R, c)
           m == Client!Forget(x, R \ pix[p].dirty_hw)
           K == Client!Kept(mem[p])
           L == Client!Kept(m)
           q == [pix[p] EXCEPT !.hw_bits = b]
<1>1. p \in Pixmaps /\ p \notin Scanouts /\ p # NoPixmap
  BY ScreenAssumption
<1>2. /\ Whole(K, pix[p]) /\ Flushed(pix[p]) /\ Holds(pix[p], mem[p])
      /\ ~pix[p].scanout /\ pix[p].hw /\ R \in SUBSET Tiles
  BY <1>1, RequestsAssumption DEF CInv, IInv, Dri2WaitGL
<1>3. b \in Image
  BY <1>2, GoodBits, DrawType, ImageIsMemory DEF Whole
<1>4. \A t \in Tiles : /\ b[t] = IF t \in R THEN c ELSE pix[p].hw_bits[t]
                       /\ m[t] = IF t \in R \ pix[p].dirty_hw THEN Lost
                                 ELSE IF t \in R THEN c ELSE mem[p][t]
  BY FillAt, ForgetAt
<1>5. pix' = [pix EXCEPT ![p] = q]
  BY <1>1, CInvScreen DEF Dri2WaitGL, WholeScreen, Screens
<1>6. mem' = [mem EXCEPT ![p] = m]
  BY DEF Dri2WaitGL
<1> HIDE DEF b, x, m
<1>7. ASSUME NEW t \in Tiles, t \in L
      PROVE  (t \in K /\ t \notin R) \/ (t \in pix[p].dirty_hw /\ t \in R)
  <2>1. m[t] # Lost
    BY <1>7 DEF Client!Kept
  <2>2. CASE t \in R
    BY <1>4, <2>1, <2>2
  <2>3. CASE t \notin R
    BY <1>4, <2>1, <2>3 DEF Client!Kept
  <2> QED
    BY <2>2, <2>3
<1>8. q = [pix[p] EXCEPT !.hw_bits = b]
  OBVIOUS
<1>9. \A t \in Tiles \ R : b[t] = pix[p].hw_bits[t]
  BY <1>4
<1>10. K = Client!Kept(mem[p]) /\ L = Client!Kept(m)
  OBVIOUS
<1> HIDE DEF q, K, L
<1>11. /\ Whole(L, q) /\ (Flushed(pix[p]) => Flushed(q)) /\ ~q.scanout
       /\ \A t \in Tiles : t \in L => At(q, t) = IF t \in R THEN b[t] ELSE At(pix[p], t)
  <2>1. ClientDrew(K, L, pix[p], R, b, q)
    BY <1>3, <1>7, <1>8, <1>9 DEF ClientDrew
  <2> QED
    BY <1>2, <2>1, ClientDraws
<1>12. ASSUME NEW t \in Tiles, t \in L PROVE m[t] = At(q, t)
  <2>1. CASE t \in R
    BY <1>4, <1>7, <1>11, <1>12, <2>1
  <2>2. CASE t \notin R
    <3>1. t \in K
      BY <1>7, <1>12, <2>2
    <3>2. mem[p][t] = At(pix[p], t)
      BY <1>2, <1>10, <3>1 DEF Holds
    <3> QED
      BY <1>4, <1>11, <1>12, <2>2, <3>2
  <2> QED
    BY <2>1, <2>2
<1>13. Holds(q, m)
  BY <1>10, <1>12 DEF Holds
<1>14. Serves(mem[p], pix[p], q, m)
  BY <1>2, <1>10, <1>11, <1>13 DEF Serves, Fresh
<1> QED
  BY <1>1, <1>5, <1>6, <1>14, ServesUpdate

(* A GL client's copy: what it drew is in its pixmap, and in the other one *)
(* when that was done.                                                     *)
LEMMA Dri2CopyServes ==
  ASSUME NoHazards, CInv, NEW s \in Pixmaps, NEW d \in Pixmaps, NEW R \in Rects,
         NEW c \in Colors, Dri2CopyRegion(s, d, R, c)
  PROVE  ServesAll
<1> DEFINE h == Client!ApplyFill(pix[s].hw_bits, R, c)
           drawn == [pix[s] EXCEPT !.hw_bits = h]
           m == [t \in R |-> t]
           y == Client!ApplyFill(mem[s], R, c)
           z == Client!ApplyFill(mem[d], R, c)
           K == Client!Kept(mem[s])
           L == Client!Kept(y)
<1>1. PICK a \in DirtyHw(drawn, R) : \E b \in OperationComplete(a, TRUE) :
        \E o \in CopyNToN([pix EXCEPT ![s] = b], s, d, m, R) :
        \E q \in OperationComplete(o.pix[d], TRUE) :
          /\ pix' = [o.pix EXCEPT ![d] = q]
          /\ mem' = [p \in Pixmaps |-> IF p = s \/ (p = d /\ o.ok)
                                       THEN Client!ApplyFill(mem[p], R, c) ELSE mem[p]]
  BY DEF Dri2CopyRegion
<1>2. PICK b \in OperationComplete(a, TRUE) :
        \E o \in CopyNToN([pix EXCEPT ![s] = b], s, d, m, R) :
        \E q \in OperationComplete(o.pix[d], TRUE) :
          /\ pix' = [o.pix EXCEPT ![d] = q]
          /\ mem' = [p \in Pixmaps |-> IF p = s \/ (p = d /\ o.ok)
                                       THEN Client!ApplyFill(mem[p], R, c) ELSE mem[p]]
  BY <1>1
<1>3. PICK o \in CopyNToN([pix EXCEPT ![s] = b], s, d, m, R) :
        \E q \in OperationComplete(o.pix[d], TRUE) :
          /\ pix' = [o.pix EXCEPT ![d] = q]
          /\ mem' = [p \in Pixmaps |-> IF p = s \/ (p = d /\ o.ok)
                                       THEN Client!ApplyFill(mem[p], R, c) ELSE mem[p]]
  BY <1>2
<1>4. PICK q \in OperationComplete(o.pix[d], TRUE) :
          /\ pix' = [o.pix EXCEPT ![d] = q]
          /\ mem' = [p \in Pixmaps |-> IF p = s \/ (p = d /\ o.ok)
                                       THEN Client!ApplyFill(mem[p], R, c) ELSE mem[p]]
  BY <1>3
<1>5. /\ mem'[s] = y /\ mem'[d] = IF d = s \/ o.ok THEN z ELSE mem[d]
      /\ \A p \in Pixmaps \ {s, d} : mem'[p] = mem[p]
  BY <1>4
<1>6. /\ s # d /\ pix[s].hw /\ R \in SUBSET Tiles /\ pix \in Screens
      /\ Whole(K, pix[s]) /\ Holds(pix[s], mem[s])
      /\ mem \in [Pixmaps -> Memory] /\ mem[s] \in Memory /\ mem[d] \in Memory
  BY RequestsAssumption, CInvScreen DEF CInv, Dri2CopyRegion, WholeScreen
<1>7. h \in Image /\ m \in [R -> Tiles] /\ DOMAIN m = R
  BY <1>6, GoodBits, DrawType, ImageIsMemory DEF Whole
<1>8. \A t \in Tiles : /\ h[t] = IF t \in R THEN c ELSE pix[s].hw_bits[t]
                       /\ y[t] = IF t \in R THEN c ELSE mem[s][t]
                       /\ z[t] = IF t \in R THEN c ELSE mem[d][t]
  BY FillAt
<1>9. y \in Memory
  <2>1. \A t \in Tiles : y[t] \in Values \cup {Lost}
    BY <1>6, <1>8 DEF Memory, Values
  <2> QED
    BY <2>1 DEF Memory, Client!ApplyFill
<1>10. Copying(m)[<<mem[d], y>>] = z
  <2>1. Copying(m)[<<mem[d], y>>] = Client!ApplyCopy(mem[d], y, m)
    BY <1>6, <1>9 DEF Copying
  <2>2. Client!ApplyCopy(mem[d], y, m) =
          [t \in Tiles |-> IF t \in R THEN y[t] ELSE mem[d][t]]
    BY <1>7 DEF Client!ApplyCopy
  <2>3. z = [t \in Tiles |-> IF t \in R THEN c ELSE mem[d][t]]
    BY DEF Client!ApplyFill
  <2>4. \A t \in Tiles : (IF t \in R THEN y[t] ELSE mem[d][t])
                           = (IF t \in R THEN c ELSE mem[d][t])
    BY <1>8
  <2> HIDE DEF m, y, z
  <2> QED
    BY <2>1, <2>2, <2>3, <2>4
<1>11. a \in DirtyHw([pix[s] EXCEPT !.hw_bits = h], R)
  BY <1>1
<1>12. \A t \in Tiles : t \in L => t \in K \/ t \in R
  BY <1>8, KeptOutside
<1>13. K = Client!Kept(mem[s]) /\ L = Client!Kept(y)
  OBVIOUS
<1> HIDE DEF h, drawn, m, y, z, K, L
<1>14. Makes(mem[s], pix[s], a, y)
  <2>1. ASSUME NEW t \in Tiles, t \in L
        PROVE  y[t] = IF t \in R THEN h[t] ELSE At(pix[s], t)
    <3>1. CASE t \in R
      BY <1>8, <3>1
    <3>2. CASE t \notin R
      <4>1. t \in Client!Kept(mem[s])
        BY <1>12, <1>13, <2>1, <3>2
      <4>2. mem[s][t] = At(pix[s], t)
        BY <1>6, <4>1 DEF Holds
      <4> QED
        BY <1>8, <3>2, <4>2
    <3> QED
      BY <3>1, <3>2
  <2>2. \A t \in Tiles \ R : h[t] = pix[s].hw_bits[t]
    BY <1>8
  <2>3. Renders(K, L, pix[s], a, y)
    BY <1>6, <1>7, <1>11, <1>12, <2>1, <2>2, DirtyHwRenders
  <2> QED
    BY <1>13, <2>3 DEF Makes
<1>15. Serves(mem[s], pix[s], b, y)
  BY <1>2, <1>14, MakesServes
<1> DEFINE f == [pix EXCEPT ![s] = b]
           x == [mem EXCEPT ![s] = y]
<1>16. /\ f[s] = b /\ \A p \in Pixmaps \ {s} : f[p] = pix[p]
       /\ x[s] = y /\ \A p \in Pixmaps \ {s} : x[p] = mem[p]
       /\ o \in CopyNToN(f, s, d, m, R)
  BY <1>3, <1>6 DEF Screens
<1>17. WholeScreen(x, f)
  <2>1. f \in Screens /\ x \in [Pixmaps -> Memory]
    BY <1>6, <1>9, <1>15 DEF Screens, Serves, Whole
  <2>2. ASSUME NEW p \in Pixmaps PROVE Whole(Client!Kept(x[p]), f[p]) /\ Holds(f[p], x[p])
    <3>1. CASE p = s
      BY <1>15, <1>16, <3>1 DEF Serves
    <3>2. CASE p # s
      <4>1. Whole(Client!Kept(mem[p]), pix[p]) /\ Holds(pix[p], mem[p])
        BY CInvScreen DEF WholeScreen
      <4>2. f[p] = pix[p] /\ x[p] = mem[p]
        BY <1>16, <3>2
      <4> QED
        BY <4>1, <4>2
    <3> QED
      BY <3>1, <3>2
  <2> QED
    BY <2>1, <2>2 DEF WholeScreen
<1> HIDE DEF f, x
<1>18. Transferred(x, f, o, d, z)
  <2>1. Transferred(x, f, o, d, Copying(m)[<<x[d], x[s]>>])
    BY <1>6, <1>7, <1>16, <1>17, CopyNToNDone
  <2> QED
    BY <1>6, <1>10, <1>16, <2>1
<1>19. o.pix \in Screens /\ pix'[d] = q /\ \A p \in Pixmaps \ {d} : pix'[p] = o.pix[p]
  BY <1>4, <1>18 DEF Transferred, Screens
<1>20. Serves(mem[s], pix[s], pix'[s], mem'[s])
  <2>1. Moves(Client!Kept(y), b, o.pix[s])
    BY <1>6, <1>16, <1>18 DEF Transferred
  <2>2. Serves(y, b, o.pix[s], y)
    BY <1>15, <2>1, MovesServes DEF Serves
  <2> QED
    BY <1>5, <1>6, <1>15, <1>19, <2>2 DEF Serves
<1>21. Serves(mem[d], pix[d], pix'[d], mem'[d])
  <2> DEFINE n == IF o.ok THEN z ELSE mem[d]
  <2>1. /\ Whole(Client!Kept(mem[d]), pix[d]) /\ Flushed(pix[d]) /\ Holds(pix[d], mem[d])
        /\ f[d] = pix[d] /\ x[d] = mem[d]
    BY <1>6, <1>16 DEF CInv
  <2>2. Makes(mem[d], pix[d], o.pix[d], n)
    BY <1>6, <1>18, <2>1, MovesServes DEF Transferred
  <2>3. mem'[d] = n
    BY <1>5, <1>6
  <2> HIDE DEF n
  <2> QED
    BY <1>4, <1>19, <2>2, <2>3, MakesServes
<1>22. ASSUME NEW p \in Pixmaps \ {s, d} PROVE Serves(mem[p], pix[p], pix'[p], mem'[p])
  <2>1. f[p] = pix[p] /\ pix'[p] = o.pix[p] /\ mem'[p] = mem[p] /\ x[p] = mem[p]
    BY <1>5, <1>16, <1>19
  <2>2. Moves(Client!Kept(mem[p]), pix[p], o.pix[p])
    BY <1>18, <2>1 DEF Transferred
  <2> QED
    BY <2>1, <2>2, MovesServes DEF CInv
<1> QED
  BY <1>20, <1>21, <1>22 DEF ServesAll

----------------------------------------------------------------------------
(* Requests while the VT is away, when no pixmap is scanned out.           *)

(* Surface and framebuffer are left alone, and no contents are marked as   *)
(* being in them.                                                          *)
Leaves(p, q) ==
  /\ q \in PixmapRecord /\ ~q.scanout
  /\ q.hw_bits = p.hw_bits /\ q.fb_bits = p.fb_bits
  /\ q.dirty_hw \subseteq p.dirty_hw

LeavesAll(f, g) == \A p \in Pixmaps : Leaves(f[p], g[p])

(* A screen nobody looks at.                                               *)
Dark(x, f) == WholeScreen(x, f) /\ \A p \in Pixmaps : ~f[p].scanout

(* The screen is dark while the VT is away.                                *)
LEMMA AwayDark == ASSUME CInv, ~master PROVE Dark(mem, pix)
<1>1. \A p \in Pixmaps : ~pix[p].scanout
  BY ScreenAssumption DEF CInv, IInv
<1> QED
  BY <1>1, CInvScreen DEF Dark

(* Leaving alone chains ...                                                *)
LEMMA LeavesTransitive ==
  ASSUME NEW p, NEW q, NEW r, Leaves(p, q), Leaves(q, r)
  PROVE  Leaves(p, r)
BY DEF Leaves

(* ... and one pixmap may be left alone at a time.                         *)
LEMMA LeavesUpdate ==
  ASSUME NEW x, NEW f, Dark(x, f), NEW g, DOMAIN g = Pixmaps, LeavesAll(f, g),
         NEW p \in Pixmaps, NEW q, Leaves(g[p], q)
  PROVE  LeavesAll(f, [g EXCEPT ![p] = q])
<1>1. Leaves(f[p], q)
  BY LeavesTransitive DEF LeavesAll
<1>2. [g EXCEPT ![p] = q][p] = q
  OBVIOUS
<1>3. \A r \in Pixmaps \ {p} : [g EXCEPT ![p] = q][r] = g[r]
  OBVIOUS
<1> QED
  BY <1>1, <1>2, <1>3 DEF LeavesAll

(* Doing nothing leaves the screen alone.                                  *)
LEMMA LeavesReflexive == ASSUME NEW x, NEW f, Dark(x, f) PROVE LeavesAll(f, f) /\ DOMAIN f = Pixmaps
BY DEF Dark, WholeScreen, Screens, GoodPixmap, CorePixmap, LeavesAll, Leaves

(* CPU access only reads the surface.                                      *)
LEMMA PrepareAccessLeaves ==
  ASSUME NoHazards, NEW K, NEW p, Whole(K, p), ~p.scanout, NEW R,
         NEW o \in PrepareAccess(p, R)
  PROVE  Leaves(p, o.p) /\ Moves(K, p, o.p)
<1>1. Moves(K, p, o.p) /\ o.p.hw_bits = p.hw_bits
  BY PrepareAccessMoves DEF Whole, GoodPixmap
<1> QED
  BY <1>1 DEF Moves, Migrates, CorePixmap, Leaves

(* Drawing by software marks the surface stale and no more.                *)
LEMMA DirtySwLeaves ==
  ASSUME NEW p \in PixmapRecord, ~p.scanout, NEW R \in SUBSET Tiles, NEW b \in Image,
         NEW q \in DirtySw([p EXCEPT !.sw_bits = b], R)
  PROVE  Leaves(p, q)
<1> DEFINE v == [p EXCEPT !.sw_bits = b]
           r == [v EXCEPT !.dirty_shadow = @ \cup R, !.dirty_hw = @ \ R]
<1>1. v \in PixmapRecord /\ ~v.scanout /\ v.hw_bits = p.hw_bits
      /\ v.fb_bits = p.fb_bits /\ v.dirty_hw = p.dirty_hw
  BY DEF PixmapRecord
<1>2. q \in IF ~r.scanout THEN {r}
            ELSE { [u EXCEPT !.pending_update = @ \cup R, !.dirty_present = @ \ R] :
                   u \in IF r.pending_present \cap R # {} THEN Flush(r) ELSE {r} }
  BY DEF DirtySw
<1> HIDE DEF v
<1>3. r \in PixmapRecord /\ ~r.scanout /\ r.hw_bits = v.hw_bits
      /\ r.fb_bits = v.fb_bits /\ r.dirty_hw = v.dirty_hw \ R
  BY <1>1 DEF PixmapRecord
<1> HIDE DEF r
<1> QED
  BY <1>1, <1>2, <1>3 DEF Leaves

(* The end of an operation queues a front buffer and no more.              *)
LEMMA OperationCompleteLeaves ==
  ASSUME NEW p \in PixmapRecord, ~p.scanout, NEW q \in OperationComplete(p, FALSE)
  PROVE  Leaves(p, q)
<1>1. q = p \/ q = [p EXCEPT !.sync = TRUE]
  BY FailedIs DEF OperationComplete
<1>2. /\ [p EXCEPT !.sync = TRUE] \in PixmapRecord
      /\ ~[p EXCEPT !.sync = TRUE].scanout
      /\ [p EXCEPT !.sync = TRUE].hw_bits = p.hw_bits
      /\ [p EXCEPT !.sync = TRUE].fb_bits = p.fb_bits
      /\ [p EXCEPT !.sync = TRUE].dirty_hw = p.dirty_hw
  BY DEF PixmapRecord
<1> QED
  BY <1>1, <1>2 DEF Leaves

(* Software drawing.                                                       *)
LEMMA RenderSwLeaves ==
  ASSUME NoHazards, NEW K, NEW p, Whole(K, p), ~p.scanout, NEW read, NEW R \in SUBSET Tiles,
         NEW w \in Drawings, NEW o \in RenderSw(p, read, R, w)
  PROVE  Leaves(p, o.p)
<1>1. PICK a \in PrepareAccess(p, read) :
        o \in IF a.ok
              THEN { Done(q) : q \in DirtySw([a.p EXCEPT !.sw_bits = w[a.p.sw_bits]], R) }
              ELSE {a}
  BY DEF RenderSw
<1>2. Leaves(p, a.p) /\ Whole(K, a.p)
  BY PrepareAccessLeaves, MovesWhole
<1>3. CASE ~a.ok
  BY <1>1, <1>2, <1>3
<1>4. CASE a.ok
  <2> DEFINE b == w[a.p.sw_bits]
  <2>1. PICK q \in DirtySw([a.p EXCEPT !.sw_bits = b], R) : o = Done(q)
    BY <1>1, <1>4
  <2>2. b \in Image
    BY <1>2, GoodBits, DrawingApplied DEF Whole
  <2> HIDE DEF b
  <2>3. Leaves(a.p, q)
    BY <1>2, <2>1, <2>2, DirtySwLeaves DEF Leaves
  <2> QED
    BY <1>2, <2>1, <2>3, DoneIs, LeavesTransitive
<1> QED
  BY <1>3, <1>4

(* A request that draws on one pixmap.                                     *)
LEMMA DrawsLeaves ==
  ASSUME CInv, master = FALSE, NEW p \in Pixmaps, NEW S,
         \A o \in S : Leaves(pix[p], o.p), NEW contents, Draws(p, S, contents)
  PROVE  LeavesAll(pix, pix')
<1>1. PICK o \in S : \E q \in OperationComplete(o.p, master) :
                      pix' = [pix EXCEPT ![p] = q]
  BY DEF Draws
<1>2. PICK q \in OperationComplete(o.p, FALSE) : pix' = [pix EXCEPT ![p] = q]
  BY <1>1
<1>3. Leaves(pix[p], o.p)
  OBVIOUS
<1>4. Leaves(o.p, q)
  BY <1>2, <1>3, OperationCompleteLeaves DEF Leaves
<1>5. Dark(mem, pix) /\ LeavesAll(pix, pix) /\ DOMAIN pix = Pixmaps
  BY AwayDark, LeavesReflexive
<1> QED
  BY <1>2, <1>3, <1>4, <1>5, LeavesTransitive, LeavesUpdate

(* Drawing requests.                                                       *)
LEMMA DrawingLeaves ==
  ASSUME NoHazards, CInv, master = FALSE, NEW p \in Pixmaps, NEW R \in Rects,
         NEW c \in Colors
  PROVE  /\ SwDraw(p, R, c) => LeavesAll(pix, pix')
         /\ SwFill(p, R, c) => LeavesAll(pix, pix')
         /\ \A W \in SUBSET R : PushPixels(p, W, R, c) => LeavesAll(pix, pix')
<1>1. R \in SUBSET Tiles /\ Whole(Client!Kept(mem[p]), pix[p]) /\ ~pix[p].scanout
  BY RequestsAssumption, AwayDark DEF CInv, Dark
<1>2. ASSUME NEW read, NEW w \in Drawings, NEW contents,
             Draws(p, RenderSw(pix[p], read, R, w), contents)
      PROVE  LeavesAll(pix, pix')
  <2>1. \A o \in RenderSw(pix[p], read, R, w) : Leaves(pix[p], o.p)
    BY <1>1, RenderSwLeaves
  <2> QED
    BY <1>2, <2>1, DrawsLeaves
<1>3. SwDraw(p, R, c) => LeavesAll(pix, pix')
  BY <1>2, DrawingType DEF SwDraw
<1>4. SwFill(p, R, c) => LeavesAll(pix, pix')
  BY <1>2, DrawingType DEF SwFill
<1>5. \A W \in SUBSET R : PushPixels(p, W, R, c) => LeavesAll(pix, pix')
  BY <1>2, DrawingType DEF PushPixels
<1> QED
  BY <1>3, <1>4, <1>5

(* Reading pixels.                                                         *)
LEMMA GetImageLeaves ==
  ASSUME NoHazards, CInv, master = FALSE, NEW p \in Pixmaps, NEW t \in Tiles,
         GetImage(p, t)
  PROVE  LeavesAll(pix, pix')
<1>1. PICK o \in PrepareAccess(pix[p], {t}) : pix' = [pix EXCEPT ![p] = o.p]
  BY DEF GetImage
<1>2. Dark(mem, pix) /\ LeavesAll(pix, pix) /\ DOMAIN pix = Pixmaps
  BY AwayDark, LeavesReflexive
<1>3. Leaves(pix[p], o.p)
  BY <1>2, PrepareAccessLeaves DEF Dark, WholeScreen
<1> QED
  BY <1>1, <1>2, <1>3, LeavesUpdate

(* Mapping two pixmaps.                                                    *)
LEMMA AccessBothLeaves ==
  ASSUME NoHazards, NEW x, NEW f, Dark(x, f), NEW s \in Pixmaps, NEW d \in Pixmaps,
         NEW src, NEW read, NEW o \in AccessBoth(f, s, d, src, read)
  PROVE  LeavesAll(f, o.pix) /\ WholeScreen(x, o.pix)
<1> DEFINE Read(p) == PrepareAccess(p, src)
           S == OnPixmap({[ok |-> TRUE, pix |-> f]}, s, Read)
<1>1. PICK a \in S :
        o \in IF a.ok
              THEN { [ok |-> r.ok, pix |-> [a.pix EXCEPT ![d] = r.p]] :
                     r \in PrepareAccess(a.pix[d], read) }
              ELSE {a}
  BY DEF AccessBoth, OnPixmap
<1>2. PICK r \in PrepareAccess(f[s], src) :
        a = [ok |-> r.ok, pix |-> [f EXCEPT ![s] = r.p]]
  BY <1>1 DEF OnPixmap
<1> HIDE DEF S
<1>3. WholeScreen(x, f) /\ Whole(Client!Kept(x[s]), f[s]) /\ ~f[s].scanout /\ DOMAIN f = Pixmaps
  BY LeavesReflexive DEF Dark, WholeScreen
<1>4. Leaves(f[s], r.p) /\ Moves(Client!Kept(x[s]), f[s], r.p)
  BY <1>3, PrepareAccessLeaves
<1>5. MovesAll(x, f, a.pix) /\ LeavesAll(f, a.pix)
  BY <1>2, <1>3, <1>4, MovesUpdate, LeavesReflexive, LeavesUpdate
<1>6. WholeScreen(x, a.pix) /\ DOMAIN a.pix = Pixmaps
  BY <1>3, <1>5, MovesAllWhole DEF WholeScreen, Screens
<1>7. CASE ~a.ok
  BY <1>1, <1>5, <1>6, <1>7
<1>8. CASE a.ok
  <2>1. PICK u \in PrepareAccess(a.pix[d], read) : o.pix = [a.pix EXCEPT ![d] = u.p]
    BY <1>1, <1>8
  <2>2. Whole(Client!Kept(x[d]), a.pix[d]) /\ ~a.pix[d].scanout
    BY <1>5, <1>6 DEF WholeScreen, LeavesAll, Leaves
  <2>3. Leaves(a.pix[d], u.p) /\ Moves(Client!Kept(x[d]), a.pix[d], u.p)
    BY <2>2, PrepareAccessLeaves
  <2> QED
    BY <1>5, <1>6, <2>1, <2>3, MovesUpdate, MovesAllWhole, LeavesUpdate
<1> QED
  BY <1>7, <1>8

(* A transfer by software.                                                 *)
LEMMA TransferSwLeaves ==
  ASSUME NoHazards, NEW x, NEW f, Dark(x, f), NEW s \in Pixmaps, NEW d \in Pixmaps,
         NEW read, NEW R \in SUBSET Tiles, NEW src, NEW w \in Combinings,
         NEW o \in TransferSw(f, s, d, read, R, src, w)
  PROVE  LeavesAll(f, o.pix) /\ DOMAIN o.pix = Pixmaps
<1> DEFINE S == AccessBoth(f, s, d, src, read)
<1>1. PICK a \in S :
        o \in IF ~a.ok THEN {a}
              ELSE { [ok |-> TRUE, pix |-> [a.pix EXCEPT ![d] = q]] :
                     q \in DirtySw([a.pix[d] EXCEPT
                             !.sw_bits = w[<<a.pix[d].sw_bits, a.pix[s].sw_bits>>]], R) }
  BY DEF TransferSw, AccessBoth
<1>2. LeavesAll(f, a.pix) /\ WholeScreen(x, a.pix) /\ DOMAIN a.pix = Pixmaps
  BY <1>1, AccessBothLeaves DEF WholeScreen, Screens
<1> HIDE DEF S
<1>3. CASE ~a.ok
  BY <1>1, <1>2, <1>3
<1>4. CASE a.ok
  <2> DEFINE b == w[<<a.pix[d].sw_bits, a.pix[s].sw_bits>>]
  <2>1. PICK q \in DirtySw([a.pix[d] EXCEPT !.sw_bits = b], R) :
          o = [ok |-> TRUE, pix |-> [a.pix EXCEPT ![d] = q]]
    BY <1>1, <1>4
  <2>2. a.pix[d] \in GoodPixmap /\ a.pix[s] \in GoodPixmap /\ ~a.pix[d].scanout
    BY <1>2 DEF WholeScreen, Whole, LeavesAll, Leaves
  <2>3. b \in Image
    BY <2>2, GoodBits, CombiningApplied
  <2> HIDE DEF b
  <2>4. Leaves(a.pix[d], q)
    BY <2>1, <2>2, <2>3, DirtySwLeaves DEF GoodPixmap, CorePixmap
  <2> QED
    BY <1>2, <2>1, <2>4, LeavesUpdate
<1> QED
  BY <1>3, <1>4

(* The device is not asked, so software copies.                            *)
LEMMA HwNotAway ==
  ASSUME master = FALSE, NEW f, NEW s, NEW d, NEW m, NEW reads, NEW w
  PROVE  /\ HwCopy(f, s, d, m) = {NotDone(f)}
         /\ HwComposite(f, s, d, m, reads, w) = {NotDone(f)}
BY DEF HwCopy, HwComposite

(* A copy by software.                                                     *)
LEMMA SwCopyLeaves ==
  ASSUME NoHazards, NEW x, NEW f, Dark(x, f), NEW s \in Pixmaps, NEW d \in Pixmaps,
         NEW read, NEW D \in SUBSET Tiles, NEW m \in [D -> Tiles],
         NEW o \in SwCopy(f, s, d, m, read)
  PROVE  LeavesAll(f, o.pix) /\ DOMAIN o.pix = Pixmaps
<1>1. DOMAIN m = D
  OBVIOUS
<1>2. o \in TransferSw(f, s, d, read, D, SourceRegion(m), Copying(m))
  BY <1>1 DEF SwCopy
<1> QED
  BY <1>2, CombiningType, TransferSwLeaves

(* A request between pixmaps.                                              *)
LEMMA TransfersLeaves ==
  ASSUME CInv, master = FALSE, NEW d \in Pixmaps, NEW S,
         \A o \in S : LeavesAll(pix, o.pix) /\ DOMAIN o.pix = Pixmaps,
         NEW contents, Transfers(d, S, contents)
  PROVE  LeavesAll(pix, pix')
<1>1. PICK o \in S : \E q \in OperationComplete(o.pix[d], master) :
                      pix' = [o.pix EXCEPT ![d] = q]
  BY DEF Transfers
<1>2. PICK q \in OperationComplete(o.pix[d], FALSE) : pix' = [o.pix EXCEPT ![d] = q]
  BY <1>1
<1>3. LeavesAll(pix, o.pix) /\ DOMAIN o.pix = Pixmaps
  OBVIOUS
<1>4. Leaves(o.pix[d], q)
  BY <1>2, <1>3, OperationCompleteLeaves DEF LeavesAll, Leaves
<1> QED
  BY <1>2, <1>3, <1>4, AwayDark, LeavesUpdate

(* Copies and composites.                                                  *)
LEMMA CopiesLeave ==
  ASSUME NoHazards, CInv, master = FALSE, NEW s \in Pixmaps, NEW d \in Pixmaps,
         NEW m \in Translations
  PROVE  /\ CopyArea(s, d, m) => LeavesAll(pix, pix')
         /\ CompositeOver(s, d, m) => LeavesAll(pix, pix')
         /\ CompositeSrc(s, d, m) => LeavesAll(pix, pix')
<1>1. PICK D \in SUBSET Tiles : m \in [D -> Tiles]
  BY TranslationTypes
<1>2. DOMAIN m = D /\ Dark(mem, pix)
  BY <1>1, AwayDark
<1>3. NotDone(pix).ok = FALSE /\ NotDone(pix).pix = pix
  BY NotDoneIs
<1>4. \A o \in SwCopy(pix, s, d, m, {}) : LeavesAll(pix, o.pix) /\ DOMAIN o.pix = Pixmaps
  BY <1>1, <1>2, SwCopyLeaves
<1>5. CopyArea(s, d, m) => LeavesAll(pix, pix')
  <2>1. CopyNToN(pix, s, d, m, {}) = SwCopy(pix, s, d, m, {})
    BY <1>3, HwNotAway DEF CopyNToN
  <2> QED
    BY <1>4, <2>1, TransfersLeaves DEF CopyArea
<1>6. CompositeOver(s, d, m) => LeavesAll(pix, pix')
  <2> DEFINE w == Compositing(m)
             T(f) == TransferSw(f, s, d, D, D, SourceRegion(m), w)
             S == UNION { IF o.ok THEN {o} ELSE T(o.pix) :
                          o \in HwComposite(pix, s, d, m, TRUE, w) }
  <2>1. S = T(pix)
    BY <1>3, HwNotAway
  <2>2. \A o \in T(pix) : LeavesAll(pix, o.pix) /\ DOMAIN o.pix = Pixmaps
    BY <1>1, <1>2, CombiningType, TransferSwLeaves
  <2>3. CompositeOver(s, d, m) => Transfers(d, S, w[<<mem[d], mem[s]>>])
    BY <1>2 DEF CompositeOver
  <2> HIDE DEF S, T, w
  <2> QED
    BY <2>1, <2>2, <2>3, TransfersLeaves
<1>7. CompositeSrc(s, d, m) => LeavesAll(pix, pix')
  <2> DEFINE C(f) == UNION { IF o.ok THEN {o} ELSE SwCopy(o.pix, s, d, m, {}) :
                             o \in HwComposite(f, s, d, m, FALSE, Copying(m)) }
             S == UNION { IF o.ok THEN {o} ELSE C(o.pix) : o \in HwCopy(pix, s, d, m) }
  <2>1. C(pix) = SwCopy(pix, s, d, m, {})
    BY <1>3, HwNotAway
  <2>2. CompositeSrc(s, d, m) => Transfers(d, S, Copying(m)[<<mem[d], mem[s]>>])
    BY DEF CompositeSrc
  <2> HIDE DEF C
  <2>3. S = C(pix)
    BY <1>3, HwNotAway
  <2> HIDE DEF S
  <2> QED
    BY <1>4, <2>1, <2>2, <2>3, TransfersLeaves
<1> QED
  BY <1>5, <1>6, <1>7

(* Closing a front buffer.                                                 *)
LEMMA Dri2DestroyLeaves ==
  ASSUME CInv, master = FALSE, NEW p \in Pixmaps, Dri2DestroyBuffer(p)
  PROVE  LeavesAll(pix, pix')
<1>1. Dark(mem, pix) /\ LeavesAll(pix, pix) /\ DOMAIN pix = Pixmaps
  BY AwayDark, LeavesReflexive
<1>2. pix[p] \in PixmapRecord /\ ~pix[p].scanout /\ pix[p].fronts > 0
  BY <1>1 DEF LeavesAll, Leaves, Dri2DestroyBuffer
<1>3. pix[p].fronts - 1 \in 0 .. MaxFronts
  BY <1>2, MaxFrontsAssumption DEF PixmapRecord
<1> DEFINE q == [pix[p] EXCEPT !.fronts = @ - 1, !.sync = @ /\ pix[p].fronts > 1]
<1>4. Leaves(pix[p], q)
  <2>1. q \in PixmapRecord
    BY <1>2, <1>3 DEF PixmapRecord
  <2>2. /\ ~q.scanout /\ q.hw_bits = pix[p].hw_bits /\ q.fb_bits = pix[p].fb_bits
        /\ q.dirty_hw = pix[p].dirty_hw
    BY <1>2 DEF PixmapRecord
  <2> QED
    BY <2>1, <2>2 DEF Leaves
<1>5. pix' = [pix EXCEPT ![p] = q]
  BY <1>1 DEF Dri2DestroyBuffer
<1> QED
  BY <1>1, <1>4, <1>5, LeavesUpdate

(* No request that comes while the VT is away touches the device: it draws *)
(* in software, or frees a pixmap.                                         *)
LEMMA AwayStep ==
  ASSUME NoHazards, CInv, [Next]_vars, master = FALSE, master' = FALSE
  PROVE  \A p \in Pixmaps : Leaves(pix[p], pix'[p]) \/ pix'[p] = NewPixmap
<1>1. entry = NoPixmap /\ LeavesAll(pix, pix) /\ DOMAIN pix = Pixmaps
  BY AwayDark, LeavesReflexive DEF CInv, IInv
<1>2. CASE UNCHANGED vars
  BY <1>1, <1>2 DEF vars, LeavesAll
<1>3. CASE \E p \in Pixmaps, R \in Rects, c \in Colors :
             \/ SwDraw(p, R, c)
             \/ SwFill(p, R, c)
             \/ \E W \in SUBSET R : PushPixels(p, W, R, c)
  BY <1>3, DrawingLeaves DEF LeavesAll
<1>4. CASE \E p \in Pixmaps, t \in Tiles : GetImage(p, t)
  BY <1>4, GetImageLeaves DEF LeavesAll
<1>5. CASE \E p \in Pixmaps : DestroyPixmap(p)
  <2>1. PICK p \in Pixmaps : pix' = [pix EXCEPT ![p] = NewPixmap]
    BY <1>5 DEF DestroyPixmap
  <2>2. \A q \in Pixmaps : pix'[q] = IF q = p THEN NewPixmap ELSE pix[q]
    BY <1>1, <2>1
  <2> QED
    BY <1>1, <2>2 DEF LeavesAll
<1>6. CASE \E s, d \in Pixmaps, m \in Translations :
             CopyArea(s, d, m) \/ CompositeOver(s, d, m) \/ CompositeSrc(s, d, m)
  BY <1>6, CopiesLeave DEF LeavesAll
<1>7. CASE BlockHandler \/ CrtcOff
  BY <1>1, <1>7 DEF BlockHandler, CrtcOff
<1>8. CASE (\E q \in Scanouts : SetModeMajor(q)) \/ LeaveVT \/ EnterVT
  BY <1>8 DEF SetModeMajor, LeaveVT, EnterVT
<1>9. CASE \E p \in GlPixmaps :
              \/ Dri2CreateBuffer(p)
              \/ Dri2DestroyBuffer(p)
              \/ Dri2WaitX(p)
              \/ \E R \in Rects, c \in Colors :
                   \/ Dri2WaitGL(p, R, c)
                   \/ \E d \in Pixmaps : Dri2CopyRegion(p, d, R, c)
  <2>1. \E p \in GlPixmaps : Dri2DestroyBuffer(p)
    BY <1>9 DEF Dri2CreateBuffer, Dri2WaitX, Dri2WaitGL, Dri2CopyRegion
  <2> QED
    BY <2>1, ScreenAssumption, Dri2DestroyLeaves DEF LeavesAll
<1> QED
  BY <1>2, <1>3, <1>4, <1>5, <1>6, <1>7, <1>8, <1>9 DEF Next

(* So nothing comes to be only in hardware.                                *)
LEMMA AwayHoldsNothing ==
  ASSUME NoHazards, CInv, [Next]_vars, UNCHANGED master
  PROVE  NothingHeldAway'
<1>1. CASE master
  BY <1>1 DEF NothingHeldAway
<1>2. CASE ~master
  <2>1. master = FALSE /\ master' = FALSE
    BY <1>2 DEF CInv, IInv
  <2>2. \A p \in Pixmaps : pix[p].dirty_hw = {}
    BY <1>2 DEF CInv, NothingHeldAway
  <2>3. NewPixmap.dirty_hw = {}
    BY DEF NewPixmap
  <2>4. \A p \in Pixmaps : pix'[p].dirty_hw = {}
    BY <2>1, <2>2, <2>3, AwayStep DEF Leaves
  <2> QED
    BY <2>4 DEF NothingHeldAway
<1> QED
  BY <1>1, <1>2

----------------------------------------------------------------------------
(* The contents theorems, without the hazards the code does not survive: a *)
(* request the kernel refuses and vmwgfx_drmi.c ignores, a format changed  *)
(* in place, a scanout reference dropped under presented contents.         *)

(* The invariant of contents holds of the initial screen.                  *)
LEMMA InitCInv == Init => CInv
<1> SUFFICES ASSUME Init PROVE CInv
  OBVIOUS
<1>1. IInv
  BY InitIInv
<1>2. \A p \in Pixmaps : pix[p] = NewPixmap /\ mem[p] = Blank
  BY DEF Init, Client!Init, Client!Blank, Blank
<1>3. shown = FALSE /\ NothingHeldAway
  BY DEF Init, Client!Init, NothingHeldAway
<1> QED
  BY <1>1, <1>2, <1>3, NewPixmapWhole DEF CInv

(* A request that serves all clients keeps it.                             *)
LEMMA RequestDone ==
  ASSUME CInv, IInv', ServesAll, NothingHeldAway', UNCHANGED <<entry, shown>>
  PROVE  CInv'
BY DEF CInv, ServesAll, Serves

(* Every step keeps it.                                                    *)
LEMMA NextCInv == ASSUME NoHazards, CInv, [Next]_vars PROVE CInv'
<1>1. IInv'
  BY NextIInv DEF CInv
<1>2. ASSUME ServesAll, UNCHANGED <<entry, shown, master>> PROVE CInv'
  BY <1>1, <1>2, AwayHoldsNothing, RequestDone
<1>3. CASE UNCHANGED vars
  BY <1>2, <1>3, CInvScreen DEF vars, ServesAll
<1>4. CASE \E p \in Pixmaps, R \in Rects, c \in Colors :
             \/ SwDraw(p, R, c)
             \/ SwFill(p, R, c)
             \/ \E W \in SUBSET R : PushPixels(p, W, R, c)
  <2>1. ServesAll
    BY <1>4, DrawingServes
  <2>2. UNCHANGED <<entry, shown, master>>
    BY <1>4 DEF SwDraw, SwFill, PushPixels, Draws
  <2> QED
    BY <1>2, <2>1, <2>2
<1>5. CASE \E p \in Pixmaps, t \in Tiles : GetImage(p, t)
  BY <1>2, <1>5, GetImageServes DEF GetImage
<1>6. CASE \E p \in Pixmaps : DestroyPixmap(p)
  BY <1>2, <1>6, DestroyServes DEF DestroyPixmap
<1>7. CASE \E s, d \in Pixmaps, m \in Translations :
             CopyArea(s, d, m) \/ CompositeOver(s, d, m) \/ CompositeSrc(s, d, m)
  <2>1. ServesAll
    BY <1>7, CopyAreaServes, CompositeOverServes, CompositeSrcServes
  <2>2. ASSUME NEW d, NEW S, NEW contents, Transfers(d, S, contents)
        PROVE  UNCHANGED <<entry, shown, master>>
    BY <2>2 DEF Transfers
  <2>3. UNCHANGED <<entry, shown, master>>
    BY <1>7, <2>2 DEF CopyArea, CompositeOver, CompositeSrc
  <2> QED
    BY <1>2, <2>1, <2>3
<1>8. CASE BlockHandler
  BY <1>2, <1>8, BlockHandlerServes DEF BlockHandler
<1>9. CASE \E q \in Scanouts : SetModeMajor(q)
  BY <1>9, SetModeContents
<1>10. CASE CrtcOff
  BY <1>10, CrtcOffContents
<1>11. CASE LeaveVT
  BY <1>11, LeaveVTContents
<1>12. CASE EnterVT
  BY <1>12, EnterVTContents
<1>13. CASE \E p \in GlPixmaps :
              \/ Dri2CreateBuffer(p)
              \/ Dri2DestroyBuffer(p)
              \/ Dri2WaitX(p)
              \/ \E R \in Rects, c \in Colors :
                   \/ Dri2WaitGL(p, R, c)
                   \/ \E d \in Pixmaps : Dri2CopyRegion(p, d, R, c)
  <2>1. PICK p \in GlPixmaps :
              \/ Dri2CreateBuffer(p)
              \/ Dri2DestroyBuffer(p)
              \/ Dri2WaitX(p)
              \/ \E R \in Rects, c \in Colors :
                   \/ Dri2WaitGL(p, R, c)
                   \/ \E d \in Pixmaps : Dri2CopyRegion(p, d, R, c)
    BY <1>13
  <2>2. p \in Pixmaps
    BY ScreenAssumption
  <2>3. ServesAll
    BY <2>1, <2>2, Dri2CreateServes, Dri2DestroyServes, Dri2WaitXServes,
       Dri2WaitGLServes, Dri2CopyServes
  <2>4. UNCHANGED <<entry, shown, master>>
    BY <2>1 DEF Dri2CreateBuffer, Dri2DestroyBuffer, Dri2WaitX, Dri2WaitGL,
       Dri2CopyRegion
  <2> QED
    BY <1>2, <2>3, <2>4
<1> QED
  BY <1>3, <1>4, <1>5, <1>6, <1>7, <1>8, <1>9, <1>10, <1>11, <1>12, <1>13 DEF Next

(* What the invariant says of each pixmap and of the screen.               *)
LEMMA CInvImplies ==
  ASSUME CInv
  PROVE  /\ ContentsKept /\ SurfaceValid /\ HeldSomewhere
         /\ ScreenFresh /\ FrontsFlushed /\ NothingHeldAway
<1>1. ASSUME NEW p \in Pixmaps
      PROVE  /\ pix[p] \in PixmapRecord /\ Sound(Client!Kept(mem[p]), pix[p])
             /\ Flushed(pix[p]) /\ Holds(pix[p], mem[p])
  BY DEF CInv, Whole, GoodPixmap, CorePixmap
<1>2. \A p \in Pixmaps : \A t \in Client!Kept(mem[p]) : t \in Tiles
  BY DEF Client!Kept
<1>3. ContentsKept
  BY <1>1, <1>2, ContentsAt DEF ContentsKept, Holds
<1>4. ASSUME NEW p \in Pixmaps, NEW t \in Tiles
      PROVE  TileSound(Client!Kept(mem[p]), pix[p], t)
  BY <1>1 DEF Sound
<1>5. SurfaceValid
  BY <1>2, <1>4 DEF SurfaceValid, TileSound
<1>6. HeldSomewhere
  <2>1. ASSUME NEW p \in Pixmaps, ~pix[p].hw, NEW t \in pix[p].dirty_hw
        PROVE  t \in pix[p].dirty_present
    <3>1. t \in Tiles
      BY <1>1 DEF PixmapRecord
    <3> QED
      BY <1>4, <2>1, <3>1 DEF TileSound
  <2> QED
    BY <2>1 DEF HeldSomewhere
<1>7. ScreenFresh
  BY <1>1, <1>2 DEF CInv, Fresh, Holds, ScreenFresh
<1>8. FrontsFlushed
  BY <1>1 DEF Flushed, FrontsFlushed
<1> QED
  BY <1>3, <1>5, <1>6, <1>7, <1>8 DEF CInv

(* Away from its VT the server leaves the device alone.                    *)
LEMMA HandsOffStep ==
  ASSUME NoHazards, CInv, [Next]_vars, ~master, ~master'
  PROVE  \A p \in Pixmaps :
           \/ pix'[p].hw_bits = pix[p].hw_bits /\ pix'[p].fb_bits = pix[p].fb_bits
           \/ pix'[p] = NewPixmap
<1>1. master = FALSE /\ master' = FALSE
  BY NextIInv DEF CInv, IInv
<1> QED
  BY <1>1, AwayStep DEF Leaves

(* The invariant of contents always holds.                                 *)
LEMMA AlwaysWhole == ASSUME NoHazards PROVE Spec => []CInv
<1>1. CInv /\ [Next]_vars => CInv'
  BY NextCInv
<1> QED
  BY InitCInv, <1>1, PTL DEF Spec

(* Where the driver would look for pixels it finds what the clients drew,  *)
(* through any sequence of requests, mode sets, VT switches and GL clients *)
(* and any failed allocation, mapping or validation, unless the pixels     *)
(* were lost to PushPixels, to a GL client's drawing, or to a readback     *)
(* that failed as the VT was left (vmwgfx_saa_drop_master).  What          *)
(* NoHazards leaves out are transfers and presents that fail with nobody   *)
(* told, format changes, and framebuffers removed while presented on.      *)
THEOREM ContentsAlwaysKept == ASSUME NoHazards PROVE Spec => []ContentsKept
<1>1. CInv => ContentsKept
  BY CInvImplies
<1> QED
  BY AlwaysWhole, <1>1, PTL

(* A tile no region marks is the same in surface and software, so          *)
(* hw_validate and check_hw_contents may rely on the regions, wherever the *)
(* pixels were not lost.                                                   *)
THEOREM SurfaceAlwaysValid == ASSUME NoHazards PROVE Spec => []SurfaceValid
<1>1. CInv => SurfaceValid
  BY CInvImplies
<1> QED
  BY AlwaysWhole, <1>1, PTL

(* Freeing, killing and recreating storage (free_storage, hw_kill,         *)
(* scanout_unref) never strands the only copy of some contents.            *)
THEOREM AlwaysHeldSomewhere == ASSUME NoHazards PROVE Spec => []HeldSomewhere
<1>1. CInv => HeldSomewhere
  BY CInvImplies
<1> QED
  BY AlwaysWhole, <1>1, PTL

(* The CRTC shows what the clients drew, but for what the next xorg_flush  *)
(* brings, what one dropped because vmwgfx_hw_accel_validate failed, and   *)
(* lost pixels, across mode sets and VT switches and in every option, as   *)
(* long as presents and DirtyFB work (NoHazards).                          *)
THEOREM ScreenAlwaysFresh == ASSUME NoHazards PROVE Spec => []ScreenFresh
<1>1. CInv => ScreenFresh
  BY CInvImplies
<1> QED
  BY AlwaysWhole, <1>1, PTL

(* GL clients find what X drew in the surface they share, or it is queued  *)
(* (operation_complete, flush_dri2).                                       *)
THEOREM FrontsAlwaysFlushed == ASSUME NoHazards PROVE Spec => []FrontsFlushed
<1>1. CInv => FrontsFlushed
  BY CInvImplies
<1> QED
  BY AlwaysWhole, <1>1, PTL

(* drop_master leaves nothing only in hardware, and no request puts        *)
(* anything there until the VT is back.                                    *)
THEOREM NothingEverHeldAway == ASSUME NoHazards PROVE Spec => []NothingHeldAway
<1>1. CInv => NothingHeldAway
  BY CInvImplies
<1> QED
  BY AlwaysWhole, <1>1, PTL

(* While the VT is away no request writes a surface or the framebuffer.    *)
THEOREM HandsAlwaysOffAway == ASSUME NoHazards PROVE Spec => HandsOffAway
<1>1. CInv /\ [Next]_vars =>
        [ ~master /\ ~master' =>
            \A p \in Pixmaps :
              \/ pix'[p].hw_bits = pix[p].hw_bits /\ pix'[p].fb_bits = pix[p].fb_bits
              \/ pix'[p] = NewPixmap ]_vars
  BY HandsOffStep
<1> QED
  BY AlwaysWhole, <1>1, PTL DEF Spec, HandsOffAway

----------------------------------------------------------------------------
(* The driver implements the memory of pixels.                             *)

(* A request that draws sets the pixmap it draws on, or nothing.           *)
LEMMA DrawsSets ==
  ASSUME NEW p \in Pixmaps, NEW S, NEW contents, Draws(p, S, contents)
  PROVE  (Client!Internal \/ Client!Set(p, contents)) /\ UNCHANGED master
BY DEF Draws, Client!Internal, Client!Set

(* So does a request between pixmaps.                                      *)
LEMMA TransfersSets ==
  ASSUME NEW d \in Pixmaps, NEW S, NEW contents, Transfers(d, S, contents)
  PROVE  (Client!Internal \/ Client!Set(d, contents)) /\ UNCHANGED master
BY DEF Transfers, Client!Internal, Client!Set

(* What changes nothing a client sees, with the VT kept or back.           *)
LEMMA InternalNext == ASSUME Client!Internal, master => master' PROVE Client!Next
BY DEF Client!Next

(* Drawing requests fill, mix or push.                                     *)
LEMMA DrawingImplements ==
  ASSUME CInv, NEW p \in Pixmaps, NEW R \in Rects, NEW c \in Colors
  PROVE  /\ SwDraw(p, R, c) => Client!Next
         /\ SwFill(p, R, c) => Client!Next
         /\ \A W \in SUBSET R : PushPixels(p, W, R, c) => Client!Next
<1>1. mem[p] \in Memory /\ R \in SUBSET Tiles
  BY CInvScreen, RequestsAssumption
<1>2. \A W \in SUBSET Tiles : Filling(W, c)[mem[p]] = Client!ApplyFill(mem[p], W, c)
  BY <1>1 DEF Filling
<1>3. Blending(R, c)[mem[p]] = Client!ApplyBlend(mem[p], R, c)
  BY <1>1 DEF Blending
<1>4. ASSUME SwDraw(p, R, c) PROVE Client!Next
  <2>1. (Client!Internal \/ Client!Mix(p, R, c)) /\ UNCHANGED master
    BY <1>3, <1>4, DrawsSets DEF SwDraw, Client!Mix
  <2> QED
    BY <1>1, <2>1 DEF Client!Next
<1>5. ASSUME SwFill(p, R, c) PROVE Client!Next
  <2>1. (Client!Internal \/ Client!Fill(p, R, c)) /\ UNCHANGED master
    BY <1>1, <1>2, <1>5, DrawsSets DEF SwFill, Client!Fill
  <2> QED
    BY <1>1, <2>1 DEF Client!Next
<1>6. ASSUME NEW W \in SUBSET R, PushPixels(p, W, R, c)
      PROVE  Client!Next
  <2> DEFINE N == (R \ W) \cap pix[p].dirty_hw
  <2>1. W \in SUBSET Tiles /\ N \in SUBSET (R \ W)
    BY <1>1
  <2>2. /\ \/ Client!Internal
           \/ Client!Set(p, Client!Forget(Client!ApplyFill(mem[p], W, c), N))
        /\ UNCHANGED master
    <3>1. /\ \/ Client!Internal
             \/ Client!Set(p, Client!Forget(Filling(W, c)[mem[p]], N))
          /\ UNCHANGED master
      BY <1>6, DrawsSets DEF PushPixels
    <3> QED
      BY <1>2, <2>1, <3>1
  <2> HIDE DEF N
  <2>3. (Client!Internal \/ Client!Push(p, R, W, c)) /\ UNCHANGED master
    BY <2>1, <2>2 DEF Client!Push
  <2> QED
    BY <1>1, <2>1, <2>3 DEF Client!Next
<1> QED
  BY <1>4, <1>5, <1>6

(* GetImage gets, or fails.                                                *)
LEMMA GetImageImplements ==
  ASSUME NoHazards, CInv, NEW p \in Pixmaps, NEW t \in Tiles, GetImage(p, t)
  PROVE  Client!Next
<1>1. mem' = mem /\ UNCHANGED master
  BY DEF GetImage
<1>2. \/ reply' = NoReply
      \/ IF mem[p][t] = Lost THEN reply' \in Values ELSE reply' = mem[p][t]
  BY GetImageServes
<1>3. Client!Values = Values
  BY DEF Values, Client!Values
<1>4. Client!Internal \/ Client!Get(p, t)
  BY <1>1, <1>2, <1>3 DEF Client!Internal, Client!Get
<1> QED
  BY <1>1, <1>4 DEF Client!Next

(* Copies and composites of either operator copy or blend.                 *)
LEMMA CopiesImplement ==
  ASSUME CInv, NEW s \in Pixmaps, NEW d \in Pixmaps, NEW m \in Translations
  PROVE  /\ CopyArea(s, d, m) => Client!Next
         /\ CompositeOver(s, d, m) => Client!Next
         /\ CompositeSrc(s, d, m) => Client!Next
<1>1. PICK D \in SUBSET Tiles : m \in [D -> Tiles]
  BY TranslationTypes
<1>2. mem[s] \in Memory /\ mem[d] \in Memory
  BY CInvScreen
<1>3. /\ Copying(m)[<<mem[d], mem[s]>>] = Client!ApplyCopy(mem[d], mem[s], m)
      /\ Compositing(m)[<<mem[d], mem[s]>>] = Client!ApplyOver(mem[d], mem[s], m)
  BY <1>2 DEF Copying, Compositing
<1>4. ASSUME CopyArea(s, d, m)
      PROVE  (Client!Internal \/ Client!Copy(s, d, m)) /\ UNCHANGED master
  BY <1>3, <1>4, TransfersSets DEF CopyArea, Client!Copy
<1>5. ASSUME CompositeOver(s, d, m)
      PROVE  (Client!Internal \/ Client!Over(s, d, m)) /\ UNCHANGED master
  BY <1>3, <1>5, TransfersSets DEF CompositeOver, Client!Over
<1>6. ASSUME CompositeSrc(s, d, m)
      PROVE  (Client!Internal \/ Client!Copy(s, d, m)) /\ UNCHANGED master
  BY <1>3, <1>6, TransfersSets DEF CompositeSrc, Client!Copy
<1>7. (Client!Copy(s, d, m) \/ Client!Over(s, d, m)) /\ UNCHANGED master => Client!Next
  BY <1>1 DEF Client!Next
<1> QED
  BY <1>4, <1>5, <1>6, <1>7, InternalNext

(* A GL client's drawing shares; its copy swaps.                           *)
LEMMA Dri2Implements ==
  ASSUME NEW p \in Pixmaps, NEW d \in Pixmaps, NEW R \in Rects, NEW c \in Colors
  PROVE  /\ Dri2WaitGL(p, R, c) => Client!Next
         /\ Dri2CopyRegion(p, d, R, c) => Client!Next
<1>1. R \in SUBSET Tiles
  BY RequestsAssumption
<1>2. ASSUME Dri2WaitGL(p, R, c) PROVE Client!Next
  <2> DEFINE N == R \ pix[p].dirty_hw
  <2>1. N \in SUBSET R
    OBVIOUS
  <2>2. /\ mem' = [mem EXCEPT ![p] = Client!Forget(Client!ApplyFill(mem[p], R, c), N)]
        /\ reply' = NoReply /\ UNCHANGED master
    BY <1>2 DEF Dri2WaitGL
  <2> HIDE DEF N
  <2>3. Client!Share(p, R, c)
    BY <2>1, <2>2 DEF Client!Share, Client!Set
  <2> QED
    BY <1>1, <2>2, <2>3 DEF Client!Next
<1>3. ASSUME Dri2CopyRegion(p, d, R, c) PROVE Client!Next
  <2>1. PICK ok :
          mem' = [q \in Pixmaps |-> IF q = p \/ (q = d /\ ok)
                                    THEN Client!ApplyFill(mem[q], R, c) ELSE mem[q]]
    BY <1>3 DEF Dri2CopyRegion
  <2> DEFINE copied == IF ok THEN {d} ELSE {}
  <2>2. copied \in SUBSET {d} /\ \A q : q \in copied <=> q = d /\ ok
    OBVIOUS
  <2> HIDE DEF copied
  <2>3. mem' = [q \in Pixmaps |-> IF q = p \/ q \in copied
                                  THEN Client!ApplyFill(mem[q], R, c) ELSE mem[q]]
    BY <2>1, <2>2
  <2>4. Client!Swap(p, d, R, c) /\ UNCHANGED master
    BY <1>3, <2>2, <2>3 DEF Dri2CopyRegion, Client!Swap
  <2> QED
    BY <1>1, <2>4 DEF Client!Next
<1> QED
  BY <1>2, <1>3

(* Leaving the VT forgets what could not be brought back.                  *)
LEMMA LeaveVTImplements ==
  ASSUME NoHazards, CInv, LeaveVT
  PROVE  Client!Next
<1>1. PICK f \in (IF entry = NoPixmap THEN {pix} ELSE Unref(pix, entry)) :
        \E g \in Choices([p \in Pixmaps |-> DropMaster(f[p])]) :
          mem' = [p \in Pixmaps |-> Client!Forget(mem[p], g[p].lost)]
  BY DEF LeaveVT
<1>2. PICK g \in Choices([p \in Pixmaps |-> DropMaster(f[p])]) :
          mem' = [p \in Pixmaps |-> Client!Forget(mem[p], g[p].lost)]
  BY <1>1
<1> DEFINE N == [p \in Pixmaps |-> g[p].lost \cap Tiles]
<1>3. N \in [Pixmaps -> SUBSET Tiles] /\ \A p \in Pixmaps : N[p] = g[p].lost \cap Tiles
  OBVIOUS
<1> HIDE DEF N
<1>4. ASSUME NEW p \in Pixmaps
      PROVE  Client!Forget(mem[p], g[p].lost) = Client!Forget(mem[p], N[p])
  BY <1>3 DEF Client!Forget
<1>5. mem' = [p \in Pixmaps |-> Client!Forget(mem[p], N[p])]
  BY <1>2, <1>4
<1>6. master = TRUE /\ master' = FALSE /\ reply' = NoReply
  BY DEF LeaveVT, CInv, IInv
<1>7. Client!Leave
  BY <1>3, <1>5, <1>6 DEF Client!Leave
<1> QED
  BY <1>7 DEF Client!Next

(* Every step of the driver is one the client may see.                     *)
LEMMA StepImplements ==
  ASSUME NoHazards, CInv, [Next]_vars
  PROVE  [Client!Next]_<<mem, reply, master>>
<1>1. CASE UNCHANGED vars
  BY <1>1 DEF vars
<1>2. CASE \E p \in Pixmaps, R \in Rects, c \in Colors :
             \/ SwDraw(p, R, c)
             \/ SwFill(p, R, c)
             \/ \E W \in SUBSET R : PushPixels(p, W, R, c)
  BY <1>2, DrawingImplements
<1>3. CASE \E p \in Pixmaps, t \in Tiles : GetImage(p, t)
  BY <1>3, GetImageImplements
<1>4. CASE \E p \in Pixmaps : DestroyPixmap(p)
  BY <1>4 DEF DestroyPixmap, Client!Next
<1>5. CASE \E s, d \in Pixmaps, m \in Translations :
             CopyArea(s, d, m) \/ CompositeOver(s, d, m) \/ CompositeSrc(s, d, m)
  BY <1>5, CopiesImplement
<1>6. CASE \/ BlockHandler \/ CrtcOff \/ EnterVT
           \/ \E q \in Scanouts : SetModeMajor(q)
  <2>1. Client!Internal /\ (master => master')
    BY <1>6 DEF BlockHandler, CrtcOff, EnterVT, SetModeMajor
  <2> QED
    BY <2>1, InternalNext
<1>7. CASE LeaveVT
  BY <1>7, LeaveVTImplements
<1>8. CASE \E p \in GlPixmaps :
              \/ Dri2CreateBuffer(p)
              \/ Dri2DestroyBuffer(p)
              \/ Dri2WaitX(p)
              \/ \E R \in Rects, c \in Colors :
                   \/ Dri2WaitGL(p, R, c)
                   \/ \E d \in Pixmaps : Dri2CopyRegion(p, d, R, c)
  <2>1. PICK p \in GlPixmaps :
              \/ Dri2CreateBuffer(p) \/ Dri2DestroyBuffer(p) \/ Dri2WaitX(p)
              \/ \E R \in Rects, c \in Colors :
                   \/ Dri2WaitGL(p, R, c)
                   \/ \E d \in Pixmaps : Dri2CopyRegion(p, d, R, c)
    BY <1>8
  <2>2. p \in Pixmaps
    BY ScreenAssumption
  <2>3. CASE Dri2CreateBuffer(p) \/ Dri2DestroyBuffer(p) \/ Dri2WaitX(p)
    <3>1. Client!Internal /\ (master => master')
      BY <2>3 DEF Dri2CreateBuffer, Dri2DestroyBuffer, Dri2WaitX
    <3> QED
      BY <3>1, InternalNext
  <2>4. CASE \E R \in Rects, c \in Colors :
               \/ Dri2WaitGL(p, R, c)
               \/ \E d \in Pixmaps : Dri2CopyRegion(p, d, R, c)
    BY <2>2, <2>4, Dri2Implements
  <2> QED
    BY <2>1, <2>3, <2>4
<1> QED
  BY <1>1, <1>2, <1>3, <1>4, <1>5, <1>6, <1>7, <1>8 DEF Next

(* The driver implements the memory of pixels it promises its clients: no  *)
(* GetImage returns anything but what was drawn, except where leaving the  *)
(* VT, PushPixels or a GL client has lost pixels.  Every allocation,       *)
(* mapping and validation may fail; what NoHazards leaves out are the      *)
(* failures that reach nobody (AllHazards).                                *)
THEOREM ImplementsPixelMemory == ASSUME NoHazards PROVE Spec => ClientSpec
<1>1. Init => Client!Init
  BY DEF Init
<1>2. CInv /\ [Next]_vars => [Client!Next]_<<mem, reply, master>>
  BY StepImplements
<1> QED
  BY AlwaysWhole, <1>1, <1>2, PTL DEF Spec, ClientSpec, Client!Spec
============================================================================
